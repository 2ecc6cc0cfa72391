---------------------------- MODULE CommandsProofs ----------------------------
(***************************************************************************)
(* Proofs about the rows remembered over a restart: first of TransitCache, *)
(* whatever rows it is given, then that Commands gives it nothing else, so *)
(* that what is proved of the cache holds from the payload's text on.      *)
(*                                                                         *)
(* Then of PayloadParser: however long a payload is and whatever stands in *)
(* its strings, lines that are harmless are read as what they say.  The    *)
(* proof places every atom of a line's text by its position, shows what    *)
(* every search of the code finds there, and puts the rows together.       *)
(***************************************************************************)
EXTENDS Commands, SequenceTheorems, FiniteSetTheorems, WellFoundedInduction, TLAPS

\* What is taken away stays away: rows are given only to a device that has
\* credentials, and every command that removes those takes the rows first.
GivenInv ==
    /\ ~paired => assigned = None
    /\ erases > 0 => assigned = None
    /\ at = "resetting" => assigned = None
    /\ on /\ link = "ok" => paired
    /\ erases > 0 => on /\ at = "disconnecting"

\* Outside the commands that take rows away, the screen has the rows given.
ShownInv == on /\ at = "loop" /\ rows # None /\ ~behind => rows = assigned

CacheInv == TypeOK /\ RamIsStored /\ RestartShowsAssigned /\ GivenInv /\ ShownInv

\* Whatever a payload says, a restart accepts what is remembered of it.
LEMMA CachedIsRemembered ==
    ASSUME NEW payload \in Payloads
    PROVE  IsRemembered(Cached(payload))
<1> DEFINE StoredRow(i) == IF i <= Len(payload)
                           THEN [label |-> Destination(payload[i].label), scroll |-> payload[i].scroll]
                           ELSE ClearedRow
<1>1. /\ Len(payload) \in RowIds
      /\ \A i \in 1..Len(payload) : payload[i] \in PayloadRows
  <2>1. CASE \E row \in PayloadRows : payload = <<row>>
    BY <2>1 DEF RowIds
  <2>2. CASE \E first \in PayloadRows, second \in PayloadRows : payload = <<first, second>>
    BY <2>2 DEF RowIds
  <2> QED
    BY <2>1, <2>2 DEF Payloads
<1>2. ASSUME NEW i \in RowIds
      PROVE  StoredRow(i) \in Rows /\ (i = 1 => StoredRow(i).label # "")
  <2>1. CASE i <= Len(payload)
    <3>1. payload[i] \in PayloadRows
      BY <1>1, <2>1 DEF RowIds
    <3>2. payload[i].label \in Labels /\ payload[i].scroll \in BOOLEAN
      BY <3>1 DEF PayloadRows
    <3>3. Destination(payload[i].label) \in (Labels \ {""}) \cup {"", "--"}
      BY <3>2 DEF Destination
    <3>4. Destination(payload[i].label) # ""
      BY DEF Destination
    <3> QED
      BY <2>1, <3>2, <3>3, <3>4 DEF Rows
  <2>2. CASE ~(i <= Len(payload))
    <3>1. i # 1
      BY <1>1, <2>2 DEF RowIds
    <3>2. ClearedRow \in Rows
      BY DEF ClearedRow, Rows
    <3> QED
      BY <2>2, <3>1, <3>2
  <2> QED
    BY <2>1, <2>2
<1>3. Cached(payload) = [n |-> Len(payload), rows |-> [i \in RowIds |-> StoredRow(i)]]
  BY DEF Cached
<1>4. [i \in RowIds |-> StoredRow(i)] \in [RowIds -> Rows]
  BY <1>2
<1>5. Cached(payload).rows[1].label # ""
  <2>1. 1 \in RowIds
    BY DEF RowIds
  <2>2. StoredRow(1).label # ""
    BY <1>2, <2>1
  <2>3. Cached(payload).rows[1] = StoredRow(1)
    BY <1>3, <2>1
  <2> QED
    BY <2>2, <2>3
<1> HIDE DEF RowOf
<1>6. Cached(payload) \in Assignments
  BY <1>1, <1>3, <1>4 DEF Assignments
<1> QED
  BY <1>5, <1>6 DEF IsRemembered

\* A restart shows what is remembered, and nothing of another blob.
LEMMA LoadsRemembered ==
    /\ \A a : IsRemembered(a) => Loads(a) = a /\ a # None
    /\ Loads(None) = None
    /\ Loads(Foreign) = None
BY CacheAssumption DEF IsRemembered, Loads

\* A new board remembers nothing.
LEMMA CacheInit == Init => CacheInv
<1> SUFFICES ASSUME Init PROVE CacheInv
  OBVIOUS
<1>1. TypeOK
  <2>1. on \in BOOLEAN /\ paired \in BOOLEAN /\ behind \in BOOLEAN
    BY DEF Init
  <2>2. /\ at \in {"loop", "disconnecting", "resetting"}
        /\ erases \in 0..2
        /\ link \in {"ok", "setup", "off"}
    BY DEF Init
  <2>3. nvs \in {None, Foreign} /\ \A a \in {ram, rows, assigned} : a = None
    BY DEF Init
  <2> QED
    BY <2>1, <2>2, <2>3 DEF TypeOK
<1>2. RamIsStored /\ RestartShowsAssigned
  BY LoadsRemembered DEF Init, RamIsStored, RestartShowsAssigned
<1>3. GivenInv /\ ShownInv
  BY DEF Init, GivenInv, ShownInv
<1> QED
  BY <1>1, <1>2, <1>3 DEF CacheInv

\* Every command and every event keeps the invariant.
LEMMA CacheStep == CacheInv /\ [Next]_vars => CacheInv'
<1> SUFFICES ASSUME CacheInv, [Next]_vars PROVE CacheInv'
  OBVIOUS
<1> USE LoadsRemembered
    DEF CacheInv, TypeOK, RamIsStored, RestartShowsAssigned, GivenInv, ShownInv
<1>1. ASSUME NEW payload \in Payloads, NEW written \in BOOLEAN, ReceivesRows(payload, written)
      PROVE  CacheInv'
  <2>1. IsRemembered(Cached(payload))
    BY CachedIsRemembered
  <2>2. CASE ram = Cached(payload)
    BY <1>1, <2>1, <2>2 DEF ReceivesRows, Commanded
  <2>3. CASE ram # Cached(payload)
    BY <1>1, <2>1, <2>3 DEF ReceivesRows, Commanded, Persists
  <2> QED
    BY <2>2, <2>3
<1>2. ASSUME NEW erased \in BOOLEAN, ReceivesBlank(erased)
      PROVE  CacheInv'
  BY <1>2 DEF ReceivesBlank, Commanded, ClearsCache
<1>3. ASSUME NEW erased \in BOOLEAN, DisconnectErases(erased)
      PROVE  CacheInv'
  <2>1. behind' \in BOOLEAN
    BY <1>3 DEF DisconnectErases, ClearsCache
  <2>2. TypeOK'
    BY <1>3, <2>1 DEF DisconnectErases, ClearsCache
  <2>3. RamIsStored' /\ RestartShowsAssigned'
    BY <1>3 DEF DisconnectErases, ClearsCache
  <2>4. GivenInv' /\ ShownInv'
    BY <1>3 DEF DisconnectErases, ClearsCache
  <2> QED
    BY <2>2, <2>3, <2>4
<1>4. ASSUME NEW erased \in BOOLEAN, ReceivesFactoryReset(erased)
      PROVE  CacheInv'
  BY <1>4 DEF ReceivesFactoryReset, Commanded, ClearsCache
<1>5. ASSUME NEW clear \in BOOLEAN, NEW restart \in BOOLEAN, ReceivesDisconnect(clear, restart)
      PROVE  CacheInv'
  <2>1. /\ erases' \in 0..2
        /\ erases' > 0 <=> clear \/ restart
    BY <1>5 DEF ReceivesDisconnect, ErasesFor
  <2>2. paired' \in BOOLEAN /\ (~paired' => clear \/ ~paired)
    BY <1>5 DEF ReceivesDisconnect
  <2>3. TypeOK'
    BY <1>5, <2>1, <2>2 DEF ReceivesDisconnect
  <2>4. RamIsStored' /\ RestartShowsAssigned'
    BY <1>5, <2>1 DEF ReceivesDisconnect, Commanded
  <2>5. GivenInv' /\ ShownInv'
    BY <1>5, <2>1, <2>2 DEF ReceivesDisconnect, Commanded
  <2> QED
    BY <2>3, <2>4, <2>5
<1>6. CASE DisconnectEnds
  BY <1>6 DEF DisconnectEnds
<1>7. CASE PowerFails \/ ResetEnds
  <2>1. TurnsOff
    BY <1>7 DEF PowerFails, ResetEnds
  <2>2. behind' \in BOOLEAN /\ (~behind' => ~behind /\ erases = 0)
    <3>1. CASE erases = 0
      BY <2>1, <3>1 DEF TurnsOff
    <3>2. CASE erases > 0
      BY <2>1, <3>2 DEF TurnsOff
    <3> QED
      BY <3>1, <3>2
  <2>3. paired' \in BOOLEAN /\ (~paired' => ~paired \/ at = "resetting")
    BY <1>7 DEF PowerFails, ResetEnds
  <2>4. TypeOK'
    <3>1. on' \in BOOLEAN /\ nvs' = nvs /\ assigned' = assigned
      BY <2>1 DEF TurnsOff
    <3>2. /\ at' \in {"loop", "disconnecting", "resetting"}
          /\ erases' \in 0..2
          /\ link' \in {"ok", "setup", "off"}
          /\ ram' = None
          /\ rows' = None
      BY <2>1 DEF TurnsOff
    <3> QED
      BY <2>2, <2>3, <3>1, <3>2
  <2>5. RamIsStored' /\ RestartShowsAssigned'
    BY <2>1, <2>2 DEF TurnsOff
  <2>6. GivenInv' /\ ShownInv'
    BY <2>1, <2>3 DEF TurnsOff
  <2> QED
    BY <2>4, <2>5, <2>6
<1>8. CASE Begins
  BY <1>8 DEF Begins
<1>9. CASE PhonePairs
  BY <1>9 DEF PhonePairs
<1>10. CASE UNCHANGED vars
  BY <1>10 DEF vars
<1> QED
  BY <1>1, <1>2, <1>3, <1>4, <1>5, <1>6, <1>7, <1>8, <1>9, <1>10 DEF Next

\* The invariant holds as long as the device lives.
LEMMA CacheInvariant == Spec => []CacheInv
<1>1. Init => CacheInv
  BY CacheInit
<1>2. CacheInv /\ [Next]_vars => CacheInv'
  BY CacheStep
<1> QED
  BY <1>1, <1>2, PTL DEF Spec

\* Every remembered row is one a restart accepts: no label is left empty.
THEOREM CacheTypes == Spec => []TypeOK
<1>1. CacheInv => TypeOK
  BY DEF CacheInv
<1> QED
  BY <1>1, CacheInvariant, PTL

\* persist_cached_transit_assignment(): RAM takes a row over only when NVS did.
THEOREM RamNeverAhead == Spec => []RamIsStored
<1>1. CacheInv => RamIsStored
  BY DEF CacheInv
<1> QED
  BY <1>1, CacheInvariant, PTL

\* handle_command() and begin(): the rows of a restart are the rows last given.
THEOREM RestartShowsLast == Spec => []RestartShowsAssigned
<1>1. CacheInv => RestartShowsAssigned
  BY DEF CacheInv
<1> QED
  BY <1>1, CacheInvariant, PTL

\* handle_disconnect_wifi_command() and factory_reset: no credentials, no rows.
THEOREM UnpairedIsEmpty == Spec => []UnpairedShowsNothing
<1>1. CacheInv => UnpairedShowsNothing
  BY DEF CacheInv, GivenInv, ShownInv, UnpairedShowsNothing
<1> QED
  BY <1>1, CacheInvariant, PTL

\* A command asks for an assignment or for none; a restart is not asking.
LEMMA AskedIsKept ==
    ASSUME CacheInv, CacheInv', Next
    PROVE  Register!Step
<1> DEFINE Kept == Loads(nvs)
           Sure == ~behind /\ erases = 0
<1> USE LoadsRemembered
<1>1. assigned' \in Assignments \cup {None}
  BY DEF CacheInv, TypeOK, IsRemembered
<1>2. Sure' => Kept' = assigned'
  BY DEF CacheInv, RestartShowsAssigned
<1>3. Kept' \in {Kept, assigned'}
  <2> USE DEF CacheInv, TypeOK
  <2>1. ASSUME NEW payload \in Payloads, NEW written \in BOOLEAN, ReceivesRows(payload, written)
        PROVE  Kept' \in {Kept, assigned'}
    <3>1. IsRemembered(Cached(payload))
      BY CachedIsRemembered
    <3>2. nvs' = nvs \/ nvs' = Cached(payload)
      BY <2>1 DEF ReceivesRows, Persists
    <3> QED
      BY <2>1, <3>1, <3>2 DEF ReceivesRows
  <2>2. ASSUME NEW erased \in BOOLEAN, ReceivesBlank(erased) \/ ReceivesFactoryReset(erased)
        PROVE  Kept' \in {Kept, assigned'}
    <3>1. assigned' = None /\ (nvs' = nvs \/ nvs' = None)
      BY <2>2 DEF ReceivesBlank, ReceivesFactoryReset, ClearsCache
    <3> QED
      BY <3>1
  <2>3. ASSUME NEW erased \in BOOLEAN, DisconnectErases(erased)
        PROVE  Kept' \in {Kept, assigned'}
    <3>1. assigned' = None /\ (nvs' = nvs \/ nvs' = None)
      BY <2>3 DEF DisconnectErases, ClearsCache, GivenInv
    <3> QED
      BY <3>1
  <2>4. nvs' = nvs => Kept' = Kept
    OBVIOUS
  <2>5. CASE \E clear, restart \in BOOLEAN : ReceivesDisconnect(clear, restart)
    BY <2>4, <2>5 DEF ReceivesDisconnect
  <2>6. CASE DisconnectEnds \/ PowerFails \/ ResetEnds \/ Begins \/ PhonePairs
    BY <2>4, <2>6 DEF DisconnectEnds, PowerFails, ResetEnds, TurnsOff, Begins, PhonePairs
  <2> QED
    BY <2>1, <2>2, <2>3, <2>5, <2>6 DEF Next
<1>4. Sure' \in BOOLEAN
  OBVIOUS
<1> QED
  BY <1>1, <1>2, <1>3, <1>4 DEF Register!Step

\* handle_command(), the restart and every failure of NVS: the rows are kept
\* as a durable register keeps its value.
THEOREM CacheIsDurable == Spec => RowsAreDurable
<1>1. Init => Register!Init
  BY LoadsRemembered DEF Init, Register!Init
<1>2. CacheInv /\ CacheInv' /\ [Next]_vars => [Register!Step]_<<assigned, Loads(nvs), ~behind /\ erases = 0>>
  <2> SUFFICES ASSUME CacheInv, CacheInv', [Next]_vars
               PROVE  [Register!Step]_<<assigned, Loads(nvs), ~behind /\ erases = 0>>
    OBVIOUS
  <2>1. CASE Next
    BY <2>1, AskedIsKept
  <2>2. CASE UNCHANGED vars
    BY <2>2 DEF vars, Loads
  <2> QED
    BY <2>1, <2>2
<1> QED
  BY <1>1, <1>2, CacheInvariant, PTL DEF Spec, RowsAreDurable, Register!Spec

(***************************************************************************)
(* From a payload's text to the rows kept.                                 *)
(***************************************************************************)
\* At most two rows are read, each with a flag for scrolling.
ReadInv ==
    \/ read = <<>>
    \/ \E first : read = <<first>> /\ first.scroll \in BOOLEAN
    \/ \E first, second : /\ read = <<first, second>>
                          /\ {first.scroll, second.scroll} \subseteq BOOLEAN

\* extract_json_bool_field() falls back on what the caller gives.
LEMMA RowHasFlag == \A text : RowOf(text).scroll \in BOOLEAN
<1> SUFFICES ASSUME NEW text PROVE BoolField(text, "scrolling", FALSE) \in BOOLEAN
  BY DEF RowOf
<1> DEFINE field == StringField(text, "scrolling")
<1>1. CASE field \in {<<"true">>, <<"1">>}
  BY <1>1 DEF BoolField
<1>2. CASE field \notin {<<"true">>, <<"1">>} /\ field \in {<<"false">>, <<"0">>}
  BY <1>2 DEF BoolField
<1>3. CASE field \notin {<<"true">>, <<"1">>} /\ field \notin {<<"false">>, <<"0">>}
  BY <1>3 DEF BoolField
<1> QED
  BY <1>1, <1>2, <1>3

\* A row that was read is remembered as a row of some payload.
LEMMA RememberedIsPayloadRow ==
    ASSUME NEW row, row.scroll \in BOOLEAN
    PROVE  Remembered(row) \in PayloadRows
<1>1. PICK other \in Labels : other # ""
  BY LabelsAssumption
<1>2. (CHOOSE label \in Labels : label # "") \in Labels
  BY <1>1
<1> QED
  BY <1>2, LabelsAssumption DEF Remembered, PayloadRows

\* What is read of a payload is remembered like a payload of TransitCache.
LEMMA ReadIsPayload ==
    ASSUME ReadInv, read # <<>>
    PROVE  [i \in DOMAIN read |-> Remembered(read[i])] \in Payloads
<1> DEFINE payload == [i \in DOMAIN read |-> Remembered(read[i])]
<1>1. CASE \E first : read = <<first>> /\ first.scroll \in BOOLEAN
  <2>1. PICK first : read = <<first>> /\ first.scroll \in BOOLEAN
    BY <1>1
  <2>2. payload = <<Remembered(first)>>
    BY <2>1
  <2>3. Remembered(first) \in PayloadRows
    BY <2>1, RememberedIsPayloadRow
  <2> QED
    BY <2>2, <2>3 DEF Payloads
<1>2. CASE \E first, second : /\ read = <<first, second>>
                              /\ {first.scroll, second.scroll} \subseteq BOOLEAN
  <2>1. PICK first, second : /\ read = <<first, second>>
                             /\ {first.scroll, second.scroll} \subseteq BOOLEAN
    BY <1>2
  <2>2. payload = <<Remembered(first), Remembered(second)>>
    BY <2>1
  <2>3. Remembered(first) \in PayloadRows /\ Remembered(second) \in PayloadRows
    BY <2>1, RememberedIsPayloadRow
  <2> QED
    BY <2>2, <2>3 DEF Payloads
<1> QED
  BY <1>1, <1>2 DEF ReadInv

\* Reading a text keeps the invariant, and nothing else touches what was read.
LEMMA ReadStep == ReadInv /\ [CommandsNext]_commandsVars => ReadInv'
<1> SUFFICES ASSUME ReadInv, [CommandsNext]_commandsVars PROVE ReadInv'
  OBVIOUS
<1>1. ASSUME NEW lines \in Messages, ReadsMessage(lines)
      PROVE  ReadInv'
  <2>1. read' = RowsOf(MessageText(lines))
    BY <1>1 DEF ReadsMessage, Readings
  <2> DEFINE line1 == LineAt(MessageText(lines), 1)
             line2 == LineAt(MessageText(lines), 2)
  <2>2. \/ read' = <<>>
        \/ read' = <<RowOf(line1)>>
        \/ read' = <<RowOf(line1), RowOf(line2)>>
    <3>1. CASE line1 = <<>>
      BY <2>1, <3>1 DEF RowsOf
    <3>2. CASE line1 # <<>> /\ line2 = <<>>
      BY <2>1, <3>2 DEF RowsOf
    <3>3. CASE line1 # <<>> /\ line2 # <<>>
      BY <2>1, <3>3 DEF RowsOf
    <3> QED
      BY <3>1, <3>2, <3>3
  <2>3. RowOf(line1).scroll \in BOOLEAN /\ RowOf(line2).scroll \in BOOLEAN
    BY RowHasFlag
  <2> HIDE DEF line1, line2
  <2> QED
    BY <2>2, <2>3 DEF ReadInv
<1>2. CASE read' = <<>>
  BY <1>2 DEF ReadInv
<1>3. CASE read' = read
  BY <1>3 DEF ReadInv
<1> QED
  BY <1>1, <1>2, <1>3 DEF CommandsNext, commandsVars, AppliesMessage, Interrupts, HandlesAnother

\* Every step of the composition is one of TransitCache or leaves it alone.
LEMMA CommandsStep == ReadInv /\ [CommandsNext]_commandsVars => [Next]_vars
<1> SUFFICES ASSUME ReadInv, [CommandsNext]_commandsVars PROVE [Next]_vars
  OBVIOUS
<1>1. CASE \E lines \in Messages : ReadsMessage(lines)
  BY <1>1 DEF ReadsMessage
<1>2. ASSUME NEW written \in BOOLEAN, AppliesMessage(written)
      PROVE  [Next]_vars
  <2>1. CASE read = <<>>
    BY <1>2, <2>1 DEF AppliesMessage
  <2>2. CASE read # <<>>
    <3> DEFINE payload == [i \in DOMAIN read |-> Remembered(read[i])]
    <3>1. payload \in Payloads
      BY <2>2, ReadIsPayload
    <3>2. ReceivesRows(payload, written)
      BY <1>2, <2>2 DEF AppliesMessage
    <3> HIDE DEF payload
    <3> QED
      BY <3>1, <3>2 DEF Next
  <2> QED
    BY <2>1, <2>2
<1>3. CASE Interrupts
  BY <1>3 DEF Interrupts, Next
<1>4. CASE HandlesAnother
  BY <1>4 DEF HandlesAnother, Next
<1>5. CASE UNCHANGED commandsVars
  BY <1>5 DEF commandsVars
<1> QED
  BY <1>1, <1>2, <1>3, <1>4, <1>5 DEF CommandsNext

\* handle_command(): the command with its parser implements the cache, so what
\* holds of every behaviour of TransitCache holds of it.
THEOREM CommandsImplementCache == CommandsSpec => Spec
<1>1. CommandsInit => Init /\ ReadInv
  BY DEF CommandsInit, ReadInv
<1>2. ReadInv /\ [CommandsNext]_commandsVars => ReadInv'
  BY ReadStep
<1>3. ReadInv /\ [CommandsNext]_commandsVars => [Next]_vars
  BY CommandsStep
<1> QED
  BY <1>1, <1>2, <1>3, PTL DEF CommandsSpec, Spec

\* From a payload's text to the rows of a restart, through every failure.
THEOREM CommandsAreDurable == CommandsSpec => RowsAreDurable
BY CommandsImplementCache, CacheIsDurable

(***************************************************************************)
(* Induction, and functions defined by it.                                 *)
(***************************************************************************)
\* A set with zero, and with every number after one of its numbers, has them all.
LEMMA NumbersByInduction ==
  ASSUME NEW T, 0 \in T, \A n \in Nat : n \in T => n + 1 \in T
  PROVE  Nat \subseteq T
<1> SUFFICES ASSUME NEW n0 \in Nat, n0 \notin T
             PROVE  FALSE
  OBVIOUS
<1> DEFINE Missing == Nat \ T
           Less == OpToRel(<, Nat)
<1>1. PICK least \in Missing : \A n \in Missing : ~(<<n, least>> \in Less)
  BY NatLessThanWellFounded, WFMin
<1>2. least \in Nat /\ least # 0 /\ least \notin T
  BY <1>1
<1>3. least - 1 \in Missing
  BY <1>2
<1>4. <<least - 1, least>> \in Less
  BY <1>2, <1>3 DEF OpToRel
<1> QED
  BY <1>1, <1>3, <1>4

\* The values a function runs through, from `first` and each from the one before.
Runs(f, A, first, advance, n) ==
    /\ f \in [0..n -> A]
    /\ \A i \in 0..n : f[i] = IF i = 0 THEN first ELSE advance[<<f[i - 1], i>>]

\* Every step that is a function has such a run.
LEMMA StepByStep ==
  ASSUME NEW A, NEW first \in A, NEW advance \in [A \X Nat -> A], NEW n \in Nat
  PROVE  \E f : Runs(f, A, first, advance, n)
<1> DEFINE Follows(f, m) == \A i \in 0..m : f[i] = IF i = 0 THEN first ELSE advance[<<f[i - 1], i>>]
           T == {m \in Nat : \E f \in [0..m -> A] : Follows(f, m)}
<1>1. 0 \in T
  <2> DEFINE f == [i \in 0..0 |-> first]
  <2>1. f \in [0..0 -> A] /\ Follows(f, 0)
    OBVIOUS
  <2> QED
    BY <2>1
<1>2. ASSUME NEW m \in Nat, m \in T
      PROVE  m + 1 \in T
  <2>1. PICK f \in [0..m -> A] : Follows(f, m)
    BY <1>2
  <2> DEFINE upper == advance[<<f[m], m + 1>>]
             g == [i \in 0..(m + 1) |-> IF i = m + 1 THEN upper ELSE f[i]]
  <2>2. upper \in A
    <3>1. f[m] \in A /\ m + 1 \in Nat
      OBVIOUS
    <3> QED
      BY <3>1
  <2>3. g \in [0..(m + 1) -> A]
    <3> HIDE DEF upper
    <3> QED
      BY <2>2
  <2>4. ASSUME NEW i \in 0..(m + 1)
        PROVE  g[i] = IF i = 0 THEN first ELSE advance[<<g[i - 1], i>>]
    <3>1. CASE i = 0
      <4>1. 0 \in 0..m /\ 0 \in 0..(m + 1) /\ 0 # m + 1
        OBVIOUS
      <4>2. g[0] = f[0] /\ f[0] = first
        <5>1. g[0] = f[0]
          BY <4>1
        <5>2. f[0] = first
          BY <2>1, <4>1
        <5> QED
          BY <5>1, <5>2
      <4> HIDE DEF g
      <4> QED
        BY <3>1, <4>2
    <3>2. CASE i \in 1..m
      <4>1. i \in 0..m /\ i - 1 \in 0..(m + 1) /\ i - 1 # m + 1 /\ i # m + 1 /\ i # 0
        BY <3>2
      <4>2. g[i] = f[i] /\ g[i - 1] = f[i - 1]
        BY <4>1
      <4>3. f[i] = advance[<<f[i - 1], i>>]
        BY <2>1, <4>1
      <4> HIDE DEF g
      <4> QED
        BY <4>1, <4>2, <4>3
    <3>3. CASE i = m + 1
      <4>1. i - 1 = m /\ m \in 0..(m + 1) /\ m # m + 1 /\ i # 0
        BY <3>3
      <4>2. g[i] = upper /\ g[i - 1] = f[m]
        BY <3>3, <4>1
      <4> HIDE DEF g
      <4> QED
        BY <3>3, <4>1, <4>2
    <3> QED
      BY <3>1, <3>2, <3>3
  <2> HIDE DEF g
  <2>5. Follows(g, m + 1)
    BY <2>4
  <2> HIDE DEF Follows
  <2> QED
    BY <2>3, <2>5
<1>3. n \in T
  <2> HIDE DEF T
  <2> QED
    BY <1>1, <1>2, NumbersByInduction
<1> QED
  BY <1>3 DEF Runs

\* A function that goes on by the step as long as its values are in the range
\* runs through the range.
LEMMA FollowingRuns ==
  ASSUME NEW A, NEW first \in A, NEW advance \in [A \X Nat -> A], NEW n \in Nat,
         NEW f, f = [i \in 0..n |-> f[i]], f[0] = first,
         \A i \in 1..n : f[i - 1] \in A => f[i] = advance[<<f[i - 1], i>>]
  PROVE  Runs(f, A, first, advance, n)
<1> DEFINE T == {i \in Nat : i <= n => f[i] \in A}
<1>1. 0 \in T
  OBVIOUS
<1>2. ASSUME NEW i \in Nat, i \in T
      PROVE  i + 1 \in T
  <2>1. CASE i + 1 <= n
    <3>1. i + 1 \in 1..n /\ (i + 1) - 1 = i /\ f[i] \in A
      BY <1>2, <2>1
    <3>2. f[i + 1] = advance[<<f[i], i + 1>>]
      BY <3>1
    <3>3. f[i + 1] \in A
      BY <3>1, <3>2
    <3> QED
      BY <3>3
  <2>2. CASE ~(i + 1 <= n)
    BY <2>2
  <2> QED
    BY <2>1, <2>2
<1> HIDE DEF T
<1>3. Nat \subseteq T
  BY <1>1, <1>2, NumbersByInduction
<1>4. \A i \in 0..n : f[i] \in A
  BY <1>3 DEF T
<1>5. f \in [0..n -> A]
  BY <1>4
<1>6. ASSUME NEW i \in 0..n
      PROVE  f[i] = IF i = 0 THEN first ELSE advance[<<f[i - 1], i>>]
  <2>1. CASE i = 0
    BY <2>1
  <2>2. CASE i # 0
    <3>1. i \in 1..n /\ i - 1 \in 0..n
      BY <2>2
    <3> QED
      BY <1>4, <2>2, <3>1
  <2> QED
    BY <2>1, <2>2
<1> QED
  BY <1>5, <1>6 DEF Runs

(***************************************************************************)
(* Texts.                                                                  *)
(***************************************************************************)
\* The words of the format; the provers do not know that they are strings.
Words == {"badge", "shape", "text", "label", "status", "scrolling", "etas", "lines",
          "circle", "pill", "ok", "delayed", "true", "false"}

\* What a text is made of.
Atoms == STRING \cup Punctuation \cup Words
AnyText == Seq(Atoms)

\* Behind position p, the text goes on with s.
Part(text, p, s) ==
    /\ p \in Nat /\ p + Len(s) <= Len(text)
    /\ \A k \in 1..Len(s) : text[p + k] = s[k]

\* A text is a part of itself.
LEMMA WholeIsPart == \A text \in AnyText : Part(text, 0, text)
BY DEF AnyText, Part

\* Where two texts stand one behind the other, each stands at its place.
LEMMA PartsOfConcat ==
  ASSUME NEW a \in AnyText, NEW b \in AnyText, NEW text \in AnyText, NEW p \in Nat,
         Part(text, p, a \o b)
  PROVE  Part(text, p, a) /\ Part(text, p + Len(a), b)
<1> DEFINE n == Len(a)
           k == Len(b)
           ab == a \o b
<1>1. n \in Nat /\ k \in Nat /\ Len(text) \in Nat
  BY DEF AnyText
<1>2. Len(ab) = n + k /\ \A i \in 1..(n + k) : ab[i] = IF i <= n THEN a[i] ELSE b[i - n]
  BY ConcatProperties DEF AnyText
<1>3. p + (n + k) <= Len(text) /\ \A i \in 1..(n + k) : text[p + i] = ab[i]
  BY <1>2 DEF Part
<1> HIDE DEF n, k, ab
<1>4. ASSUME NEW i \in 1..n PROVE text[p + i] = a[i]
  <2>1. i \in 1..(n + k) /\ i <= n
    BY <1>1
  <2> QED
    BY <1>2, <1>3, <2>1
<1>5. ASSUME NEW i \in 1..k PROVE text[(p + n) + i] = b[i]
  <2>1. n + i \in 1..(n + k) /\ ~(n + i <= n) /\ (n + i) - n = i /\ p + (n + i) = (p + n) + i
    BY <1>1
  <2>2. text[p + (n + i)] = b[i]
    BY <1>2, <1>3, <2>1
  <2> QED
    BY <2>1, <2>2
<1>6. p + n <= Len(text) /\ (p + n) + k <= Len(text) /\ p + n \in Nat
  BY <1>1, <1>3
<1> QED
  BY <1>4, <1>5, <1>6 DEF Part, n, k

\* A concatenation has the parts it was made of.
LEMMA ConcatHasParts ==
  ASSUME NEW a \in AnyText, NEW b \in AnyText
  PROVE  /\ a \o b \in AnyText
         /\ Len(a \o b) = Len(a) + Len(b)
         /\ Part(a \o b, 0, a)
         /\ Part(a \o b, Len(a), b)
<1>1. a \o b \in AnyText /\ Len(a \o b) = Len(a) + Len(b)
  BY ConcatProperties DEF AnyText
<1>2. Part(a \o b, 0, a \o b)
  BY <1>1, WholeIsPart
<1>3. Part(a \o b, 0, a) /\ Part(a \o b, 0 + Len(a), b)
  BY <1>1, <1>2, PartsOfConcat
<1>4. 0 + Len(a) = Len(a)
  BY DEF AnyText
<1> QED
  BY <1>1, <1>3, <1>4

\* One atom is the text it stands alone in.
LEMMA AtomAsPart ==
  ASSUME NEW x \in Atoms, NEW text, NEW p, Part(text, p, <<x>>)
  PROVE  text[p + 1] = x /\ p + 1 <= Len(text)
BY DEF Part

\* What is cut out where a text stands is that text.
LEMMA PartIsSubSeq ==
  ASSUME NEW text \in AnyText, NEW p \in Nat, NEW s \in AnyText, Part(text, p, s)
  PROVE  SubSeq(text, p + 1, p + Len(s)) = s
<1> DEFINE n == Len(s)
           cut == SubSeq(text, p + 1, p + n)
<1>1. n \in Nat /\ Len(text) \in Nat /\ p + n <= Len(text)
  BY DEF AnyText, Part
<1>2. \A i \in (p + 1)..(p + n) : text[i] \in Atoms
  BY <1>1 DEF AnyText
<1>3. \A k \in 1..n : text[p + k] = s[k]
  BY DEF Part
<1> HIDE DEF n
<1>4. /\ cut \in Seq(Atoms)
      /\ Len(cut) = IF p + 1 <= p + n THEN (p + n) - (p + 1) + 1 ELSE 0
      /\ \A i \in 1..((p + n) - (p + 1) + 1) : cut[i] = text[(p + 1) + i - 1]
  <2>1. p + 1 \in Int /\ p + n \in Int
    BY <1>1
  <2> QED
    BY <1>2, <2>1, SubSeqProperties
<1> HIDE DEF cut
<1>5. Len(cut) = n
  BY <1>1, <1>4
<1>6. ASSUME NEW i \in 1..Len(cut) PROVE cut[i] = s[i]
  <2>1. i \in 1..((p + n) - (p + 1) + 1) /\ (p + 1) + i - 1 = p + i /\ i \in 1..n
    BY <1>1, <1>5
  <2> QED
    BY <1>3, <1>4, <2>1
<1>7. cut = s
  BY <1>4, <1>5, <1>6, SeqEqual DEF n, AnyText
<1> QED
  BY <1>7 DEF cut, n

(***************************************************************************)
(* Brackets.                                                               *)
(***************************************************************************)
\* How many atoms of S there are between two positions.
CountOf(text, S, from, i) == Cardinality({j \in from..i : text[j] \in S})

\* One position further there is one more, or not.
CountGrows(text, S, from, i) ==
    /\ CountOf(text, S, from, i - 1) \in Nat
    /\ CountOf(text, S, from, i) = CountOf(text, S, from, i - 1) + (IF text[i] \in S THEN 1 ELSE 0)

\* One position further the count grows so.
LEMMA CountStep ==
  ASSUME NEW text, NEW S, NEW from \in Int, NEW i \in Int, from <= i
  PROVE  CountGrows(text, S, from, i)
<1> DEFINE Before == {j \in from..(i - 1) : text[j] \in S}
           Now == {j \in from..i : text[j] \in S}
<1>1. IsFiniteSet(Before)
  <2>1. IsFiniteSet(from..(i - 1))
    BY FS_Interval
  <2>2. Before \in SUBSET (from..(i - 1))
    OBVIOUS
  <2> QED
    BY <2>1, <2>2, FS_Subset
<1>2. Cardinality(Before) \in Nat
  BY <1>1, FS_CardinalityType
<1>3. CASE text[i] \in S
  <2>1. Now = Before \cup {i} /\ i \notin Before
    BY <1>3
  <2> HIDE DEF Before, Now
  <2>2. Cardinality(Before \cup {i}) = Cardinality(Before) + 1
    BY <1>1, <2>1, FS_AddElement
  <2> QED
    BY <1>2, <1>3, <2>1, <2>2 DEF CountGrows, CountOf, Before, Now
<1>4. CASE text[i] \notin S
  <2>1. Now = Before
    BY <1>4
  <2>2. Cardinality(Now) = Cardinality(Before)
    BY <2>1
  <2> HIDE DEF Before, Now
  <2>3. CountOf(text, S, from, i) = Cardinality(Now) /\ CountOf(text, S, from, i - 1) = Cardinality(Before)
    BY DEF CountOf, Before, Now
  <2> QED
    BY <1>2, <1>4, <2>2, <2>3 DEF CountGrows
<1> QED
  BY <1>3, <1>4

\* What an atom adds to the brackets that are open.
Gain(x, opens, closes) == (IF x \in opens THEN 1 ELSE 0) - (IF x \in closes THEN 1 ELSE 0)

DepthGrows(text, opens, closes, from, i) ==
    /\ Depth(text, opens, closes, from, i - 1) \in Int
    /\ Depth(text, opens, closes, from, i) =
           Depth(text, opens, closes, from, i - 1) + Gain(text[i], opens, closes)

\* One position further.
LEMMA DepthStep ==
  ASSUME NEW text, NEW opens, NEW closes, NEW from \in Int, NEW i \in Int, from <= i
  PROVE  DepthGrows(text, opens, closes, from, i)
<1>1. CountGrows(text, opens, from, i) /\ CountGrows(text, closes, from, i)
  BY CountStep
<1>2. \A k : Depth(text, opens, closes, from, k) =
                 CountOf(text, opens, from, k) - CountOf(text, closes, from, k)
  BY DEF Depth, CountOf
<1> QED
  BY <1>1, <1>2 DEF CountGrows, DepthGrows, Gain

\* Nothing is open where counting starts.
LEMMA DepthOfNothing ==
  ASSUME NEW text, NEW opens, NEW closes, NEW from \in Int
  PROVE  Depth(text, opens, closes, from, from - 1) = 0
<1> DEFINE Opening == {j \in from..(from - 1) : text[j] \in opens}
           Closing == {j \in from..(from - 1) : text[j] \in closes}
<1>1. Opening = {} /\ Closing = {}
  OBVIOUS
<1>2. Cardinality(Opening) = 0 /\ Cardinality(Closing) = 0
  BY <1>1, FS_EmptySet
<1>3. Depth(text, opens, closes, from, from - 1) = Cardinality(Opening) - Cardinality(Closing)
  BY DEF Depth
<1> HIDE DEF Opening, Closing
<1> QED
  BY <1>2, <1>3

\* A number at every position.
LEMMA DepthIsInt ==
  ASSUME NEW text, NEW opens, NEW closes, NEW from \in Int, NEW i \in Int, from - 1 <= i
  PROVE  Depth(text, opens, closes, from, i) \in Int
<1>1. DepthGrows(text, opens, closes, from, i + 1)
  BY DepthStep
<1>2. (i + 1) - 1 = i
  OBVIOUS
<1> QED
  BY <1>1, <1>2 DEF DepthGrows

\* The brackets of a part count within a text as they do in the part alone.
CountsAlike(text, p, s, opens, closes, from, k) ==
    Depth(text, opens, closes, from, p + k) =
        Depth(text, opens, closes, from, p) + Depth(s, opens, closes, 1, k)

\* They do, up to each of its positions.
LEMMA DepthOfPart ==
  ASSUME NEW text \in AnyText, NEW s \in AnyText, NEW p \in Nat, Part(text, p, s),
         NEW opens, NEW closes, NEW from \in Nat, 1 <= from, from <= p + 1
  PROVE  \A k \in 0..Len(s) : CountsAlike(text, p, s, opens, closes, from, k)
<1> DEFINE T == {k \in Nat : k <= Len(s) => CountsAlike(text, p, s, opens, closes, from, k)}
           there(i) == Depth(text, opens, closes, from, i)
           alone(i) == Depth(s, opens, closes, 1, i)
<1>1. 0 \in T
  <2>1. alone(1 - 1) = 0
    BY DepthOfNothing
  <2>2. there(p) \in Int
    BY DepthIsInt
  <2> HIDE DEF there, alone
  <2>3. there(p + 0) = there(p) + alone(0)
    BY <2>1, <2>2
  <2> QED
    BY <2>3 DEF CountsAlike, there, alone
<1>2. ASSUME NEW k \in Nat, k \in T
      PROVE  k + 1 \in T
  <2> SUFFICES ASSUME k + 1 <= Len(s)
               PROVE  CountsAlike(text, p, s, opens, closes, from, k + 1)
    OBVIOUS
  <2>1. there(p + k) = there(p) + alone(k)
    <3>1. k <= Len(s)
      BY DEF AnyText
    <3> QED
      BY <1>2, <3>1 DEF CountsAlike
  <2>2. text[p + (k + 1)] = s[k + 1]
    BY DEF Part, AnyText
  <2>3. DepthGrows(text, opens, closes, from, p + (k + 1)) /\ (p + (k + 1)) - 1 = p + k
    BY DepthStep
  <2>4. DepthGrows(s, opens, closes, 1, k + 1) /\ (k + 1) - 1 = k
    BY DepthStep
  <2>5. /\ there(p + (k + 1)) = there(p + k) + Gain(s[k + 1], opens, closes)
        /\ alone(k + 1) = alone(k) + Gain(s[k + 1], opens, closes)
        /\ alone(k) \in Int
    BY <2>2, <2>3, <2>4 DEF DepthGrows
  <2>6. there(p) \in Int /\ Gain(s[k + 1], opens, closes) \in Int
    <3>1. there(p) \in Int
      BY DepthIsInt
    <3> QED
      BY <3>1 DEF Gain
  <2> HIDE DEF there, alone
  <2>7. there(p + (k + 1)) = there(p) + alone(k + 1)
    BY <2>1, <2>5, <2>6
  <2> QED
    BY <2>7 DEF CountsAlike, there, alone
<1> HIDE DEF T
<1>3. Nat \subseteq T
  BY <1>1, <1>2, NumbersByInduction
<1> QED
  BY <1>3 DEF T, AnyText

\* A text whose brackets pair up.
Quiet(s, opens, closes) == s \in AnyText /\ PairsUp(s, opens, closes)

\* A text whose first bracket is closed by its last atom and not before.
Enclosed(s, opens, closes) ==
    /\ s \in AnyText /\ Len(s) >= 2
    /\ \A i \in 1..(Len(s) - 1) : Depth(s, opens, closes, 1, i) >= 1
    /\ Depth(s, opens, closes, 1, Len(s)) = 0

\* The brackets of each of two texts count on within their concatenation.
CountsOn(a, b, opens, closes) ==
    /\ \A k \in 0..Len(a) : Depth(a \o b, opens, closes, 1, k) = Depth(a, opens, closes, 1, k)
    /\ \A k \in 0..Len(b) : Depth(a \o b, opens, closes, 1, Len(a) + k) =
           Depth(a, opens, closes, 1, Len(a)) + Depth(b, opens, closes, 1, k)

\* Counting goes on from one to the other.
LEMMA DepthOfConcat ==
  ASSUME NEW a \in AnyText, NEW b \in AnyText, NEW opens, NEW closes
  PROVE  CountsOn(a, b, opens, closes)
<1> DEFINE ab == a \o b
           n == Len(a)
           D(s, i) == Depth(s, opens, closes, 1, i)
<1>1. ab \in AnyText /\ Part(ab, 0, a) /\ Part(ab, n, b) /\ n \in Nat
  BY ConcatHasParts DEF AnyText
<1>2. D(ab, 0) = 0
  <2>1. D(ab, 1 - 1) = 0
    BY DepthOfNothing
  <2> QED
    BY <2>1
<1> HIDE DEF ab
<1>3. \A k \in 0..Len(a) : CountsAlike(ab, 0, a, opens, closes, 1, k)
  BY <1>1, DepthOfPart
<1>4. \A k \in 0..Len(b) : CountsAlike(ab, n, b, opens, closes, 1, k)
  BY <1>1, DepthOfPart
<1>5. ASSUME NEW k \in 0..Len(a) PROVE D(ab, k) = D(a, k)
  <2>1. D(ab, 0 + k) = D(ab, 0) + D(a, k)
    BY <1>3 DEF CountsAlike
  <2>2. D(a, k) \in Int
    BY DepthIsInt
  <2>3. 0 + k = k
    OBVIOUS
  <2> HIDE DEF D
  <2> QED
    BY <1>2, <2>1, <2>2, <2>3
<1>6. ASSUME NEW k \in 0..Len(b) PROVE D(ab, n + k) = D(a, n) + D(b, k)
  <2>1. D(ab, n + k) = D(ab, n) + D(b, k)
    BY <1>4 DEF CountsAlike
  <2>2. n \in 0..Len(a)
    BY <1>1
  <2>3. D(ab, n) = D(a, n)
    BY <1>5, <2>2
  <2> QED
    BY <2>1, <2>3
<1> QED
  BY <1>5, <1>6 DEF ab, CountsOn

\* Texts whose brackets pair up do so one behind the other.
LEMMA QuietConcat ==
  ASSUME NEW a, NEW b, NEW opens, NEW closes, Quiet(a, opens, closes), Quiet(b, opens, closes)
  PROVE  Quiet(a \o b, opens, closes)
<1> DEFINE ab == a \o b
           n == Len(a)
           m == Len(b)
           D(s, i) == Depth(s, opens, closes, 1, i)
<1>1. a \in AnyText /\ b \in AnyText
  BY DEF Quiet
<1>2. ab \in AnyText /\ Len(ab) = n + m /\ n \in Nat /\ m \in Nat
  BY <1>1, ConcatHasParts DEF AnyText
<1>3. /\ \A k \in 0..n : D(ab, k) = D(a, k)
      /\ \A k \in 0..m : D(ab, n + k) = D(a, n) + D(b, k)
  <2>1. CountsOn(a, b, opens, closes)
    BY <1>1, DepthOfConcat
  <2> QED
    BY <2>1 DEF CountsOn
<1>4. /\ \A i \in 1..n : D(a, i) >= 0
      /\ D(a, n) = 0
      /\ \A i \in 1..m : D(b, i) >= 0
      /\ D(b, m) = 0
  BY <1>1 DEF Quiet, PairsUp, AnyText
<1>5. \A i \in 1..m : D(b, i) \in Int
  BY DepthIsInt
<1> HIDE DEF ab, n, m, D
<1>6. ASSUME NEW i \in 1..(n + m) PROVE D(ab, i) >= 0
  <2>1. CASE i <= n
    BY <1>2, <1>3, <1>4, <2>1
  <2>2. CASE ~(i <= n)
    <3>1. i - n \in 1..m /\ i - n \in 0..m /\ n + (i - n) = i
      BY <1>2, <2>2
    <3> QED
      BY <1>3, <1>4, <1>5, <3>1
  <2> QED
    BY <2>1, <2>2
<1>7. D(ab, n + m) = 0
  <2>1. m \in 0..m
    BY <1>2
  <2> QED
    BY <1>3, <1>4, <2>1
<1>8. DOMAIN ab = 1..(n + m)
  BY <1>2 DEF AnyText
<1> QED
  BY <1>2, <1>6, <1>7, <1>8 DEF Quiet, PairsUp, D, ab

\* An atom that is no bracket.
LEMMA QuietAtom ==
  ASSUME NEW x \in Atoms, NEW opens, NEW closes, x \notin opens, x \notin closes
  PROVE  Quiet(<<x>>, opens, closes)
<1> DEFINE s == <<x>>
<1>1. s \in AnyText /\ Len(s) = 1 /\ s[1] = x /\ DOMAIN s = 1..1
  BY DEF AnyText
<1> HIDE DEF s
<1>2. Depth(s, opens, closes, 1, 1 - 1) = 0
  BY DepthOfNothing
<1>3. DepthGrows(s, opens, closes, 1, 1)
  BY DepthStep
<1>4. Depth(s, opens, closes, 1, 1) = 0
  BY <1>1, <1>2, <1>3 DEF DepthGrows, Gain
<1> QED
  BY <1>1, <1>4 DEF Quiet, PairsUp, s

\* Nothing has no brackets.
LEMMA QuietNothing ==
  ASSUME NEW opens, NEW closes
  PROVE  Quiet(<<>>, opens, closes)
<1>1. Depth(<<>>, opens, closes, 1, 1 - 1) = 0
  BY DepthOfNothing
<1> QED
  BY <1>1 DEF Quiet, PairsUp, AnyText

\* Brackets around a text whose brackets pair up.
LEMMA EnclosedIs ==
  ASSUME NEW s, NEW x \in Atoms, NEW y \in Atoms, NEW opens, NEW closes, Quiet(s, opens, closes),
         x \in opens, x \notin closes, y \in closes, y \notin opens
  PROVE  Enclosed(<<x>> \o s \o <<y>>, opens, closes)
<1> DEFINE n == Len(s)
           xs == <<x>> \o s
           t == xs \o <<y>>
           D(r, i) == Depth(r, opens, closes, 1, i)
<1>1. s \in AnyText /\ <<x>> \in AnyText /\ <<y>> \in AnyText /\ n \in Nat
  BY DEF Quiet, AnyText
<1>2. xs \in AnyText /\ Len(xs) = n + 1
  <2>1. Len(<<x>>) = 1
    OBVIOUS
  <2> QED
    BY <1>1, <2>1, ConcatHasParts
<1>3. D(<<x>>, 1) = 1 /\ D(<<y>>, 1) = -1
  <2>1. /\ DepthGrows(<<x>>, opens, closes, 1, 1)
        /\ DepthGrows(<<y>>, opens, closes, 1, 1)
        /\ D(<<x>>, 1 - 1) = 0
        /\ D(<<y>>, 1 - 1) = 0
    BY DepthStep, DepthOfNothing
  <2>2. <<x>>[1] = x /\ <<y>>[1] = y
    OBVIOUS
  <2> QED
    BY <2>1, <2>2 DEF DepthGrows, Gain
<1>4. /\ \A k \in 0..1 : D(xs, k) = D(<<x>>, k)
      /\ \A k \in 0..n : D(xs, 1 + k) = D(<<x>>, 1) + D(s, k)
  <2>1. Len(<<x>>) = 1
    OBVIOUS
  <2>2. /\ \A k \in 0..Len(<<x>>) : D(xs, k) = D(<<x>>, k)
        /\ \A k \in 0..n : D(xs, Len(<<x>>) + k) = D(<<x>>, Len(<<x>>)) + D(s, k)
    <3>1. CountsOn(<<x>>, s, opens, closes)
      BY <1>1, DepthOfConcat
    <3> QED
      BY <3>1 DEF CountsOn
  <2> QED
    BY <2>1, <2>2, Zenon
<1>5. \A k \in 1..n : D(s, k) >= 0 /\ D(s, k) \in Int
  <2>1. \A k \in 1..n : D(s, k) \in Int
    BY DepthIsInt
  <2> QED
    BY <1>1, <2>1 DEF Quiet, PairsUp, AnyText
<1>6. D(s, n) = 0 /\ D(s, 0) = 0
  <2>1. D(s, 1 - 1) = 0
    BY DepthOfNothing
  <2> QED
    BY <2>1 DEF Quiet, PairsUp
<1> HIDE DEF xs, n
<1>7. t \in AnyText /\ Len(t) = n + 2
  <2>1. Len(<<y>>) = 1
    OBVIOUS
  <2> QED
    BY <1>1, <1>2, <2>1, ConcatHasParts
<1>8. /\ \A k \in 0..(n + 1) : D(t, k) = D(xs, k)
      /\ D(t, (n + 1) + 1) = D(xs, n + 1) + D(<<y>>, 1)
  <2>1. Len(<<y>>) = 1 /\ 1 \in 0..1
    OBVIOUS
  <2>2. CountsOn(xs, <<y>>, opens, closes)
    BY <1>1, <1>2, DepthOfConcat
  <2> QED
    BY <1>2, <2>1, <2>2 DEF CountsOn
<1> HIDE DEF t, D
<1>9. ASSUME NEW i \in 1..(n + 1) PROVE D(xs, i) >= 1
  <2>1. i - 1 \in 0..n /\ 1 + (i - 1) = i
    BY <1>1
  <2>2. D(s, i - 1) >= 0 /\ D(s, i - 1) \in Int
    <3>1. CASE i = 1
      BY <1>6, <3>1
    <3>2. CASE i # 1
      <4>1. i - 1 \in 1..n
        BY <1>1, <3>2
      <4> QED
        BY <1>5, <4>1
    <3> QED
      BY <3>1, <3>2
  <2> QED
    BY <1>3, <1>4, <2>1, <2>2
<1>10. D(xs, n + 1) = 1
  <2>1. n \in 0..n /\ 1 + n = n + 1
    BY <1>1
  <2> QED
    BY <1>3, <1>4, <1>6, <2>1
<1>11. D(t, n + 2) = 0
  <2>1. (n + 1) + 1 = n + 2
    BY <1>1
  <2> QED
    BY <1>3, <1>8, <1>10, <2>1
<1>12. \A i \in 1..(n + 1) : D(t, i) >= 1
  <2>1. \A i \in 1..(n + 1) : i \in 0..(n + 1)
    OBVIOUS
  <2> QED
    BY <1>8, <1>9, <2>1
<1>13. (n + 2) - 1 = n + 1 /\ n + 2 >= 2
  BY <1>1
<1> QED
  BY <1>7, <1>11, <1>12, <1>13 DEF Enclosed, D, t, xs

\* The brackets of an enclosed text pair up.
LEMMA EnclosedIsQuiet ==
  ASSUME NEW s, NEW opens, NEW closes, Enclosed(s, opens, closes)
  PROVE  Quiet(s, opens, closes)
<1> DEFINE D(i) == Depth(s, opens, closes, 1, i)
           n == Len(s)
<1>1. s \in AnyText /\ DOMAIN s = 1..n /\ n \in Nat
  BY DEF Enclosed, AnyText
<1>2. (\A i \in 1..(n - 1) : D(i) >= 1) /\ D(n) = 0
  BY DEF Enclosed
<1>3. \A i \in 1..n : D(i) \in Int
  BY DepthIsInt
<1> HIDE DEF D, n
<1>4. ASSUME NEW i \in 1..n PROVE D(i) >= 0
  BY <1>1, <1>2, <1>3
<1> QED
  BY <1>1, <1>2, <1>4 DEF Quiet, PairsUp, D, n

(***************************************************************************)
(* The server's texts.                                                     *)
(***************************************************************************)
\* Words are no punctuation.
LEMMA WordsAreWords == \A w \in Words : w \notin Punctuation
BY Zenon DEF Words, Quote, Escape, OpenBrace, CloseBrace, Comma, Punctuation

\* No two punctuation marks are the same.
LEMMA MarksDiffer ==
  /\ Quote # Escape /\ Quote # OpenBrace /\ Quote # CloseBrace /\ Quote # "[" /\ Quote # "]"
  /\ Quote # ":" /\ Quote # Comma
  /\ Escape # OpenBrace /\ Escape # CloseBrace /\ Escape # "[" /\ Escape # "]" /\ Escape # ":"
  /\ Escape # Comma
  /\ OpenBrace # CloseBrace /\ OpenBrace # "[" /\ OpenBrace # "]" /\ OpenBrace # ":"
  /\ OpenBrace # Comma
  /\ CloseBrace # "[" /\ CloseBrace # "]" /\ CloseBrace # ":" /\ CloseBrace # Comma
  /\ Comma # "[" /\ Comma # "]" /\ Comma # ":"
  /\ "[" # "]" /\ "[" # ":" /\ "]" # ":"
BY Zenon DEF Quote, Escape, OpenBrace, CloseBrace, Comma

\* Marks and words are atoms.
LEMMA MarksAreAtoms ==
  /\ {Quote, Escape, OpenBrace, CloseBrace, "[", "]", ":", Comma} \subseteq Atoms
  /\ Words \subseteq Atoms
  /\ STRING \subseteq Atoms
BY DEF Atoms, Punctuation

\* The brackets extract_line_at() counts, and those extract_json_object_field() does.
Kinds(opens, closes) ==
    \/ opens = Opens /\ closes = Closes
    \/ opens = {OpenBrace} /\ closes = {CloseBrace}

\* Braces are brackets of each kind, quotes, commas, colons and words of none.
LEMMA KindsOfMarks ==
  ASSUME NEW opens, NEW closes, Kinds(opens, closes)
  PROVE  /\ OpenBrace \in opens \ closes /\ CloseBrace \in closes \ opens
         /\ \A x \in {Quote, Comma, ":"} \cup Words : x \notin opens /\ x \notin closes
<1>1. \A w \in Words : w \notin {OpenBrace, CloseBrace, "[", "]"}
  BY WordsAreWords DEF Punctuation
<1> QED
  BY <1>1, MarksDiffer DEF Kinds, Opens, Closes

\* A string in quotes is as quiet as what it says.
LEMMA QuietStr ==
  ASSUME NEW content, NEW opens, NEW closes, Kinds(opens, closes), Quiet(content, opens, closes)
  PROVE  Quiet(Str(content), opens, closes)
<1>1. Quiet(<<Quote>>, opens, closes)
  BY KindsOfMarks, MarksAreAtoms, QuietAtom
<1>2. Quiet(<<Quote>> \o content, opens, closes)
  BY <1>1, QuietConcat
<1>3. Quiet((<<Quote>> \o content) \o <<Quote>>, opens, closes)
  BY <1>1, <1>2, QuietConcat
<1> QED
  BY <1>3, Zenon DEF Str

\* A word is quiet.
LEMMA QuietWord ==
  ASSUME NEW w \in Words, NEW opens, NEW closes, Kinds(opens, closes)
  PROVE  Quiet(<<w>>, opens, closes)
BY KindsOfMarks, MarksAreAtoms, QuietAtom

\* A field is as quiet as its value.
LEMMA QuietField ==
  ASSUME NEW name \in Words, NEW value, NEW opens, NEW closes, Kinds(opens, closes),
         Quiet(value, opens, closes)
  PROVE  Quiet(Field(name, value), opens, closes)
<1>1. Quiet(Str(<<name>>), opens, closes)
  BY QuietWord, QuietStr
<1>2. Quiet(<<":">>, opens, closes)
  BY KindsOfMarks, MarksAreAtoms, QuietAtom
<1>3. Quiet(Str(<<name>>) \o <<":">>, opens, closes)
  BY <1>1, <1>2, QuietConcat
<1>4. Quiet((Str(<<name>>) \o <<":">>) \o value, opens, closes)
  BY <1>3, QuietConcat
<1> QED
  BY <1>4, Zenon DEF Field

\* An object encloses its fields.
LEMMA ObjectEncloses ==
  ASSUME NEW fields, NEW opens, NEW closes, Kinds(opens, closes), Quiet(fields, opens, closes)
  PROVE  Enclosed(Object(fields), opens, closes)
<1>1. OpenBrace \in Atoms /\ CloseBrace \in Atoms
  BY MarksAreAtoms
<1>2. OpenBrace \in opens \ closes /\ CloseBrace \in closes \ opens
  BY KindsOfMarks
<1>3. Enclosed(<<OpenBrace>> \o fields \o <<CloseBrace>>, opens, closes)
  BY <1>1, <1>2, EnclosedIs
<1> QED
  BY <1>3, Zenon DEF Object

\* An array encloses its items.
LEMMA BracketsEnclose ==
  ASSUME NEW s, Quiet(s, Opens, Closes)
  PROVE  Enclosed(<<"[">> \o s \o <<"]">>, Opens, Closes)
<1>1. "[" \in Atoms /\ "]" \in Atoms
  BY MarksAreAtoms
<1>2. "[" \in Opens /\ "[" \notin Closes /\ "]" \in Closes /\ "]" \notin Opens
  BY MarksDiffer DEF Opens, Closes
<1> QED
  BY <1>1, <1>2, EnclosedIs

\* A part of a part is a part.
LEMMA PartOfPart ==
  ASSUME NEW a \in AnyText, NEW b \in AnyText, NEW c \in AnyText, NEW p, NEW q,
         Part(a, p, b), Part(b, q, c)
  PROVE  Part(a, p + q, c)
<1>1. /\ p \in Nat /\ q \in Nat /\ Len(a) \in Nat /\ Len(b) \in Nat /\ Len(c) \in Nat
      /\ p + Len(b) <= Len(a) /\ q + Len(c) <= Len(b)
  BY DEF Part, AnyText
<1>2. ASSUME NEW k \in 1..Len(c) PROVE a[(p + q) + k] = c[k]
  <2>1. q + k \in 1..Len(b) /\ p + (q + k) = (p + q) + k
    BY <1>1
  <2>2. a[p + (q + k)] = b[q + k] /\ b[q + k] = c[k]
    BY <2>1 DEF Part
  <2> QED
    BY <2>1, <2>2
<1>3. p + q \in Nat /\ (p + q) + Len(c) <= Len(a)
  BY <1>1
<1> QED
  BY <1>2, <1>3 DEF Part

\* Items one behind the other, commas between them.
IsListing(f, items) ==
    /\ f \in [0..Len(items) -> AnyText]
    /\ f[0] = <<>>
    /\ Len(items) >= 1 => f[1] = items[1]
    /\ \A i \in 2..Len(items) : f[i] = (f[i - 1] \o <<Comma>>) \o items[i]

\* One step of Listed().
ListingStep(items) ==
    [pair \in AnyText \X Nat |->
        IF pair[2] \notin 1..Len(items) THEN pair[1]
        ELSE IF pair[2] = 1 THEN items[1] ELSE (pair[1] \o <<Comma>>) \o items[pair[2]]]

IsListingStep(advance, items) ==
    /\ advance \in [AnyText \X Nat -> AnyText]
    /\ \A s \in AnyText, i \in 1..Len(items) :
           advance[<<s, i>>] = IF i = 1 THEN items[1] ELSE (s \o <<Comma>>) \o items[i]

\* The step stays among the texts.
LEMMA ListingStepIs ==
  ASSUME NEW items \in Seq(AnyText)
  PROVE  IsListingStep(ListingStep(items), items)
<1> DEFINE n == Len(items)
<1>1. n \in Nat /\ \A i \in 1..n : items[i] \in AnyText
  OBVIOUS
<1>2. ASSUME NEW s \in AnyText, NEW i \in 1..n PROVE (s \o <<Comma>>) \o items[i] \in AnyText
  <2>1. <<Comma>> \in AnyText
    BY MarksAreAtoms DEF AnyText
  <2>2. s \o <<Comma>> \in AnyText
    BY <2>1, ConcatHasParts
  <2> QED
    BY <1>1, <2>2, ConcatHasParts
<1> HIDE DEF n
<1>3. ListingStep(items) = [pair \in AnyText \X Nat |->
        IF pair[2] \notin 1..n THEN pair[1]
        ELSE IF pair[2] = 1 THEN items[1] ELSE (pair[1] \o <<Comma>>) \o items[pair[2]]]
  BY DEF ListingStep, n
<1>4. ASSUME NEW s \in AnyText, NEW i \in Nat
      PROVE  (IF i \notin 1..n THEN s
              ELSE IF i = 1 THEN items[1] ELSE (s \o <<Comma>>) \o items[i]) \in AnyText
  BY <1>1, <1>2
<1>5. ListingStep(items) \in [AnyText \X Nat -> AnyText]
  BY <1>3, <1>4
<1>6. \A s \in AnyText, i \in 1..n :
          ListingStep(items)[<<s, i>>] = IF i = 1 THEN items[1] ELSE (s \o <<Comma>>) \o items[i]
  <2>1. \A i \in 1..n : i \in Nat
    BY <1>1
  <2> QED
    BY <1>3, <2>1
<1> QED
  BY <1>5, <1>6 DEF IsListingStep, n

\* Listed() is where the listing of all items ends.
LEMMA ListedIs ==
  ASSUME NEW items \in Seq(AnyText)
  PROVE  \E f : IsListing(f, items) /\ Listed(items) = f[Len(items)]
<1> DEFINE n == Len(items)
           advance == ListingStep(items)
           IsUpTo(f) == f = [i \in 0..n |-> CASE i = 0 -> <<>>
                                              [] i = 1 -> items[1]
                                              [] OTHER -> f[i - 1] \o <<Comma>> \o items[i]]
           upTo == CHOOSE f : IsUpTo(f)
<1>1. n \in Nat
  OBVIOUS
<1>2. <<>> \in AnyText
  BY DEF AnyText
<1>3. /\ advance \in [AnyText \X Nat -> AnyText]
      /\ \A s \in AnyText, i \in 1..n :
             advance[<<s, i>>] = IF i = 1 THEN items[1] ELSE (s \o <<Comma>>) \o items[i]
  <2>1. IsListingStep(ListingStep(items), items)
    BY ListingStepIs, Zenon
  <2> QED
    BY <2>1 DEF IsListingStep
<1>4. Listed(items) = upTo[n]
  BY DEF Listed
<1> HIDE DEF n, advance
<1>5. \E f : IsUpTo(f)
  <2>1. PICK f : Runs(f, AnyText, <<>>, advance, n)
    BY <1>1, <1>2, <1>3, StepByStep, Zenon
  <2>2. ASSUME NEW i \in 0..n
        PROVE  f[i] = CASE i = 0 -> <<>>
                        [] i = 1 -> items[1]
                        [] OTHER -> f[i - 1] \o <<Comma>> \o items[i]
    <3>1. CASE i = 0
      <4>1. f[0] = <<>>
        <5>1. 0 \in 0..n
          BY <1>1
        <5> QED
          BY <2>1, <5>1 DEF Runs
      <4> QED
        BY <3>1, <4>1
    <3>2. CASE i # 0
      <4>1. i \in 1..n /\ i - 1 \in 0..n
        BY <1>1, <3>2
      <4>2. f[i] = advance[<<f[i - 1], i>>] /\ f[i - 1] \in AnyText
        BY <2>1, <3>2, <4>1 DEF Runs
      <4>3. f[i] = IF i = 1 THEN items[1] ELSE (f[i - 1] \o <<Comma>>) \o items[i]
        BY <1>3, <4>1, <4>2
      <4> QED
        BY <3>2, <4>3
    <3> QED
      BY <3>1, <3>2
  <2>3. f = [i \in 0..n |-> f[i]]
    BY <2>1 DEF Runs
  <2>4. IsUpTo(f)
    BY <2>2, <2>3
  <2> QED
    BY <2>4
<1>6. IsUpTo(upTo)
  <2> HIDE DEF IsUpTo
  <2> QED
    BY <1>5
<1> HIDE DEF upTo
<1>7. upTo = [i \in 0..n |-> upTo[i]] /\ upTo[0] = <<>>
  BY <1>1, <1>6
<1>8. ASSUME NEW i \in 1..n
      PROVE  upTo[i] = IF i = 1 THEN items[1] ELSE (upTo[i - 1] \o <<Comma>>) \o items[i]
  <2>1. i \in 0..n /\ i # 0
    BY <1>1
  <2> QED
    BY <1>6, <2>1
<1> HIDE DEF IsUpTo
<1>9. \A i \in 1..n : upTo[i - 1] \in AnyText => upTo[i] = advance[<<upTo[i - 1], i>>]
  BY <1>3, <1>8
<1>10. Runs(upTo, AnyText, <<>>, advance, n)
  BY <1>1, <1>2, <1>3, <1>7, <1>9, FollowingRuns, Zenon
<1>11. upTo \in [0..n -> AnyText]
  BY <1>10 DEF Runs
<1>12. n >= 1 => upTo[1] = items[1]
  BY <1>1, <1>8
<1>13. ASSUME NEW i \in 2..n PROVE upTo[i] = (upTo[i - 1] \o <<Comma>>) \o items[i]
  <2>1. i \in 1..n /\ i # 1
    BY <1>1
  <2> QED
    BY <1>8, <2>1
<1>14. IsListing(upTo, items)
  BY <1>7, <1>11, <1>12, <1>13 DEF IsListing, n
<1> QED
  BY <1>4, <1>14 DEF n

\* A comma and an item more.
ListsOneMore(text, before, item) ==
    /\ before \in AnyText /\ item \in AnyText /\ text \in AnyText
    /\ Len(text) = Len(before) + 1 + Len(item)
    /\ Part(text, 0, before)
    /\ text[Len(before) + 1] = Comma
    /\ Part(text, Len(before) + 1, item)

\* They stand behind what was there.
LEMMA OneMoreIs ==
  ASSUME NEW before \in AnyText, NEW item \in AnyText
  PROVE  ListsOneMore((before \o <<Comma>>) \o item, before, item)
<1> DEFINE comma == <<Comma>>
           front == before \o comma
           text == front \o item
           n == Len(before)
           k == Len(item)
<1>1. comma \in AnyText /\ Len(comma) = 1 /\ comma[1] = Comma /\ n \in Nat /\ k \in Nat
  BY MarksAreAtoms DEF AnyText
<1> HIDE DEF comma
<1>2. front \in AnyText /\ Len(front) = n + 1 /\ Part(front, 0, before) /\ Part(front, n, comma)
  BY <1>1, ConcatHasParts
<1> HIDE DEF front
<1>3. text \in AnyText /\ Len(text) = (n + 1) + k /\ Part(text, 0, front) /\ Part(text, n + 1, item)
  BY <1>1, <1>2, ConcatHasParts
<1> HIDE DEF text
<1>4. Part(text, 0 + 0, before)
  BY <1>2, <1>3, PartOfPart
<1>5. text[n + 1] = Comma
  <2>1. Part(text, 0 + n, comma)
    BY <1>1, <1>2, <1>3, PartOfPart
  <2> HIDE DEF n
  <2>2. 0 + n = n
    BY <1>1
  <2> QED
    BY <1>1, <2>1, <2>2 DEF Part
<1>6. Len(text) = n + 1 + k /\ 0 + 0 = 0
  BY <1>1, <1>3
<1>7. ListsOneMore(text, before, item)
  BY <1>3, <1>4, <1>5, <1>6 DEF ListsOneMore
<1> QED
  BY <1>7 DEF text, front, comma

\* What has been listed stays in front.
LEMMA ListingPrefix ==
  ASSUME NEW items \in Seq(AnyText), NEW f, IsListing(f, items), NEW i \in 1..Len(items)
  PROVE  Part(f[Len(items)], 0, f[i])
<1> DEFINE n == Len(items)
           T == {d \in Nat : i + d <= n => Part(f[i + d], 0, f[i])}
<1>1. n \in Nat /\ i \in Nat /\ 1 <= i /\ i <= n
  OBVIOUS
<1>2. \A j \in 0..n : f[j] \in AnyText
  BY DEF IsListing
<1>3. 0 \in T
  <2>1. i \in 0..n /\ i + 0 = i
    BY <1>1
  <2> QED
    BY <1>2, <2>1, WholeIsPart
<1>4. ASSUME NEW d \in Nat, d \in T
      PROVE  d + 1 \in T
  <2> SUFFICES ASSUME i + (d + 1) <= n
               PROVE  Part(f[i + (d + 1)], 0, f[i])
    OBVIOUS
  <2> DEFINE j == i + (d + 1)
  <2>1. j \in 2..n /\ j \in 0..n /\ j - 1 \in 0..n /\ j - 1 = i + d /\ i + d <= n /\ i \in 0..n /\ j \in 1..n
    BY <1>1
  <2>2. f[j] = (f[j - 1] \o <<Comma>>) \o items[j]
    BY <2>1 DEF IsListing
  <2>3. f[j - 1] \in AnyText /\ items[j] \in AnyText /\ f[j] \in AnyText /\ f[i] \in AnyText
    BY <1>2, <2>1
  <2>4. ListsOneMore(f[j], f[j - 1], items[j])
    BY <2>2, <2>3, OneMoreIs
  <2>5. Part(f[j], 0, f[j - 1])
    BY <2>4 DEF ListsOneMore
  <2>6. Part(f[j - 1], 0, f[i])
    BY <1>4, <2>1
  <2> HIDE DEF j
  <2>7. Part(f[j], 0 + 0, f[i])
    BY <2>3, <2>5, <2>6, PartOfPart
  <2>8. 0 + 0 = 0
    OBVIOUS
  <2> QED
    BY <2>7, <2>8 DEF j
<1> HIDE DEF T
<1>5. n - i \in T
  <2>1. n - i \in Nat
    BY <1>1
  <2> QED
    BY <1>3, <1>4, <2>1, NumbersByInduction
<1>6. i + (n - i) = n
  BY <1>1
<1> QED
  BY <1>5, <1>6 DEF T

\* Where the items of a list stand: f[i] is the list up to the i-th.
LaidOut(text, f, items) ==
    /\ text \in AnyText /\ text = f[Len(items)]
    /\ \A i \in 0..Len(items) : f[i] \in AnyText /\ Len(f[i]) <= Len(text)
    /\ f[0] = <<>>
    /\ Len(items) >= 1 => Part(text, 0, items[1]) /\ Len(f[1]) = Len(items[1])
    /\ \A i \in 2..Len(items) :
           /\ Len(f[i]) = Len(f[i - 1]) + 1 + Len(items[i])
           /\ text[Len(f[i - 1]) + 1] = Comma
           /\ Part(text, Len(f[i - 1]) + 1, items[i])

\* The listing of all items shows where each stands.
LEMMA ListedIsLaidOut ==
  ASSUME NEW items \in Seq(AnyText)
  PROVE  \E f : IsListing(f, items) /\ LaidOut(Listed(items), f, items)
<1> DEFINE n == Len(items)
<1>1. PICK f : IsListing(f, items) /\ Listed(items) = f[n]
  BY ListedIs
<1> DEFINE text == f[n]
<1>2. n \in Nat /\ \A i \in 1..n : items[i] \in AnyText
  OBVIOUS
<1>3. \A i \in 0..n : f[i] \in AnyText
  BY <1>1 DEF IsListing
<1>4. text \in AnyText
  BY <1>2, <1>3
<1>5. \A i \in 1..n : Part(text, 0, f[i])
  BY <1>1, ListingPrefix
<1>6. f[0] = <<>>
  BY <1>1 DEF IsListing
<1>7. n >= 1 => f[1] = items[1]
  BY <1>1 DEF IsListing
<1> HIDE DEF n, text
<1>8. ASSUME NEW i \in 0..n PROVE Len(f[i]) <= Len(text)
  <2>1. CASE i = 0
    BY <1>4, <1>6, <2>1 DEF AnyText
  <2>2. CASE i # 0
    <3>1. i \in 1..n
      BY <1>2, <2>2
    <3>2. Part(text, 0, f[i]) /\ f[i] \in AnyText
      BY <1>3, <1>5, <3>1
    <3> QED
      BY <3>2 DEF Part, AnyText
  <2> QED
    BY <2>1, <2>2
<1>9. n >= 1 => Part(text, 0, items[1]) /\ Len(f[1]) = Len(items[1])
  <2>1. n >= 1 => 1 \in 1..n
    BY <1>2
  <2> QED
    BY <1>5, <1>7, <2>1
<1>10. ASSUME NEW i \in 2..n
       PROVE  /\ Len(f[i]) = Len(f[i - 1]) + 1 + Len(items[i])
              /\ text[Len(f[i - 1]) + 1] = Comma
              /\ Part(text, Len(f[i - 1]) + 1, items[i])
  <2>1. i \in 1..n /\ i \in 0..n /\ i - 1 \in 0..n
    BY <1>2
  <2>2. f[i] = (f[i - 1] \o <<Comma>>) \o items[i]
    BY <1>1 DEF IsListing, n
  <2>3. f[i] \in AnyText /\ f[i - 1] \in AnyText /\ items[i] \in AnyText
    BY <1>2, <1>3, <2>1
  <2>4. ListsOneMore(f[i], f[i - 1], items[i])
    BY <2>2, <2>3, OneMoreIs
  <2> DEFINE m == Len(f[i - 1])
  <2>5. /\ Len(f[i]) = m + 1 + Len(items[i])
        /\ f[i][m + 1] = Comma
        /\ Part(f[i], m + 1, items[i])
        /\ m \in Nat
    BY <2>3, <2>4 DEF ListsOneMore, AnyText
  <2>6. Part(text, 0, f[i])
    BY <1>5, <2>1
  <2> HIDE DEF m
  <2>7. Part(text, 0 + (m + 1), items[i]) /\ 0 + (m + 1) = m + 1
    <3>1. Part(f[i], m + 1, items[i])
      BY <2>5
    <3>2. Part(text, 0 + (m + 1), items[i])
      BY <1>4, <2>3, <2>6, <3>1, PartOfPart
    <3> QED
      BY <2>5, <3>2
  <2>8. text[m + 1] = Comma
    <3>1. m + 1 \in 1..Len(f[i]) /\ 0 + (m + 1) = m + 1
      <4> DEFINE k == Len(items[i])
                 l == Len(f[i])
      <4>1. k \in Nat /\ l = m + 1 + k /\ m \in Nat
        BY <2>3, <2>5 DEF AnyText
      <4> HIDE DEF k, l
      <4>2. m + 1 \in 1..l /\ 0 + (m + 1) = m + 1
        BY <4>1
      <4> QED
        BY <4>2 DEF l
    <3>2. text[0 + (m + 1)] = f[i][m + 1]
      BY <2>6, <3>1 DEF Part
    <3> QED
      BY <2>5, <3>1, <3>2
  <2> QED
    BY <2>5, <2>7, <2>8 DEF m
<1>11. LaidOut(text, f, items)
  BY <1>3, <1>4, <1>6, <1>8, <1>9, <1>10 DEF LaidOut, text, n
<1> QED
  BY <1>1, <1>11 DEF text

\* A list of quiet items is quiet.
LEMMA QuietListed ==
  ASSUME NEW items \in Seq(AnyText), NEW opens, NEW closes, Kinds(opens, closes),
         \A i \in 1..Len(items) : Quiet(items[i], opens, closes)
  PROVE  Quiet(Listed(items), opens, closes)
<1> DEFINE n == Len(items)
<1>1. n \in Nat
  OBVIOUS
<1>2. PICK f : IsListing(f, items) /\ Listed(items) = f[n]
  BY ListedIs
<1>3. Quiet(<<Comma>>, opens, closes)
  BY KindsOfMarks, MarksAreAtoms, QuietAtom
<1> DEFINE T == {i \in Nat : i <= n => Quiet(f[i], opens, closes)}
<1>4. 0 \in T
  <2>1. f[0] = <<>>
    BY <1>2 DEF IsListing
  <2> QED
    BY <2>1, QuietNothing
<1>5. ASSUME NEW i \in Nat, i \in T
      PROVE  i + 1 \in T
  <2> SUFFICES ASSUME i + 1 <= n
               PROVE  Quiet(f[i + 1], opens, closes)
    OBVIOUS
  <2>1. i + 1 \in 1..n
    BY <1>1
  <2>2. CASE i = 0
    <3>1. f[1] = items[1]
      BY <1>2, <2>1, <2>2 DEF IsListing
    <3> QED
      BY <2>1, <2>2, <3>1
  <2>3. CASE i # 0
    <3>1. i + 1 \in 2..n /\ (i + 1) - 1 = i /\ i <= n
      BY <1>1, <2>3
    <3>2. f[i + 1] = (f[i] \o <<Comma>>) \o items[i + 1]
      BY <1>2, <3>1 DEF IsListing
    <3>3. Quiet(f[i], opens, closes) /\ Quiet(items[i + 1], opens, closes)
      BY <1>5, <2>1, <3>1
    <3>4. Quiet(f[i] \o <<Comma>>, opens, closes)
      BY <1>3, <3>3, QuietConcat
    <3>5. Quiet((f[i] \o <<Comma>>) \o items[i + 1], opens, closes)
      BY <3>3, <3>4, QuietConcat
    <3> QED
      BY <3>2, <3>5
  <2> QED
    BY <2>2, <2>3
<1> HIDE DEF T
<1>6. n \in T
  BY <1>1, <1>4, <1>5, NumbersByInduction
<1> QED
  BY <1>1, <1>2, <1>6 DEF T

(***************************************************************************)
(* Searching.                                                              *)
(***************************************************************************)
\* The least of a set of positions.
LEMMA FirstIs ==
  ASSUME NEW S \in SUBSET Int, NEW m \in S, \A j \in S : m <= j
  PROVE  First(S) = m
<1>1. S # {}
  OBVIOUS
<1> DEFINE least == CHOOSE i \in S : \A j \in S : i <= j
<1>2. least \in S /\ \A j \in S : least <= j
  OBVIOUS
<1>3. First(S) = least
  BY <1>1 DEF First
<1> HIDE DEF least
<1>4. least <= m /\ m <= least
  BY <1>2
<1>5. least \in Int /\ m \in Int
  BY <1>2
<1> QED
  BY <1>3, <1>4, <1>5

\* Nothing is found among nothing.
LEMMA FirstOfNothing == First({}) = 0
BY DEF First

\* The atom at a position, cut out.
CutsAtom(text, i) == SubSeq(text, i, i) = <<text[i]>>

\* A cut of one position is the atom there.
LEMMA AtomIsCut ==
  ASSUME NEW text \in AnyText, NEW i \in 1..Len(text)
  PROVE  CutsAtom(text, i)
<1>1. Len(text) \in Nat /\ text[i] \in Atoms /\ <<text[i]>> \in AnyText
  BY DEF AnyText
<1>2. Part(text, i - 1, <<text[i]>>)
  <2>1. i - 1 \in Nat /\ (i - 1) + 1 = i /\ i <= Len(text)
    BY <1>1
  <2> QED
    BY <2>1 DEF Part
<1>3. i - 1 \in Nat
  BY <1>1
<1>4. SubSeq(text, (i - 1) + 1, (i - 1) + Len(<<text[i]>>)) = <<text[i]>>
  BY <1>1, <1>2, <1>3, PartIsSubSeq
<1>5. (i - 1) + 1 = i /\ Len(<<text[i]>>) = 1
  BY <1>1
<1> QED
  BY <1>4, <1>5 DEF CutsAtom

\* The first x from a position on.
FoundAt(text, x, from, p) ==
    /\ from \in 1..p /\ p \in 1..Len(text)
    /\ text[p] = x
    /\ \A i \in from..(p - 1) : text[i] # x

\* indexOf() of one character.
LEMMA AtomFound ==
  ASSUME NEW text \in AnyText, NEW x \in Atoms, NEW from, NEW p, FoundAt(text, x, from, p)
  PROVE  IndexOf(text, <<x>>, from) = p
<1> DEFINE n == Len(text)
           S == {i \in from..n : text[i] = x}
           Found == {i \in from..(n - Len(<<x>>) + 1) : SubSeq(text, i, i + Len(<<x>>) - 1) = <<x>>}
<1>1. n \in Nat /\ from \in Nat /\ 1 <= from /\ p \in from..n
  BY DEF FoundAt, AnyText
<1>2. n - Len(<<x>>) + 1 = n /\ \A i \in Int : i + Len(<<x>>) - 1 = i
  BY <1>1
<1>3. ASSUME NEW i \in from..n
      PROVE  SubSeq(text, i, i + Len(<<x>>) - 1) = <<x>> <=> text[i] = x
  <2>1. i \in 1..n
    BY <1>1
  <2>2. SubSeq(text, i, i) = <<text[i]>>
    BY <2>1, AtomIsCut DEF CutsAtom
  <2>3. i + Len(<<x>>) - 1 = i
    BY <1>2
  <2> QED
    BY <2>2, <2>3
<1>4. Found = S
  BY <1>2, <1>3
<1>5. S \in SUBSET Int /\ p \in S /\ \A j \in S : p <= j
  <2>1. p \in S /\ S \in SUBSET Int
    BY <1>1 DEF FoundAt
  <2>2. ASSUME NEW j \in S PROVE p <= j
    <3>1. ~(j \in from..(p - 1))
      BY DEF FoundAt
    <3> QED
      BY <1>1, <3>1
  <2> QED
    BY <2>1, <2>2
<1>6. IndexOf(text, <<x>>, from) = First(Found)
  BY DEF IndexOf
<1> HIDE DEF Found, S
<1>7. First(S) = p
  BY <1>5, FirstIs
<1> QED
  BY <1>4, <1>6, <1>7

\* A word in quotes.
KeyAt(text, i, w) ==
    /\ i \in 1..(Len(text) - 2)
    /\ text[i] = Quote /\ text[i + 1] = w /\ text[i + 2] = Quote

IsQuoted(s, w) == s \in AnyText /\ Len(s) = 3 /\ s[1] = Quote /\ s[2] = w /\ s[3] = Quote

\* Its three atoms.
LEMMA WordInQuotes ==
  ASSUME NEW w \in Atoms
  PROVE  IsQuoted(Str(<<w>>), w)
<1>1. Quote \in Atoms
  BY MarksAreAtoms
<1> DEFINE quote == <<Quote>>
           word == <<w>>
           front == quote \o word
           key == front \o quote
<1>2. /\ quote \in AnyText /\ Len(quote) = 1 /\ quote[1] = Quote
      /\ word \in AnyText /\ Len(word) = 1 /\ word[1] = w
  BY <1>1 DEF AnyText
<1>3. Str(<<w>>) = key
  BY DEF Str
<1> HIDE DEF quote, word
<1>4. front \in AnyText /\ Len(front) = 1 + 1 /\ Part(front, 0, quote) /\ Part(front, 1, word)
  BY <1>2, ConcatHasParts
<1>5. front[1] = Quote /\ front[2] = w
  BY <1>2, <1>4 DEF Part
<1> HIDE DEF front
<1>6. key \in AnyText /\ Len(key) = 2 + 1 /\ Part(key, 0, front) /\ Part(key, 2, quote)
  <2>1. /\ key \in AnyText /\ Len(key) = Len(front) + Len(quote)
        /\ Part(key, 0, front) /\ Part(key, Len(front), quote)
    BY <1>2, <1>4, ConcatHasParts
  <2>2. Len(front) = 2
    BY <1>4
  <2> QED
    BY <1>2, <2>1, <2>2
<1>7. key[1] = front[1] /\ key[2] = front[2] /\ key[3] = quote[1]
  BY <1>2, <1>4, <1>6 DEF Part
<1> HIDE DEF key
<1>8. IsQuoted(key, w)
  BY <1>2, <1>5, <1>6, <1>7 DEF IsQuoted
<1> QED
  BY <1>3, <1>8

\* indexOf() finds it where its three atoms are.
LEMMA KeyIsCut ==
  ASSUME NEW text \in AnyText, NEW w \in Atoms, NEW i \in 1..(Len(text) - 2)
  PROVE  SubSeq(text, i, i + Len(Str(<<w>>)) - 1) = Str(<<w>>) <=> KeyAt(text, i, w)
<1> DEFINE key == Str(<<w>>)
           cut == SubSeq(text, i, i + 2)
<1>1. IsQuoted(key, w)
  BY WordInQuotes
<1>2. Len(text) \in Nat /\ i \in Int
  BY DEF AnyText
<1>3. /\ cut \in Seq(Atoms)
      /\ Len(cut) = IF i <= i + 2 THEN (i + 2) - i + 1 ELSE 0
      /\ \A j \in 1..((i + 2) - i + 1) : cut[j] = text[i + j - 1]
  <2>1. \A j \in i..(i + 2) : text[j] \in Atoms
    BY <1>2 DEF AnyText
  <2>2. i + 2 \in Int
    BY <1>2
  <2> QED
    BY <1>2, <2>1, <2>2, SubSeqProperties
<1> HIDE DEF cut, key
<1>4. cut \in AnyText /\ Len(cut) = 3 /\ cut[1] = text[i] /\ cut[2] = text[i + 1] /\ cut[3] = text[i + 2]
  <2>1. (i + 2) - i + 1 = 3 /\ i <= i + 2 /\ i + 1 - 1 = i /\ i + 2 - 1 = i + 1 /\ i + 3 - 1 = i + 2
    BY <1>2
  <2>2. 1 \in 1..3 /\ 2 \in 1..3 /\ 3 \in 1..3
    OBVIOUS
  <2> QED
    BY <1>3, <2>1, <2>2 DEF AnyText
<1>5. cut = key <=> text[i] = Quote /\ text[i + 1] = w /\ text[i + 2] = Quote
  <2>1. cut = key => text[i] = Quote /\ text[i + 1] = w /\ text[i + 2] = Quote
    BY <1>1, <1>4 DEF IsQuoted
  <2>2. ASSUME text[i] = Quote, text[i + 1] = w, text[i + 2] = Quote
        PROVE  cut = key
    <3>1. Len(cut) = Len(key) /\ cut \in Seq(Atoms) /\ key \in Seq(Atoms)
      BY <1>1, <1>4 DEF IsQuoted, AnyText
    <3>2. ASSUME NEW j \in 1..Len(cut) PROVE cut[j] = key[j]
      <4>1. j = 1 \/ j = 2 \/ j = 3
        BY <1>4
      <4> QED
        BY <1>1, <1>4, <2>2, <4>1 DEF IsQuoted
    <3> QED
      BY <3>1, <3>2, SeqEqual
  <2> QED
    BY <2>1, <2>2
<1>6. i + Len(key) - 1 = i + 2
  BY <1>1, <1>2 DEF IsQuoted
<1>7. SubSeq(text, i, i + Len(key) - 1) = cut
  BY <1>6 DEF cut
<1> QED
  BY <1>5, <1>7 DEF KeyAt, key

\* indexOf() of a key.
KeyFoundAt(text, w, p) == KeyAt(text, p, w) /\ \A i \in 1..(p - 1) : ~KeyAt(text, i, w)
NoKey(text, w) == \A i \in 1..Len(text) : ~KeyAt(text, i, w)

\* The set of its places.
LEMMA KeyPlaces ==
  ASSUME NEW text \in AnyText, NEW w \in Atoms
  PROVE  IndexOf(text, Str(<<w>>), 1) = First({i \in 1..(Len(text) - 2) : KeyAt(text, i, w)})
<1> DEFINE key == Str(<<w>>)
           n == Len(text)
           Found == {i \in 1..(n - Len(key) + 1) : SubSeq(text, i, i + Len(key) - 1) = key}
           S == {i \in 1..(n - 2) : KeyAt(text, i, w)}
<1>1. Len(key) = 3 /\ n \in Nat
  BY WordInQuotes DEF IsQuoted, AnyText
<1>2. \A i \in 1..(n - 2) : SubSeq(text, i, i + Len(key) - 1) = key <=> KeyAt(text, i, w)
  BY KeyIsCut
<1>3. IndexOf(text, key, 1) = First(Found)
  BY DEF IndexOf
<1> HIDE DEF key
<1>4. n - Len(key) + 1 = n - 2
  BY <1>1
<1> HIDE DEF n
<1>5. Found = S
  BY <1>2, <1>4
<1> HIDE DEF Found, S
<1>6. IndexOf(text, key, 1) = First(S)
  BY <1>3, <1>5
<1> QED
  BY <1>6 DEF key, S, n

\* The first of them.
LEMMA KeyFound ==
  ASSUME NEW text \in AnyText, NEW w \in Atoms, NEW p, KeyFoundAt(text, w, p)
  PROVE  IndexOf(text, Str(<<w>>), 1) = p
<1> DEFINE S == {i \in 1..(Len(text) - 2) : KeyAt(text, i, w)}
<1>1. S \in SUBSET Int /\ p \in S /\ p \in Int
  BY DEF KeyFoundAt, KeyAt
<1>2. \A j \in S : p <= j
  <2>1. SUFFICES ASSUME NEW j \in S, ~(p <= j) PROVE FALSE
    OBVIOUS
  <2>2. j \in 1..(p - 1) /\ KeyAt(text, j, w)
    BY <1>1, <2>1
  <2> QED
    BY <2>2 DEF KeyFoundAt
<1>3. First(S) = p
  <2> HIDE DEF S
  <2> QED
    BY <1>1, <1>2, FirstIs
<1> QED
  BY <1>3, KeyPlaces

\* None of them.
LEMMA KeyMissing ==
  ASSUME NEW text \in AnyText, NEW w \in Atoms, NoKey(text, w)
  PROVE  IndexOf(text, Str(<<w>>), 1) = 0
<1>1. {i \in 1..(Len(text) - 2) : KeyAt(text, i, w)} = {}
  <2>1. \A i \in 1..(Len(text) - 2) : i \in 1..Len(text)
    BY DEF AnyText
  <2> QED
    BY <2>1 DEF NoKey
<1> QED
  BY <1>1, KeyPlaces, FirstOfNothing

(***************************************************************************)
(* Fields.                                                                 *)
(***************************************************************************)
\* Numbers have a least one.
LEMMA LeastExists ==
  ASSUME NEW S \in SUBSET Nat, S # {}
  PROVE  \E m \in S : \A j \in S : m <= j
<1>1. PICK m \in S : \A j \in S : ~(<<j, m>> \in OpToRel(<, Nat))
  BY NatLessThanWellFounded, WFMin
<1>2. ASSUME NEW j \in S PROVE m <= j
  <2>1. j \in Nat /\ m \in Nat
    OBVIOUS
  <2>2. ~(j < m)
    BY <1>1, <2>1 DEF OpToRel
  <2> QED
    BY <2>1, <2>2
<1> QED
  BY <1>2

\* The key is looked for from the start; what is found may be a string of that
\* name, which does not matter when the next colon is the one of the field.
ValueAt(text, w, q, p, v) ==
    /\ KeyAt(text, p, w) /\ q \in 1..p
    /\ \A i \in 1..(q - 1) : ~KeyAt(text, i, w)
    /\ \A i \in (q + 3)..(v - 2) : text[i] # ":"
    /\ v \in (p + 4)..Len(text)
    /\ text[v - 1] = ":"

\* Where the value of a field is.
LEMMA ValueFound ==
  ASSUME NEW text \in AnyText, NEW w \in Atoms, NEW q, NEW p, NEW v, ValueAt(text, w, q, p, v)
  PROVE  ValueOf(text, w) = v
<1> DEFINE S == {i \in 1..Len(text) : KeyAt(text, i, w)}
<1>1. Len(text) \in Nat /\ p \in 1..(Len(text) - 2) /\ q \in 1..p /\ v \in (p + 4)..Len(text)
  BY DEF ValueAt, KeyAt, AnyText
<1>2. S \in SUBSET Nat /\ p \in S
  BY <1>1 DEF ValueAt
<1>3. PICK first \in S : \A j \in S : first <= j
  <2> HIDE DEF S
  <2> QED
    BY <1>2, LeastExists
<1>4. first \in 1..Len(text) /\ KeyAt(text, first, w) /\ first <= p /\ first >= q
  <2>1. first <= p /\ first \in 1..Len(text) /\ KeyAt(text, first, w)
    BY <1>2, <1>3
  <2>2. ~(first \in 1..(q - 1))
    BY <2>1 DEF ValueAt
  <2> QED
    BY <1>1, <2>1, <2>2
<1>5. KeyFoundAt(text, w, first)
  <2>1. ASSUME NEW i \in 1..(first - 1), KeyAt(text, i, w) PROVE FALSE
    <3>1. i \in S
      BY <1>1, <1>4, <2>1
    <3>2. first <= i
      BY <1>3, <3>1
    <3> QED
      BY <1>4, <3>2
  <2> QED
    BY <1>4, <2>1 DEF KeyFoundAt
<1>6. IndexOf(text, Str(<<w>>), 1) = first
  BY <1>5, KeyFound
<1>7. FoundAt(text, ":", first + 3, v - 1)
  <2>1. first + 3 \in 1..(v - 1) /\ v - 1 \in 1..Len(text)
    BY <1>1, <1>4
  <2>2. \A i \in (first + 3)..((v - 1) - 1) : i \in (q + 3)..(v - 2)
    BY <1>1, <1>4
  <2> QED
    BY <2>1, <2>2 DEF FoundAt, ValueAt
<1>8. IndexOf(text, <<":">>, first + 3) = v - 1
  <2>1. ":" \in Atoms
    BY MarksAreAtoms
  <2> QED
    BY <1>7, <2>1, AtomFound
<1> DEFINE key == IndexOf(text, Str(<<w>>), 1)
           colon == IF key = 0 THEN 0 ELSE IndexOf(text, <<":">>, key + 3)
<1>9. ValueOf(text, w) = IF colon = 0 \/ colon = Len(text) THEN 0 ELSE colon + 1
  BY DEF ValueOf
<1>10. key # 0 /\ colon = v - 1
  <2>1. key = first /\ first # 0
    BY <1>4, <1>6
  <2> HIDE DEF key
  <2> QED
    BY <1>8, <2>1
<1> HIDE DEF colon
<1> QED
  BY <1>1, <1>9, <1>10

\* There is none without its key.
LEMMA ValueMissing ==
  ASSUME NEW text \in AnyText, NEW w \in Atoms, NoKey(text, w)
  PROVE  ValueOf(text, w) = 0
<1>1. IndexOf(text, Str(<<w>>), 1) = 0
  BY KeyMissing
<1> QED
  BY <1>1 DEF ValueOf

\* No quotes and no escapes.
IsPlain(c) == \A i \in 1..Len(c) : c[i] \notin {Quote, Escape}

\* A plain string in quotes, its opening quote at p.
QuotedAt(text, p, c) ==
    /\ c \in AnyText /\ IsPlain(c)
    /\ p \in Nat /\ p >= 1 /\ text[p] = Quote
    /\ Part(text, p, c)
    /\ p + Len(c) + 1 <= Len(text) /\ text[p + Len(c) + 1] = Quote

\* indexOf() finds the quote that ends it, and between the two it is cut out.
EndsAtQuote(text, p, c) ==
    /\ IndexOf(text, <<Quote>>, p + 1) = p + Len(c) + 1
    /\ SubSeq(text, p + 1, p + Len(c)) = c

\* A string without quotes in it ends at the next one.
LEMMA QuoteFound ==
  ASSUME NEW text \in AnyText, NEW p, NEW c, QuotedAt(text, p, c)
  PROVE  EndsAtQuote(text, p, c)
<1>1. p \in Nat /\ p >= 1 /\ c \in AnyText /\ Len(c) \in Nat /\ Len(text) \in Nat /\ Part(text, p, c)
  BY DEF QuotedAt, AnyText
<1>2. FoundAt(text, Quote, p + 1, p + Len(c) + 1)
  <2>1. p + 1 \in 1..(p + Len(c) + 1) /\ p + Len(c) + 1 \in 1..Len(text)
    BY <1>1 DEF QuotedAt
  <2>2. ASSUME NEW i \in (p + 1)..((p + Len(c) + 1) - 1) PROVE text[i] # Quote
    <3>1. i - p \in 1..Len(c) /\ p + (i - p) = i
      BY <1>1
    <3>2. text[p + (i - p)] = c[i - p]
      BY <1>1, <3>1 DEF Part
    <3> QED
      BY <3>1, <3>2 DEF QuotedAt, IsPlain
  <2> QED
    BY <2>1, <2>2 DEF FoundAt, QuotedAt
<1>3. Quote \in Atoms
  BY MarksAreAtoms
<1>4. IndexOf(text, <<Quote>>, p + 1) = p + Len(c) + 1
  BY <1>2, <1>3, AtomFound
<1>5. SubSeq(text, p + 1, p + Len(c)) = c
  BY <1>1, PartIsSubSeq
<1> QED
  BY <1>4, <1>5 DEF EndsAtQuote

\* extract_json_string_field() of a string.
LEMMA StringRead ==
  ASSUME NEW text \in AnyText, NEW w, NEW v, NEW c, ValueOf(text, w) = v, QuotedAt(text, v, c)
  PROVE  StringField(text, w) = c
<1> DEFINE value == ValueOf(text, w)
           end == IF value = 0 THEN 0 ELSE IndexOf(text, <<Quote>>, value + 1)
<1>1. /\ v \in Nat /\ v >= 1 /\ text[v] = Quote /\ Len(c) \in Nat
      /\ EndsAtQuote(text, v, c)
  BY QuoteFound DEF QuotedAt, AnyText
<1>2. value # 0 /\ end = v + Len(c) + 1
  BY <1>1 DEF EndsAtQuote
<1>3. end # 0 /\ end - 1 = v + Len(c)
  BY <1>1, <1>2
<1>4. Quote \in Punctuation
  BY DEF Punctuation
<1>5. StringField(text, w) =
          CASE value = 0 -> <<>>
            [] value # 0 /\ text[value] = Quote /\ end # 0 -> SubSeq(text, value + 1, end - 1)
            [] value # 0 /\ text[value] \notin Punctuation -> <<text[value]>>
            [] OTHER -> <<>>
  BY DEF StringField
<1>6. SubSeq(text, v + 1, v + Len(c)) = c /\ value = v
  BY <1>1 DEF EndsAtQuote
<1> HIDE DEF value, end
<1>7. SubSeq(text, value + 1, end - 1) = c
  BY <1>3, <1>6
<1>8. value # 0 /\ text[value] = Quote /\ end # 0
  BY <1>1, <1>2, <1>3, <1>6
<1> QED
  BY <1>4, <1>5, <1>7, <1>8

\* extract_json_string_field() of a bare word.
LEMMA WordRead ==
  ASSUME NEW text, NEW w, NEW v, ValueOf(text, w) = v, v # 0, text[v] \in Words
  PROVE  StringField(text, w) = <<text[v]>>
<1> DEFINE value == ValueOf(text, w)
           end == IF value = 0 THEN 0 ELSE IndexOf(text, <<Quote>>, value + 1)
<1>1. text[value] \notin Punctuation /\ text[value] # Quote /\ value = v
  <2>1. text[v] \notin Punctuation
    BY WordsAreWords
  <2> QED
    BY <2>1 DEF Punctuation
<1>2. StringField(text, w) =
          CASE value = 0 -> <<>>
            [] value # 0 /\ text[value] = Quote /\ end # 0 -> SubSeq(text, value + 1, end - 1)
            [] value # 0 /\ text[value] \notin Punctuation -> <<text[value]>>
            [] OTHER -> <<>>
  BY DEF StringField
<1> HIDE DEF value, end
<1> QED
  BY <1>1, <1>2

(***************************************************************************)
(* How the server's texts are laid out.                                    *)
(***************************************************************************)
Wrapped(text, x, s, y) ==
    /\ text \in AnyText /\ s \in AnyText
    /\ Len(text) = Len(s) + 2
    /\ text[1] = x /\ Part(text, 1, s) /\ text[Len(s) + 2] = y

\* An atom before and one behind.
LEMMA WrapIs ==
  ASSUME NEW x \in Atoms, NEW s \in AnyText, NEW y \in Atoms
  PROVE  Wrapped(<<x>> \o s \o <<y>>, x, s, y)
<1> DEFINE front == <<x>>
           back == <<y>>
           xs == front \o s
           text == xs \o back
           n == Len(s)
<1>1. /\ front \in AnyText /\ Len(front) = 1 /\ front[1] = x
      /\ back \in AnyText /\ Len(back) = 1 /\ back[1] = y
      /\ n \in Nat
  BY DEF AnyText
<1> HIDE DEF front, back
<1>2. xs \in AnyText /\ Len(xs) = 1 + n /\ Part(xs, 0, front) /\ Part(xs, 1, s)
  BY <1>1, ConcatHasParts
<1> HIDE DEF xs
<1>3. text \in AnyText /\ Len(text) = Len(xs) + Len(back) /\ Part(text, 0, xs) /\ Part(text, Len(xs), back)
  BY <1>1, <1>2, ConcatHasParts
<1> HIDE DEF text
<1>4. Part(text, 0 + 1, s)
  BY <1>2, <1>3, PartOfPart
<1>5. Part(text, 0 + 0, front)
  BY <1>1, <1>2, <1>3, PartOfPart
<1>6. text[1] = x
  BY <1>1, <1>5 DEF Part
<1>7. text[n + 2] = y
  <2>1. Len(xs) = n + 1 /\ (n + 1) + 1 = n + 2 /\ 1 \in 1..1
    BY <1>1, <1>2
  <2>2. text[(n + 1) + 1] = back[1]
    BY <1>1, <1>3, <2>1 DEF Part
  <2> QED
    BY <1>1, <2>1, <2>2
<1>8. Len(text) = n + 2 /\ 0 + 1 = 1
  BY <1>1, <1>2, <1>3
<1>9. Wrapped(text, x, s, y)
  BY <1>3, <1>4, <1>6, <1>7, <1>8 DEF Wrapped, n
<1> QED
  BY <1>9 DEF text, xs, front, back

\* A string, an object and an array are wrapped texts.
LEMMA StrIsWrapped ==
  ASSUME NEW c \in AnyText
  PROVE  Wrapped(Str(c), Quote, c, Quote)
<1>1. Quote \in Atoms
  BY MarksAreAtoms
<1>2. Wrapped(<<Quote>> \o c \o <<Quote>>, Quote, c, Quote)
  BY <1>1, WrapIs
<1> QED
  BY <1>2, Zenon DEF Str

\* An object.
LEMMA ObjectIsWrapped ==
  ASSUME NEW c \in AnyText
  PROVE  Wrapped(Object(c), OpenBrace, c, CloseBrace)
<1>1. OpenBrace \in Atoms /\ CloseBrace \in Atoms
  BY MarksAreAtoms
<1>2. Wrapped(<<OpenBrace>> \o c \o <<CloseBrace>>, OpenBrace, c, CloseBrace)
  BY <1>1, WrapIs
<1> QED
  BY <1>2, Zenon DEF Object

\* An array, of the items listed in it.
LEMMA ArrayIsWrapped ==
  ASSUME NEW items, Listed(items) \in AnyText
  PROVE  Wrapped(Array(items), "[", Listed(items), "]")
<1>1. "[" \in Atoms /\ "]" \in Atoms
  BY MarksAreAtoms
<1>2. Wrapped(<<"[">> \o Listed(items) \o <<"]">>, "[", Listed(items), "]")
  BY <1>1, WrapIs
<1> QED
  BY <1>2, Zenon DEF Array

\* What is wrapped, within a text.
WrappedAt(text, p, x, s, y) ==
    /\ p \in Nat /\ s \in AnyText /\ p + Len(s) + 2 <= Len(text)
    /\ text[p + 1] = x /\ Part(text, p + 1, s) /\ text[p + Len(s) + 2] = y

\* A part that is wrapped is wrapped where it stands.
LEMMA WrappedPart ==
  ASSUME NEW text \in AnyText, NEW p, NEW t, NEW x, NEW s, NEW y,
         Wrapped(t, x, s, y), Part(text, p, t)
  PROVE  WrappedAt(text, p, x, s, y)
<1> DEFINE n == Len(s)
<1>1. /\ t \in AnyText /\ s \in AnyText /\ Len(t) = n + 2 /\ n \in Nat
      /\ t[1] = x /\ Part(t, 1, s) /\ t[n + 2] = y
  BY DEF Wrapped, AnyText
<1>2. p \in Nat /\ p + Len(t) <= Len(text) /\ \A k \in 1..Len(t) : text[p + k] = t[k]
  BY DEF Part
<1>3. Part(text, p + 1, s)
  BY <1>1, PartOfPart
<1> HIDE DEF n
<1>4. 1 \in 1..Len(t) /\ n + 2 \in 1..Len(t) /\ p + (n + 2) = p + n + 2
  BY <1>1, <1>2
<1>5. text[p + 1] = x /\ text[p + n + 2] = y
  <2>1. text[p + 1] = t[1] /\ text[p + (n + 2)] = t[n + 2]
    BY <1>2, <1>4
  <2> QED
    BY <1>1, <1>4, <2>1
<1>6. p + n + 2 <= Len(text)
  BY <1>1, <1>2, <1>4
<1> QED
  BY <1>1, <1>2, <1>3, <1>5, <1>6 DEF WrappedAt, n

\* A field: its name in quotes, a colon, its value.
FieldAt(text, p, name, value) ==
    /\ p \in Nat /\ value \in AnyText
    /\ p + 4 + Len(value) <= Len(text)
    /\ text[p + 1] = Quote /\ text[p + 2] = name /\ text[p + 3] = Quote /\ text[p + 4] = ":"
    /\ Part(text, p + 4, value)

\* A field alone.
LEMMA FieldIs ==
  ASSUME NEW name \in Atoms, NEW value \in AnyText
  PROVE  /\ Field(name, value) \in AnyText
         /\ Len(Field(name, value)) = 4 + Len(value)
         /\ FieldAt(Field(name, value), 0, name, value)
<1> DEFINE key == Str(<<name>>)
           colon == <<":">>
           front == key \o colon
           text == front \o value
           n == Len(value)
<1>1. IsQuoted(key, name)
  BY WordInQuotes
<1>2. colon \in AnyText /\ Len(colon) = 1 /\ colon[1] = ":" /\ n \in Nat
  BY MarksAreAtoms DEF AnyText
<1>3. Field(name, value) = text
  BY Zenon DEF Field
<1> HIDE DEF key, colon
<1>4. front \in AnyText /\ Len(front) = 4 /\ Part(front, 0, key) /\ Part(front, 3, colon)
  <2>1. /\ front \in AnyText /\ Len(front) = Len(key) + Len(colon)
        /\ Part(front, 0, key) /\ Part(front, Len(key), colon)
    BY <1>1, <1>2, ConcatHasParts DEF IsQuoted
  <2>2. Len(key) = 3
    BY <1>1 DEF IsQuoted
  <2> QED
    BY <1>2, <2>1, <2>2
<1>5. front[1] = Quote /\ front[2] = name /\ front[3] = Quote /\ front[4] = ":"
  <2>1. /\ front[0 + 1] = key[1] /\ front[0 + 2] = key[2] /\ front[0 + 3] = key[3]
        /\ front[3 + 1] = colon[1]
    BY <1>1, <1>2, <1>4 DEF Part, IsQuoted
  <2>2. 0 + 1 = 1 /\ 0 + 2 = 2 /\ 0 + 3 = 3 /\ 3 + 1 = 4
    OBVIOUS
  <2>3. key[1] = Quote /\ key[2] = name /\ key[3] = Quote /\ colon[1] = ":"
    BY <1>1, <1>2 DEF IsQuoted
  <2> QED
    BY <2>1, <2>2, <2>3, Zenon
<1> HIDE DEF front
<1>6. text \in AnyText /\ Len(text) = 4 + n /\ Part(text, 0, front) /\ Part(text, 4, value)
  <2>1. /\ text \in AnyText /\ Len(text) = Len(front) + n
        /\ Part(text, 0, front) /\ Part(text, Len(front), value)
    BY <1>4, ConcatHasParts
  <2> QED
    BY <1>4, <2>1
<1>7. text[1] = Quote /\ text[2] = name /\ text[3] = Quote /\ text[4] = ":"
  <2>1. /\ text[0 + 1] = front[1] /\ text[0 + 2] = front[2] /\ text[0 + 3] = front[3]
        /\ text[0 + 4] = front[4]
    BY <1>4, <1>6 DEF Part
  <2>2. 0 + 1 = 1 /\ 0 + 2 = 2 /\ 0 + 3 = 3 /\ 0 + 4 = 4
    OBVIOUS
  <2> QED
    BY <1>5, <2>1, <2>2, Zenon
<1> HIDE DEF text
<1>8. /\ 0 \in Nat /\ 0 + 4 + n <= Len(text) /\ 0 + 1 = 1 /\ 0 + 2 = 2 /\ 0 + 3 = 3 /\ 0 + 4 = 4
  BY <1>2, <1>6
<1>9. FieldAt(text, 0, name, value)
  BY <1>6, <1>7, <1>8 DEF FieldAt, n
<1> QED
  BY <1>3, <1>6, <1>9

\* A field as a part.
LEMMA FieldPart ==
  ASSUME NEW text \in AnyText, NEW p, NEW name \in Atoms, NEW value \in AnyText,
         Part(text, p, Field(name, value))
  PROVE  FieldAt(text, p, name, value)
<1> DEFINE f == Field(name, value)
           n == Len(value)
<1>1. f \in AnyText /\ Len(f) = 4 + n /\ FieldAt(f, 0, name, value) /\ n \in Nat
  BY FieldIs DEF AnyText
<1>2. Part(text, p, f)
  OBVIOUS
<1> HIDE DEF f
<1>3. p \in Nat /\ p + Len(f) <= Len(text) /\ \A k \in 1..Len(f) : text[p + k] = f[k]
  BY <1>2 DEF Part
<1>4. f[1] = Quote /\ f[2] = name /\ f[3] = Quote /\ f[4] = ":" /\ Part(f, 4, value)
  <2>1. 0 + 1 = 1 /\ 0 + 2 = 2 /\ 0 + 3 = 3 /\ 0 + 4 = 4
    OBVIOUS
  <2> QED
    BY <1>1, <2>1 DEF FieldAt
<1>5. Part(text, p + 4, value)
  BY <1>1, <1>2, <1>4, PartOfPart
<1> HIDE DEF n
<1>6. 1 \in 1..Len(f) /\ 2 \in 1..Len(f) /\ 3 \in 1..Len(f) /\ 4 \in 1..Len(f)
  BY <1>1
<1>7. p + 4 + n <= Len(text)
  BY <1>1, <1>3
<1> QED
  BY <1>3, <1>4, <1>5, <1>6, <1>7 DEF FieldAt, n

(***************************************************************************)
(* extract_line_at().                                                      *)
(***************************************************************************)
\* The brackets that are open behind position i of a payload's array, which
\* starts at 6.
OpenAt(m, i) == Depth(m, Opens, Closes, 6, i)

\* An object in braces.
IsItem(t) == Enclosed(t, Opens, Closes) /\ t[1] = OpenBrace /\ t[Len(t)] = CloseBrace

\* Within an item at p, only its first atom starts one and only its last ends one.
ItemSeen(m, p, t) ==
    /\ \A i \in (p + 1)..(p + Len(t)) : m[i] = OpenBrace /\ OpenAt(m, i) = 2 <=> i = p + 1
    /\ \A i \in (p + 1)..(p + Len(t)) : m[i] = CloseBrace /\ OpenAt(m, i) = 1 <=> i = p + Len(t)
    /\ OpenAt(m, p + Len(t)) = 1

\* The item's own brackets close where it ends.
LEMMA ItemIsSeen ==
  ASSUME NEW m \in AnyText, NEW p \in Nat, NEW t, IsItem(t), Part(m, p, t), 6 <= p,
         OpenAt(m, p) = 1
  PROVE  ItemSeen(m, p, t)
<1> DEFINE n == Len(t)
           D(k) == Depth(t, Opens, Closes, 1, k)
<1>1. t \in AnyText /\ n \in Nat /\ n >= 2
  BY DEF IsItem, Enclosed, AnyText
<1>2. (\A k \in 1..(n - 1) : D(k) >= 1) /\ D(n) = 0
  BY DEF IsItem, Enclosed
<1>3. \A k \in 0..n : D(k) \in Int
  BY DepthIsInt
<1>4. \A k \in 0..n : OpenAt(m, p + k) = 1 + D(k)
  <2>1. \A k \in 0..n : CountsAlike(m, p, t, Opens, Closes, 6, k)
    BY <1>1, DepthOfPart
  <2> QED
    BY <2>1 DEF CountsAlike, OpenAt
<1>5. \A k \in 1..n : m[p + k] = t[k]
  BY DEF Part
<1>6. D(0) = 0
  <2>1. D(1 - 1) = 0
    BY DepthOfNothing
  <2> QED
    BY <2>1
<1>7. ASSUME NEW k \in 1..n, t[k] = OpenBrace
      PROVE  D(k) = D(k - 1) + 1
  <2>1. DepthGrows(t, Opens, Closes, 1, k)
    BY DepthStep
  <2>2. OpenBrace \in Opens /\ OpenBrace \notin Closes
    BY KindsOfMarks DEF Kinds
  <2> QED
    BY <1>7, <2>1, <2>2 DEF DepthGrows, Gain
<1>8. t[1] = OpenBrace /\ t[n] = CloseBrace
  BY DEF IsItem
<1> HIDE DEF n, D
<1>9. ASSUME NEW k \in 1..n
      PROVE  t[k] = OpenBrace /\ 1 + D(k) = 2 <=> k = 1
  <2>1. CASE k = 1
    BY <1>1, <1>6, <1>7, <1>8, <2>1
  <2>2. CASE k # 1
    <3>1. k - 1 \in 1..(n - 1) /\ k - 1 \in 0..n
      BY <1>1, <2>2
    <3>2. D(k - 1) >= 1 /\ D(k - 1) \in Int
      BY <1>2, <1>3, <3>1
    <3> QED
      BY <1>7, <2>2, <3>2
  <2> QED
    BY <2>1, <2>2
<1>10. ASSUME NEW k \in 1..n
       PROVE  t[k] = CloseBrace /\ 1 + D(k) = 1 <=> k = n
  <2>1. CASE k = n
    BY <1>2, <1>8, <2>1
  <2>2. CASE k # n
    <3>1. k \in 1..(n - 1) /\ k \in 0..n
      BY <1>1, <2>2
    <3>2. D(k) >= 1 /\ D(k) \in Int
      BY <1>2, <1>3, <3>1
    <3> QED
      BY <2>2, <3>2
  <2> QED
    BY <2>1, <2>2
<1>11. ASSUME NEW i \in (p + 1)..(p + n)
       PROVE  /\ m[i] = OpenBrace /\ OpenAt(m, i) = 2 <=> i = p + 1
              /\ m[i] = CloseBrace /\ OpenAt(m, i) = 1 <=> i = p + n
  <2> DEFINE k == i - p
  <2>1. k \in 1..n /\ k \in 0..n /\ p + k = i /\ (k = 1 <=> i = p + 1) /\ (k = n <=> i = p + n)
    BY <1>1
  <2> HIDE DEF k
  <2>2. m[i] = t[k] /\ OpenAt(m, i) = 1 + D(k)
    BY <1>4, <1>5, <2>1
  <2>3. t[k] = OpenBrace /\ 1 + D(k) = 2 <=> k = 1
    BY <1>9, <2>1
  <2>4. t[k] = CloseBrace /\ 1 + D(k) = 1 <=> k = n
    BY <1>10, <2>1
  <2> QED
    BY <2>1, <2>2, <2>3, <2>4
<1>12. OpenAt(m, p + n) = 1
  BY <1>1, <1>2, <1>4
<1> QED
  BY <1>11, <1>12 DEF ItemSeen, n

\* A payload: the items between the brackets behind its key.
MessageLaid(m, list) ==
    /\ m \in AnyText /\ list \in AnyText
    /\ Len(m) = Len(list) + 8
    /\ m[1] = OpenBrace
    /\ m[2] = Quote /\ m[3] = "lines" /\ m[4] = Quote /\ m[5] = ":" /\ m[6] = "["
    /\ Part(m, 6, list)
    /\ m[Len(list) + 7] = "]" /\ m[Len(list) + 8] = CloseBrace

\* MessageText() lays it out.
LEMMA MessageIsLaid ==
  ASSUME NEW items, Listed(items) \in AnyText
  PROVE  MessageLaid(Object(Field("lines", Array(items))), Listed(items))
<1> DEFINE list == Listed(items)
           array == Array(items)
           field == Field("lines", array)
           m == Object(field)
           n == Len(list)
<1>1. list \in AnyText /\ n \in Nat
  BY DEF AnyText
<1>2. Wrapped(array, "[", list, "]")
  BY <1>1, ArrayIsWrapped
<1>3. array \in AnyText /\ Len(array) = n + 2
  BY <1>2 DEF Wrapped
<1>4. "lines" \in Atoms
  BY MarksAreAtoms DEF Words
<1> HIDE DEF list, array
<1>5. field \in AnyText /\ Len(field) = 4 + Len(array)
  BY <1>3, <1>4, FieldIs
<1>6. Wrapped(m, OpenBrace, field, CloseBrace)
  BY <1>5, ObjectIsWrapped
<1>7. /\ m \in AnyText /\ Len(m) = Len(field) + 2 /\ m[1] = OpenBrace
      /\ Part(m, 1, field) /\ m[Len(field) + 2] = CloseBrace
  BY <1>6 DEF Wrapped
<1>8. FieldAt(m, 1, "lines", array)
  BY <1>3, <1>4, <1>7, FieldPart
<1>9. Part(m, 1 + 4, array)
  BY <1>8 DEF FieldAt
<1>10. WrappedAt(m, 1 + 4, "[", list, "]")
  BY <1>2, <1>7, <1>9, WrappedPart
<1>11. /\ m[1 + 1] = Quote /\ m[1 + 2] = "lines" /\ m[1 + 3] = Quote /\ m[1 + 4] = ":"
  BY <1>8 DEF FieldAt
<1>12. m[(1 + 4) + 1] = "[" /\ Part(m, (1 + 4) + 1, list) /\ m[(1 + 4) + n + 2] = "]"
  BY <1>10 DEF WrappedAt
<1>13. /\ 1 + 1 = 2 /\ 1 + 2 = 3 /\ 1 + 3 = 4 /\ 1 + 4 = 5 /\ (1 + 4) + 1 = 6
       /\ (1 + 4) + n + 2 = n + 7 /\ Len(field) + 2 = n + 8
  BY <1>1, <1>3, <1>5
<1> HIDE DEF m, field, n
<1>14. /\ m[2] = Quote /\ m[3] = "lines" /\ m[4] = Quote /\ m[5] = ":" /\ m[6] = "["
       /\ Part(m, 6, list) /\ m[n + 7] = "]" /\ m[n + 8] = CloseBrace /\ Len(m) = n + 8
  BY <1>7, <1>11, <1>12, <1>13, Zenon
<1>15. MessageLaid(m, list)
  BY <1>1, <1>7, <1>14 DEF MessageLaid, n
<1> QED
  BY <1>15 DEF m, field, array, list

\* Its array is found, open.
LEMMA ArrayOfLines ==
  ASSUME NEW m, NEW list, MessageLaid(m, list)
  PROVE  /\ ValueOf(m, "lines") = 6 /\ IndexOf(m, <<"[">>, 6) = 6
         /\ OpenAt(m, 6) = 1
<1>1. m \in AnyText /\ Len(list) \in Nat /\ Len(m) = Len(list) + 8
  BY DEF MessageLaid, AnyText
<1>2. "lines" \in Atoms /\ "[" \in Atoms
  BY MarksAreAtoms DEF Words
<1>3. ValueAt(m, "lines", 2, 2, 6)
  <2>1. KeyAt(m, 2, "lines")
    BY <1>1 DEF KeyAt, MessageLaid
  <2>2. \A i \in 1..(2 - 1) : ~KeyAt(m, i, "lines")
    BY MarksDiffer DEF KeyAt, MessageLaid
  <2>3. 2 \in 1..2 /\ 6 \in (2 + 4)..Len(m) /\ 6 - 1 = 5
    BY <1>1
  <2>4. \A i \in (2 + 3)..(6 - 2) : m[i] # ":"
    OBVIOUS
  <2>5. m[5] = ":"
    BY DEF MessageLaid
  <2> QED
    BY <2>1, <2>2, <2>3, <2>4, <2>5 DEF ValueAt
<1>4. ValueOf(m, "lines") = 6
  BY <1>1, <1>2, <1>3, ValueFound
<1>5. FoundAt(m, "[", 6, 6)
  BY <1>1 DEF FoundAt, MessageLaid
<1>6. IndexOf(m, <<"[">>, 6) = 6
  BY <1>1, <1>2, <1>5, AtomFound
<1>7. OpenAt(m, 6) = 1
  <2>1. Depth(m, Opens, Closes, 6, 6 - 1) = 0
    BY DepthOfNothing
  <2>2. DepthGrows(m, Opens, Closes, 6, 6)
    BY DepthStep
  <2>3. m[6] \in Opens /\ m[6] \notin Closes
    BY MarksDiffer DEF MessageLaid, Opens, Closes
  <2> QED
    BY <2>1, <2>2, <2>3 DEF DepthGrows, Gain, OpenAt
<1> QED
  BY <1>4, <1>6, <1>7

\* Where items start and how many do up to a position; where the last of so many ends.
StartsOf(m) == {i \in 6..Len(m) : m[i] = OpenBrace /\ OpenAt(m, i) = 2}
StartsUpTo(m, i) == {j \in StartsOf(m) : j <= i}
Closing(m, i) == m[i] = CloseBrace /\ OpenAt(m, i) = 1
EndsOf(m, index) == {i \in 6..Len(m) : Closing(m, i) /\ Cardinality(StartsUpTo(m, i)) = index}

\* extract_line_at() in these terms.
LineRead(m, index) ==
    IF First(EndsOf(m, index)) = 0 THEN <<>>
    ELSE SubSeq(m, CHOOSE s \in StartsOf(m) : /\ s <= First(EndsOf(m, index))
                                              /\ \A t \in StartsOf(m) :
                                                     t <= First(EndsOf(m, index)) => t <= s,
                First(EndsOf(m, index)))

\* They are the same.
LEMMA LineReadIs ==
  ASSUME NEW m, NEW list, MessageLaid(m, list), NEW index
  PROVE  LineAt(m, index) = LineRead(m, index)
<1> DEFINE value == ValueOf(m, "lines")
           array == IF value = 0 THEN 0 ELSE IndexOf(m, <<"[">>, value)
           starts == LineStarts(m, array)
           end == First({i \in array..Len(m) :
                            /\ m[i] = CloseBrace
                            /\ Depth(m, Opens, Closes, array, i) = 1
                            /\ Cardinality({j \in starts : j <= i}) = index})
<1>1. LineAt(m, index) =
          IF array = 0 \/ end = 0 THEN <<>>
          ELSE SubSeq(m, CHOOSE s \in starts : s <= end /\ \A t \in starts : t <= end => t <= s, end)
  BY DEF LineAt
<1>2. array = 6
  <2>1. value = 6 /\ IndexOf(m, <<"[">>, 6) = 6
    BY ArrayOfLines
  <2> HIDE DEF value
  <2> QED
    BY <2>1
<1> HIDE DEF array
<1>3. starts = StartsOf(m)
  BY <1>2 DEF LineStarts, StartsOf, OpenAt
<1> HIDE DEF starts
<1>4. {i \in array..Len(m) : /\ m[i] = CloseBrace
                             /\ Depth(m, Opens, Closes, array, i) = 1
                             /\ Cardinality({j \in starts : j <= i}) = index} = EndsOf(m, index)
  BY <1>2, <1>3 DEF EndsOf, Closing, StartsUpTo, OpenAt
<1>5. end = First(EndsOf(m, index))
  BY <1>4
<1> HIDE DEF end
<1>6. array # 0
  BY <1>2
<1> QED
  BY <1>1, <1>3, <1>5, <1>6 DEF LineRead

\* The item that starts at s and ends at e is the one with the index.
ItemIs(m, index, s, e) ==
    /\ s \in StartsUpTo(m, e)
    /\ \A t \in StartsUpTo(m, e) : t <= s
    /\ e \in EndsOf(m, index)
    /\ \A i \in EndsOf(m, index) : e <= i

\* It is cut out.
LEMMA LineIsCut ==
  ASSUME NEW m, NEW index, NEW s, NEW e, ItemIs(m, index, s, e)
  PROVE  LineRead(m, index) = SubSeq(m, s, e)
<1>1. EndsOf(m, index) \in SUBSET Int /\ StartsOf(m) \in SUBSET Int
  BY DEF EndsOf, StartsOf
<1>2. e \in EndsOf(m, index) /\ \A i \in EndsOf(m, index) : e <= i
  BY DEF ItemIs
<1>3. First(EndsOf(m, index)) = e
  BY <1>1, <1>2, FirstIs
<1>4. e # 0
  BY <1>2 DEF EndsOf
<1> DEFINE Last(t) == t <= e /\ \A u \in StartsOf(m) : u <= e => u <= t
           last == CHOOSE t \in StartsOf(m) : Last(t)
<1>5. s \in StartsOf(m) /\ Last(s)
  BY DEF ItemIs, StartsUpTo
<1>6. last \in StartsOf(m) /\ Last(last)
  BY <1>5
<1>7. last = s
  <2>1. last <= s /\ s <= last
    BY <1>5, <1>6
  <2>2. last \in Int /\ s \in Int
    BY <1>1, <1>5, <1>6
  <2> HIDE DEF last
  <2> QED
    BY <2>1, <2>2
<1>8. LineRead(m, index) = SubSeq(m, last, e)
  BY <1>3, <1>4 DEF LineRead
<1> HIDE DEF last
<1> QED
  BY <1>7, <1>8

\* Without items there is none.
LEMMA NoLine ==
  ASSUME NEW m, NEW list, MessageLaid(m, list), list = <<>>, NEW index
  PROVE  LineAt(m, index) = <<>>
<1>1. OpenAt(m, 6) = 1
  BY ArrayOfLines
<1>2. Len(m) = 8 /\ m[6] = "[" /\ m[7] = "]" /\ m[8] = CloseBrace
  BY DEF MessageLaid
<1>3. OpenAt(m, 7) = 0 /\ OpenAt(m, 8) = -1
  <2>1. DepthGrows(m, Opens, Closes, 6, 7) /\ DepthGrows(m, Opens, Closes, 6, 8)
    BY DepthStep
  <2>2. m[7] \in Closes /\ m[7] \notin Opens /\ m[8] \in Closes /\ m[8] \notin Opens
    BY <1>2, MarksDiffer DEF Opens, Closes
  <2>3. 7 - 1 = 6 /\ 8 - 1 = 7
    OBVIOUS
  <2>4. OpenAt(m, 7) = 0
    BY <1>1, <2>1, <2>2, <2>3 DEF DepthGrows, Gain, OpenAt
  <2>5. OpenAt(m, 8) = -1
    BY <2>1, <2>2, <2>3, <2>4 DEF DepthGrows, Gain, OpenAt
  <2> QED
    BY <2>4, <2>5
<1>4. ASSUME NEW i \in 6..Len(m) PROVE ~Closing(m, i)
  <2>1. i = 6 \/ i = 7 \/ i = 8
    BY <1>2
  <2> QED
    BY <1>2, <1>3, <2>1, MarksDiffer DEF Closing
<1>5. EndsOf(m, index) = {}
  BY <1>4 DEF EndsOf
<1>6. First(EndsOf(m, index)) = 0
  BY <1>5, FirstOfNothing
<1>7. LineRead(m, index) = <<>>
  BY <1>6 DEF LineRead
<1> QED
  BY <1>7, LineReadIs

\* A payload whose list starts with an item.
StartsWith(m, list, t) == MessageLaid(m, list) /\ IsItem(t) /\ Part(list, 0, t)

\* The item stands behind the bracket, and nothing before its end is another.
FirstItemSeen(m, t) ==
    /\ Len(t) \in Nat /\ Len(t) >= 2 /\ Len(t) + 8 <= Len(m) /\ Len(m) \in Nat
    /\ Part(m, 6, t)
    /\ ItemSeen(m, 6, t)
    /\ \A i \in 6..(6 + Len(t)) : m[i] = OpenBrace /\ OpenAt(m, i) = 2 <=> i = 7
    /\ \A i \in 6..(6 + Len(t)) : Closing(m, i) <=> i = 6 + Len(t)

\* The first item is seen so.
LEMMA FirstIsSeen ==
  ASSUME NEW m, NEW list, NEW t, StartsWith(m, list, t)
  PROVE  FirstItemSeen(m, t)
<1> DEFINE n == Len(t)
<1>1. m \in AnyText /\ list \in AnyText /\ t \in AnyText /\ n \in Nat /\ n >= 2 /\ Len(m) \in Nat
  BY DEF StartsWith, MessageLaid, IsItem, Enclosed, AnyText
<1>2. Part(m, 6, list) /\ Part(list, 0, t) /\ IsItem(t) /\ m[6] = "[" /\ Len(m) = Len(list) + 8
  BY DEF StartsWith, MessageLaid
<1>3. Part(m, 6 + 0, t)
  BY <1>1, <1>2, PartOfPart
<1>4. 6 + 0 = 6 /\ 6 \in Nat
  OBVIOUS
<1>5. Part(m, 6, t)
  BY <1>3, <1>4
<1>6. OpenAt(m, 6) = 1
  BY ArrayOfLines DEF StartsWith
<1>7. ItemSeen(m, 6, t)
  BY <1>1, <1>2, <1>4, <1>5, <1>6, ItemIsSeen
<1>8. n + 8 <= Len(m)
  BY <1>1, <1>2 DEF Part, AnyText
<1>9. m[6] # OpenBrace /\ m[6] # CloseBrace
  BY <1>2, MarksDiffer
<1> HIDE DEF n
<1>10. ASSUME NEW i \in 6..(6 + n)
       PROVE  /\ m[i] = OpenBrace /\ OpenAt(m, i) = 2 <=> i = 7
              /\ Closing(m, i) <=> i = 6 + n
  <2>1. CASE i = 6
    BY <1>1, <1>9, <2>1 DEF Closing
  <2>2. CASE i # 6
    <3>1. i \in (6 + 1)..(6 + n) /\ 6 + 1 = 7
      BY <1>1, <2>2
    <3> QED
      BY <1>7, <3>1 DEF ItemSeen, Closing, n
  <2> QED
    BY <2>1, <2>2
<1> QED
  BY <1>1, <1>5, <1>7, <1>8, <1>10 DEF FirstItemSeen, n

\* So up to its end one item has started.
LEMMA OneStarted ==
  ASSUME NEW m, NEW t, FirstItemSeen(m, t), NEW i \in 7..(6 + Len(t))
  PROVE  StartsUpTo(m, i) = {7} /\ Cardinality(StartsUpTo(m, i)) = 1
<1>1. Len(t) \in Nat /\ Len(t) >= 2 /\ Len(t) + 8 <= Len(m) /\ Len(m) \in Nat
  BY DEF FirstItemSeen
<1>2. \A j \in 6..(6 + Len(t)) : m[j] = OpenBrace /\ OpenAt(m, j) = 2 <=> j = 7
  BY DEF FirstItemSeen
<1>3. ASSUME NEW j PROVE j \in StartsUpTo(m, i) <=> j = 7
  <2>1. ASSUME j \in StartsUpTo(m, i) PROVE j = 7
    <3>1. j \in 6..(6 + Len(t)) /\ m[j] = OpenBrace /\ OpenAt(m, j) = 2
      BY <1>1, <2>1 DEF StartsUpTo, StartsOf
    <3> QED
      BY <1>2, <3>1
  <2>2. ASSUME j = 7 PROVE j \in StartsUpTo(m, i)
    <3>1. j \in 6..(6 + Len(t)) /\ j \in 6..Len(m) /\ j <= i
      BY <1>1, <2>2
    <3> QED
      BY <1>2, <2>2, <3>1 DEF StartsUpTo, StartsOf
  <2> QED
    BY <2>1, <2>2
<1>4. StartsUpTo(m, i) = {7}
  BY <1>3
<1> QED
  BY <1>4, FS_Singleton

\* extract_line_at() of the first item is the item.
LEMMA FirstLine ==
  ASSUME NEW m, NEW list, NEW t, StartsWith(m, list, t)
  PROVE  LineAt(m, 1) = t
<1> DEFINE n == Len(t)
           e == 6 + n
<1>1. FirstItemSeen(m, t)
  BY FirstIsSeen
<1>2. n \in Nat /\ n >= 2 /\ n + 8 <= Len(m) /\ Len(m) \in Nat /\ Part(m, 6, t)
  BY <1>1 DEF FirstItemSeen
<1>3. \A i \in 6..e : Closing(m, i) <=> i = e
  BY <1>1 DEF FirstItemSeen
<1>4. StartsUpTo(m, e) = {7} /\ Cardinality(StartsUpTo(m, e)) = 1
  <2>1. e \in 7..(6 + n)
    BY <1>2
  <2> QED
    BY <1>1, <2>1, OneStarted
<1>5. e \in EndsOf(m, 1)
  <2>1. e \in 6..e /\ e \in 6..Len(m)
    BY <1>2
  <2> QED
    BY <1>3, <1>4, <2>1 DEF EndsOf
<1>6. ASSUME NEW i \in EndsOf(m, 1) PROVE e <= i
  <2>1. i \in 6..Len(m) /\ Closing(m, i)
    BY DEF EndsOf
  <2>2. i \in 6..e => i = e
    BY <1>3, <2>1
  <2> QED
    BY <1>2, <2>1, <2>2
<1>7. ItemIs(m, 1, 7, e)
  BY <1>4, <1>5, <1>6 DEF ItemIs
<1>8. LineRead(m, 1) = SubSeq(m, 7, e)
  BY <1>7, LineIsCut
<1>9. SubSeq(m, 6 + 1, 6 + n) = t
  <2>1. m \in AnyText /\ t \in AnyText /\ 6 \in Nat
    BY DEF StartsWith, MessageLaid, IsItem, Enclosed
  <2> QED
    BY <1>2, <2>1, PartIsSubSeq
<1>10. LineAt(m, 1) = LineRead(m, 1)
  BY LineReadIs DEF StartsWith
<1>11. 6 + 1 = 7 /\ e = 6 + n
  OBVIOUS
<1> HIDE DEF e, n
<1> QED
  BY <1>8, <1>9, <1>10, <1>11, Zenon

\* Behind an only item there is no second.
LEMMA OnlyLine ==
  ASSUME NEW m, NEW list, NEW t, StartsWith(m, list, t), Len(list) = Len(t)
  PROVE  LineAt(m, 2) = <<>>
<1> DEFINE n == Len(t)
<1>1. FirstItemSeen(m, t)
  BY FirstIsSeen
<1>2. n \in Nat /\ n >= 2 /\ Len(m) = n + 8
  BY <1>1 DEF FirstItemSeen, StartsWith, MessageLaid
<1>3. m[n + 7] = "]" /\ m[n + 8] = CloseBrace
  BY DEF StartsWith, MessageLaid
<1>4. OpenAt(m, 6 + n) = 1
  BY <1>1 DEF FirstItemSeen, ItemSeen
<1>5. \A i \in 6..(6 + n) : Closing(m, i) <=> i = 6 + n
  BY <1>1 DEF FirstItemSeen
<1> HIDE DEF n
<1>6. OpenAt(m, n + 8) = -1
  <2>1. DepthGrows(m, Opens, Closes, 6, n + 7) /\ DepthGrows(m, Opens, Closes, 6, n + 8)
    <3>1. n + 7 \in Int /\ n + 8 \in Int /\ 6 <= n + 7 /\ 6 <= n + 8
      BY <1>2
    <3> QED
      BY <3>1, DepthStep
  <2>2. /\ m[n + 7] \in Closes /\ m[n + 7] \notin Opens
        /\ m[n + 8] \in Closes /\ m[n + 8] \notin Opens
    BY <1>3, MarksDiffer DEF Opens, Closes
  <2>3. (n + 7) - 1 = 6 + n /\ (n + 8) - 1 = n + 7
    BY <1>2
  <2>4. OpenAt(m, n + 7) = 0
    BY <1>4, <2>1, <2>2, <2>3 DEF DepthGrows, Gain, OpenAt
  <2> QED
    BY <2>1, <2>2, <2>3, <2>4 DEF DepthGrows, Gain, OpenAt
<1>7. ASSUME NEW i \in EndsOf(m, 2) PROVE FALSE
  <2>1. i \in 6..(n + 8) /\ Closing(m, i) /\ Cardinality(StartsUpTo(m, i)) = 2
    BY <1>2 DEF EndsOf
  <2>2. CASE i \in 6..(6 + n)
    <3>1. i \in 7..(6 + n)
      BY <1>2, <1>5, <2>1, <2>2
    <3>2. Cardinality(StartsUpTo(m, i)) = 1
      BY <1>1, <3>1, OneStarted DEF n
    <3> QED
      BY <2>1, <3>2
  <2>3. CASE i = n + 7
    BY <1>3, <2>1, <2>3, MarksDiffer DEF Closing
  <2>4. CASE i = n + 8
    BY <1>6, <2>1, <2>4 DEF Closing
  <2> QED
    BY <1>2, <2>1, <2>2, <2>3, <2>4
<1>8. EndsOf(m, 2) = {}
  BY <1>7
<1>9. LineRead(m, 2) = <<>>
  BY <1>8, FirstOfNothing DEF LineRead
<1> QED
  BY <1>9, LineReadIs DEF StartsWith

\* extract_line_at() of the item behind the first is that item.
LEMMA SecondLine ==
  ASSUME NEW m, NEW list, NEW t, NEW u, StartsWith(m, list, t), IsItem(u),
         list[Len(t) + 1] = Comma, Part(list, Len(t) + 1, u)
  PROVE  LineAt(m, 2) = u
<1> DEFINE n == Len(t)
           k == Len(u)
           p == n + 7
           e == p + k
<1>1. FirstItemSeen(m, t)
  BY FirstIsSeen
<1>2. /\ m \in AnyText /\ list \in AnyText /\ u \in AnyText /\ n \in Nat /\ n >= 2 /\ Len(m) \in Nat
      /\ k \in Nat /\ k >= 2 /\ Part(m, 6, list) /\ Len(m) = Len(list) + 8 /\ Len(list) \in Nat
  BY <1>1 DEF FirstItemSeen, StartsWith, MessageLaid, IsItem, Enclosed, AnyText
<1>3. Part(m, 6 + (n + 1), u)
  BY <1>2, PartOfPart
<1>4. 6 + (n + 1) = p /\ p \in Nat /\ 6 <= p /\ p - 1 = 6 + n /\ e \in Nat
  BY <1>2
<1>5. Part(m, p, u)
  BY <1>3, <1>4
<1>6. n + 1 \in 1..Len(list) /\ e <= Len(m)
  <2>1. (n + 1) + k <= Len(list)
    BY DEF Part
  <2> QED
    BY <1>2, <2>1
<1>7. m[p] = Comma
  <2>1. m[6 + (n + 1)] = list[n + 1]
    BY <1>2, <1>6 DEF Part
  <2> QED
    BY <1>4, <2>1
<1>8. OpenAt(m, p - 1) = 1
  <2>1. OpenAt(m, 6 + n) = 1
    BY <1>1 DEF FirstItemSeen, ItemSeen
  <2> QED
    BY <1>4, <2>1
<1>9. \A i \in 6..(6 + n) : Closing(m, i) <=> i = 6 + n
  BY <1>1 DEF FirstItemSeen
<1>10. \A i \in 6..(6 + n) : m[i] = OpenBrace /\ OpenAt(m, i) = 2 <=> i = 7
  BY <1>1 DEF FirstItemSeen
<1> HIDE DEF p, n, k
<1>11. OpenAt(m, p) = 1
  <2>1. DepthGrows(m, Opens, Closes, 6, p)
    BY <1>4, DepthStep
  <2>2. m[p] \notin Opens /\ m[p] \notin Closes
    BY <1>7, MarksDiffer DEF Opens, Closes
  <2> QED
    BY <1>8, <2>1, <2>2 DEF DepthGrows, Gain, OpenAt
<1>12. ItemSeen(m, p, u)
  BY <1>2, <1>4, <1>5, <1>11, ItemIsSeen
<1>13. /\ \A i \in (p + 1)..e : m[i] = OpenBrace /\ OpenAt(m, i) = 2 <=> i = p + 1
       /\ \A i \in (p + 1)..e : Closing(m, i) <=> i = e
  BY <1>12 DEF ItemSeen, Closing, k
<1>14. ASSUME NEW j PROVE j \in StartsUpTo(m, e) <=> j = 7 \/ j = p + 1
  <2>1. p = n + 7 /\ e = p + k
    BY DEF p
  <2>2. ASSUME j \in StartsUpTo(m, e) PROVE j = 7 \/ j = p + 1
    <3>1. j \in 6..e /\ m[j] = OpenBrace /\ OpenAt(m, j) = 2
      BY <1>2, <1>6, <2>2 DEF StartsUpTo, StartsOf
    <3>2. j \in 6..(6 + n) \/ j = p \/ j \in (p + 1)..e
      BY <1>2, <1>4, <2>1, <3>1
    <3>3. j # p
      BY <1>7, <3>1, MarksDiffer
    <3> QED
      BY <1>10, <1>13, <3>1, <3>2, <3>3
  <2>3. ASSUME j = 7 PROVE j \in StartsUpTo(m, e)
    <3>1. j \in 6..(6 + n) /\ j \in 6..Len(m) /\ j <= e
      BY <1>2, <1>6, <2>1, <2>3
    <3> QED
      BY <1>10, <2>3, <3>1 DEF StartsUpTo, StartsOf
  <2>4. ASSUME j = p + 1 PROVE j \in StartsUpTo(m, e)
    <3>1. j \in (p + 1)..e /\ j \in 6..Len(m) /\ j <= e
      BY <1>2, <1>4, <1>6, <2>1, <2>4
    <3> QED
      BY <1>13, <2>4, <3>1 DEF StartsUpTo, StartsOf
  <2> QED
    BY <2>2, <2>3, <2>4
<1>15. StartsUpTo(m, e) = {7} \cup {p + 1}
  BY <1>14
<1>16. Cardinality(StartsUpTo(m, e)) = 2
  <2>1. IsFiniteSet({7}) /\ Cardinality({7}) = 1
    BY FS_Singleton
  <2>2. p + 1 \notin {7}
    BY <1>2, <1>4 DEF p
  <2>3. Cardinality({7} \cup {p + 1}) = Cardinality({7}) + 1
    BY <2>1, <2>2, FS_AddElement
  <2> QED
    BY <1>15, <2>1, <2>3
<1>17. e \in EndsOf(m, 2)
  <2>1. e \in (p + 1)..e /\ e \in 6..Len(m)
    BY <1>2, <1>4, <1>6 DEF p
  <2> QED
    BY <1>13, <1>16, <2>1 DEF EndsOf
<1>18. ASSUME NEW i \in EndsOf(m, 2) PROVE e <= i
  <2>1. i \in 6..Len(m) /\ Closing(m, i) /\ Cardinality(StartsUpTo(m, i)) = 2
    BY DEF EndsOf
  <2>2. i \notin 6..(6 + n)
    <3> SUFFICES ASSUME i \in 6..(6 + n) PROVE FALSE
      OBVIOUS
    <3>1. i \in 7..(6 + n)
      BY <1>2, <1>9, <2>1
    <3>2. Cardinality(StartsUpTo(m, i)) = 1
      BY <1>1, <3>1, OneStarted DEF n
    <3> QED
      BY <2>1, <3>2
  <2>3. i # p
    BY <1>7, <2>1, MarksDiffer DEF Closing
  <2>4. i \in (p + 1)..e => i = e
    BY <1>13, <2>1
  <2>5. p = n + 7
    BY DEF p
  <2> HIDE DEF e
  <2>6. e \in Nat
    BY <1>4
  <2> QED
    BY <1>2, <2>1, <2>2, <2>3, <2>4, <2>5, <2>6
<1>19. ItemIs(m, 2, p + 1, e)
  <2>1. p + 1 \in StartsUpTo(m, e)
    BY <1>15
  <2>2. \A j \in StartsUpTo(m, e) : j <= p + 1
    BY <1>4, <1>15
  <2> QED
    BY <1>17, <1>18, <2>1, <2>2 DEF ItemIs
<1>20. LineRead(m, 2) = SubSeq(m, p + 1, e)
  BY <1>19, LineIsCut
<1>21. SubSeq(m, p + 1, p + Len(u)) = u
  BY <1>2, <1>4, <1>5, PartIsSubSeq
<1>22. LineAt(m, 2) = LineRead(m, 2)
  BY LineReadIs DEF StartsWith
<1> QED
  BY <1>20, <1>21, <1>22 DEF k

(***************************************************************************)
(* Where everything of a line stands.                                      *)
(***************************************************************************)
\* A key and its colon behind p.
NameAt(text, p, name) ==
    text[p + 1] = Quote /\ text[p + 2] = name /\ text[p + 3] = Quote /\ text[p + 4] = ":"

\* A field whose value is wrapped.
WrappedFieldAt(text, p, name, x, s, y) ==
    /\ p \in Nat /\ s \in AnyText /\ p + Len(s) + 6 <= Len(text)
    /\ NameAt(text, p, name)
    /\ text[p + 5] = x /\ Part(text, p + 5, s) /\ text[p + Len(s) + 6] = y

\* It stands where the field does.
LEMMA FieldOfWrapped ==
  ASSUME NEW text \in AnyText, NEW p, NEW name \in Atoms, NEW v, NEW x, NEW s, NEW y,
         Wrapped(v, x, s, y), Part(text, p, Field(name, v))
  PROVE  WrappedFieldAt(text, p, name, x, s, y)
<1>1. v \in AnyText /\ s \in AnyText /\ Len(s) \in Nat /\ Len(v) = Len(s) + 2
  BY DEF Wrapped, AnyText
<1>2. FieldAt(text, p, name, v)
  BY <1>1, FieldPart
<1>3. p \in Nat /\ p + 4 + Len(v) <= Len(text) /\ Part(text, p + 4, v) /\ NameAt(text, p, name)
  BY <1>2 DEF FieldAt, NameAt
<1>4. WrappedAt(text, p + 4, x, s, y)
  BY <1>1, <1>3, WrappedPart
<1>5. text[(p + 4) + 1] = x /\ Part(text, (p + 4) + 1, s) /\ text[(p + 4) + Len(s) + 2] = y
  BY <1>4 DEF WrappedAt
<1>6. (p + 4) + 1 = p + 5 /\ (p + 4) + Len(s) + 2 = p + Len(s) + 6
  BY <1>1, <1>3
<1>7. p + Len(s) + 6 <= Len(text)
  BY <1>1, <1>3
<1>8. text[p + 5] = x /\ Part(text, p + 5, s) /\ text[p + Len(s) + 6] = y
  BY <1>5, <1>6, Zenon
<1> QED
  BY <1>1, <1>3, <1>7, <1>8 DEF WrappedFieldAt

\* How long it is.
LEMMA WrappedFieldLength ==
  ASSUME NEW name \in Atoms, NEW v, NEW x, NEW s, NEW y, Wrapped(v, x, s, y)
  PROVE  /\ Field(name, v) \in AnyText
         /\ Len(Field(name, v)) = Len(s) + 6
<1>1. v \in AnyText /\ Len(s) \in Nat /\ Len(v) = Len(s) + 2
  BY DEF Wrapped, AnyText
<1>2. Field(name, v) \in AnyText /\ Len(Field(name, v)) = 4 + Len(v)
  BY <1>1, FieldIs
<1> QED
  BY <1>1, <1>2

\* The items of an object, one behind the other.
ItemsAt(text, f, items) ==
    /\ text \in AnyText
    /\ Len(text) = Len(f[Len(items)]) + 2
    /\ text[1] = OpenBrace /\ text[Len(f[Len(items)]) + 2] = CloseBrace
    /\ \A i \in 0..Len(items) : Len(f[i]) \in Nat
    /\ Len(f[0]) = 0
    /\ Len(items) >= 1 => Part(text, 1, items[1]) /\ Len(f[1]) = Len(items[1])
    /\ \A i \in 2..Len(items) :
           /\ Len(f[i]) = Len(f[i - 1]) + 1 + Len(items[i])
           /\ text[Len(f[i - 1]) + 2] = Comma
           /\ Part(text, Len(f[i - 1]) + 2, items[i])

\* They stand where the list has them.
LEMMA ObjectOfItems ==
  ASSUME NEW items \in Seq(AnyText)
  PROVE  \E f : ItemsAt(Object(Listed(items)), f, items)
<1> DEFINE list == Listed(items)
           text == Object(list)
           n == Len(items)
<1>1. PICK f : LaidOut(list, f, items)
  BY ListedIsLaidOut
<1>2. /\ list \in AnyText /\ list = f[n] /\ Len(list) \in Nat /\ n \in Nat
      /\ \A i \in 0..n : f[i] \in AnyText /\ Len(f[i]) \in Nat /\ Len(f[i]) <= Len(list)
      /\ f[0] = <<>>
  BY <1>1 DEF LaidOut, AnyText
<1>3. Wrapped(text, OpenBrace, list, CloseBrace)
  BY <1>2, ObjectIsWrapped
<1> HIDE DEF list
<1>4. /\ text \in AnyText /\ Len(text) = Len(list) + 2 /\ text[1] = OpenBrace
      /\ Part(text, 1, list) /\ text[Len(list) + 2] = CloseBrace
  BY <1>3 DEF Wrapped
<1> HIDE DEF text, n
<1>5. n >= 1 => Part(text, 1, items[1]) /\ Len(f[1]) = Len(items[1])
  <2> SUFFICES ASSUME n >= 1 PROVE Part(text, 1, items[1]) /\ Len(f[1]) = Len(items[1])
    OBVIOUS
  <2>1. Part(list, 0, items[1]) /\ Len(f[1]) = Len(items[1])
    BY <1>1 DEF LaidOut, n
  <2>2. items[1] \in AnyText
    BY <1>2 DEF n
  <2>3. Part(text, 1 + 0, items[1])
    BY <1>2, <1>4, <2>1, <2>2, PartOfPart
  <2>4. 1 + 0 = 1
    OBVIOUS
  <2> QED
    BY <2>1, <2>3, <2>4, Zenon
<1>6. ASSUME NEW i \in 2..n
      PROVE  /\ Len(f[i]) = Len(f[i - 1]) + 1 + Len(items[i])
             /\ text[Len(f[i - 1]) + 2] = Comma
             /\ Part(text, Len(f[i - 1]) + 2, items[i])
  <2> DEFINE k == Len(f[i - 1])
  <2>1. /\ Len(f[i]) = k + 1 + Len(items[i])
        /\ list[k + 1] = Comma
        /\ Part(list, k + 1, items[i])
    BY <1>1 DEF LaidOut, n
  <2>2. items[i] \in AnyText /\ i \in 0..n /\ i - 1 \in 0..n
    BY <1>2 DEF n
  <2>3. k \in Nat /\ Len(f[i]) <= Len(list) /\ Len(items[i]) \in Nat
    BY <1>2, <2>2 DEF AnyText
  <2> HIDE DEF k
  <2>4. Part(text, 1 + (k + 1), items[i])
    BY <1>2, <1>4, <2>1, <2>2, PartOfPart
  <2>5. text[1 + (k + 1)] = Comma
    <3>1. k + 1 <= Len(f[i])
      <4> DEFINE a == Len(f[i])
                 b == Len(items[i])
      <4>1. a = k + 1 + b
        BY <2>1
      <4>2. k \in Nat /\ b \in Nat
        BY <2>3
      <4> HIDE DEF a, b
      <4>3. k + 1 <= a
        BY <4>1, <4>2
      <4> QED
        BY <4>3 DEF a
    <3>2. Len(list) \in Nat
      BY <1>2
    <3>3. k + 1 <= Len(list)
      <4>1. Len(f[i]) \in Nat
        BY <1>2, <2>2
      <4> QED
        BY <2>3, <3>1, <3>2, <4>1
    <3>4. k + 1 \in 1..Len(list)
      BY <2>3, <3>2, <3>3
    <3> QED
      BY <1>4, <2>1, <3>4 DEF Part
  <2>6. 1 + (k + 1) = k + 2
    BY <2>3
  <2>7. text[k + 2] = Comma /\ Part(text, k + 2, items[i])
    BY <2>4, <2>5, <2>6, Zenon
  <2> QED
    BY <2>1, <2>7 DEF k
<1>7. Len(f[0]) = 0
  BY <1>2
<1>8. ItemsAt(text, f, items)
  BY <1>2, <1>4, <1>5, <1>6, <1>7 DEF ItemsAt, n
<1> QED
  BY <1>8 DEF text, list

\* The same, by where each begins.
ItemsFollow(text, g, items) ==
    /\ text \in AnyText /\ text[1] = OpenBrace /\ text[Len(text)] = CloseBrace
    /\ g[1] = 1
    /\ \A i \in 1..Len(items) : g[i] \in Nat /\ Part(text, g[i], items[i])
    /\ \A i \in 2..Len(items) : text[g[i]] = Comma /\ g[i] = g[i - 1] + Len(items[i - 1]) + 1
    /\ Len(text) = g[Len(items)] + Len(items[Len(items)]) + 1

\* Each begins behind the comma that ends the one before.
LEMMA ItemsOfObject ==
  ASSUME NEW items \in Seq(AnyText), Len(items) >= 1
  PROVE  \E g : ItemsFollow(Object(Listed(items)), g, items)
<1> DEFINE text == Object(Listed(items))
           n == Len(items)
<1>1. PICK f : ItemsAt(text, f, items)
  BY ObjectOfItems
<1> DEFINE g == [i \in 1..n |-> IF i = 1 THEN 1 ELSE Len(f[i - 1]) + 2]
<1> HIDE DEF text
<1>2. n \in Nat /\ n >= 1 /\ \A i \in 1..n : items[i] \in AnyText /\ Len(items[i]) \in Nat
  BY DEF AnyText
<1>3. /\ text \in AnyText
      /\ Len(text) = Len(f[n]) + 2
      /\ text[1] = OpenBrace /\ text[Len(f[n]) + 2] = CloseBrace
      /\ \A i \in 0..n : Len(f[i]) \in Nat
      /\ Part(text, 1, items[1]) /\ Len(f[1]) = Len(items[1])
      /\ \A i \in 2..n :
             /\ Len(f[i]) = Len(f[i - 1]) + 1 + Len(items[i])
             /\ text[Len(f[i - 1]) + 2] = Comma
             /\ Part(text, Len(f[i - 1]) + 2, items[i])
  BY <1>1, <1>2 DEF ItemsAt
<1> DEFINE F(i) == Len(f[i])
           L(i) == Len(items[i])
<1>4. /\ \A i \in 0..n : F(i) \in Nat
      /\ \A i \in 1..n : L(i) \in Nat
      /\ F(1) = L(1)
      /\ \A i \in 2..n : F(i) = F(i - 1) + 1 + L(i)
      /\ Len(text) = F(n) + 2
      /\ g = [i \in 1..n |-> IF i = 1 THEN 1 ELSE F(i - 1) + 2]
  BY <1>2, <1>3
<1> HIDE DEF F, L, g
<1>5. ASSUME NEW i \in 1..n PROVE g[i] \in Nat /\ g[i] + L(i) + 1 = F(i) + 2
  <2>1. CASE i = 1
    <3>1. g[i] = 1 /\ 1 \in 0..n
      BY <1>2, <1>4, <2>1
    <3> QED
      BY <1>4, <2>1, <3>1
  <2>2. CASE i # 1
    <3>1. i \in 2..n /\ i - 1 \in 0..n
      BY <1>2, <2>2
    <3>2. g[i] = F(i - 1) + 2
      BY <1>4, <2>2
    <3>3. F(i) = F(i - 1) + 1 + L(i) /\ F(i - 1) \in Nat /\ L(i) \in Nat
      BY <1>4, <3>1
    <3> QED
      BY <3>2, <3>3
  <2> QED
    BY <2>1, <2>2
<1>6. ASSUME NEW i \in 1..n PROVE Part(text, g[i], items[i])
  <2>1. CASE i = 1
    <3>1. g[i] = 1
      BY <1>4, <2>1
    <3> QED
      BY <1>3, <2>1, <3>1
  <2>2. CASE i # 1
    <3>1. i \in 2..n
      BY <1>2, <2>2
    <3>2. g[i] = Len(f[i - 1]) + 2
      BY <1>4, <2>2 DEF F
    <3>3. Part(text, Len(f[i - 1]) + 2, items[i])
      BY <1>3, <3>1
    <3> QED
      BY <3>2, <3>3, Zenon
  <2> QED
    BY <2>1, <2>2
<1>7. ASSUME NEW i \in 2..n PROVE text[g[i]] = Comma /\ g[i] = g[i - 1] + L(i - 1) + 1
  <2>1. i \in 1..n /\ i - 1 \in 1..n /\ i # 1
    BY <1>2
  <2>2. g[i] = Len(f[i - 1]) + 2 /\ g[i] = F(i - 1) + 2
    BY <1>4, <2>1 DEF F
  <2>3. text[Len(f[i - 1]) + 2] = Comma
    BY <1>3
  <2>4. text[g[i]] = Comma
    BY <2>2, <2>3, Zenon
  <2>5. g[i - 1] + L(i - 1) + 1 = F(i - 1) + 2
    BY <1>5, <2>1
  <2> QED
    BY <2>2, <2>4, <2>5
<1>8. g[1] = 1
  BY <1>2, <1>4
<1>9. Len(text) = g[n] + L(n) + 1
  <2>1. n \in 1..n
    BY <1>2
  <2>2. g[n] + L(n) + 1 = F(n) + 2
    BY <1>5, <2>1
  <2> QED
    BY <1>4, <2>2
<1>10. text[Len(text)] = CloseBrace
  BY <1>3
<1>11. ItemsFollow(text, g, items)
  BY <1>3, <1>5, <1>6, <1>7, <1>8, <1>9, <1>10 DEF ItemsFollow, L
<1> QED
  BY <1>11 DEF text

\* How a line's fields stand in its text, the label's key behind position o.
LineLaid(text, line, list, o) ==
    /\ text \in AnyText /\ line.label \in AnyText /\ list \in AnyText
    /\ o \in Nat /\ o >= 1 /\ Len(text) = o + Len(line.label) + Len(list) + 28
    /\ text[1] = OpenBrace /\ text[Len(text)] = CloseBrace
    /\ WrappedFieldAt(text, o, "label", Quote, line.label, Quote)
    /\ text[o + Len(line.label) + 7] = Comma
    /\ WrappedFieldAt(text, o + Len(line.label) + 7, "status", Quote, <<line.status>>, Quote)
    /\ text[o + Len(line.label) + 15] = Comma
    /\ NameAt(text, o + Len(line.label) + 15, "scrolling")
    /\ text[o + Len(line.label) + 20] = (IF line.scroll THEN "true" ELSE "false")
    /\ text[o + Len(line.label) + 21] = Comma
    /\ WrappedFieldAt(text, o + Len(line.label) + 21, "etas", "[", list, "]")

\* The strings of a line's arrival times, and its four last fields.
EtaTexts(line) == [i \in 1..Len(line.etas) |-> Str(line.etas[i])]

LastFields(line) ==
    <<Field("label", Str(line.label)), Field("status", Str(<<line.status>>)),
      Field("scrolling", <<IF line.scroll THEN "true" ELSE "false">>),
      Field("etas", Array(EtaTexts(line)))>>

\* A field whose value is a word.
LEMMA WordField ==
  ASSUME NEW name \in Words, NEW w \in Words
  PROVE  /\ Field(name, <<w>>) \in AnyText
         /\ Len(Field(name, <<w>>)) = 5
         /\ \A text \in AnyText : \A p : Part(text, p, Field(name, <<w>>)) =>
                NameAt(text, p, name) /\ text[p + 5] = w
<1>1. name \in Atoms /\ w \in Atoms
  BY MarksAreAtoms
<1>2. <<w>> \in AnyText /\ Len(<<w>>) = 1 /\ <<w>>[1] = w
  BY <1>1 DEF AnyText
<1>3. Field(name, <<w>>) \in AnyText /\ Len(Field(name, <<w>>)) = 4 + 1
  BY <1>1, <1>2, FieldIs
<1>4. ASSUME NEW text \in AnyText, NEW p, Part(text, p, Field(name, <<w>>))
      PROVE  NameAt(text, p, name) /\ text[p + 5] = w
  <2>1. FieldAt(text, p, name, <<w>>)
    BY <1>1, <1>2, <1>4, FieldPart
  <2>2. p \in Nat /\ Part(text, p + 4, <<w>>) /\ NameAt(text, p, name)
    BY <2>1 DEF FieldAt, NameAt
  <2>3. text[(p + 4) + 1] = w
    BY <1>1, <2>2, AtomAsPart
  <2>4. (p + 4) + 1 = p + 5
    BY <2>2
  <2> QED
    BY <2>2, <2>3, <2>4, Zenon
<1>5. 4 + 1 = 5
  OBVIOUS
<1> QED
  BY <1>3, <1>4, <1>5

\* The four fields are texts, with the lengths of what they hold.
FieldsMeasured(line, list, a, b, c, d) ==
    /\ line.label \in AnyText /\ list \in AnyText
    /\ a \in AnyText /\ Len(a) = Len(line.label) + 6
    /\ b \in AnyText /\ Len(b) = 7
    /\ c \in AnyText /\ Len(c) = 5
    /\ d \in AnyText /\ Len(d) = Len(list) + 6
    /\ \A text \in AnyText : \A p :
           /\ Part(text, p, a) => WrappedFieldAt(text, p, "label", Quote, line.label, Quote)
           /\ Part(text, p, b) => WrappedFieldAt(text, p, "status", Quote, <<line.status>>, Quote)
           /\ Part(text, p, c) => NameAt(text, p, "scrolling")
                                  /\ text[p + 5] = (IF line.scroll THEN "true" ELSE "false")
           /\ Part(text, p, d) => WrappedFieldAt(text, p, "etas", "[", list, "]")

\* The texts of the four fields have these measures.
LEMMA LastFieldsMeasured ==
  ASSUME NEW line, line.label \in AnyText, line.status \in {"ok", "delayed"},
         Listed(EtaTexts(line)) \in AnyText
  PROVE  FieldsMeasured(line, Listed(EtaTexts(line)),
             Field("label", Str(line.label)), Field("status", Str(<<line.status>>)),
             Field("scrolling", <<IF line.scroll THEN "true" ELSE "false">>),
             Field("etas", Array(EtaTexts(line))))
<1> DEFINE list == Listed(EtaTexts(line))
           tf == IF line.scroll THEN "true" ELSE "false"
           a == Field("label", Str(line.label))
           word == <<line.status>>
           b == Field("status", Str(word))
           c == Field("scrolling", <<tf>>)
           d == Field("etas", Array(EtaTexts(line)))
<1>1. /\ "label" \in Words /\ "status" \in Words /\ "scrolling" \in Words /\ "etas" \in Words
      /\ line.status \in Words /\ tf \in Words
  BY DEF Words
<1>2. /\ "label" \in Atoms /\ "status" \in Atoms /\ "scrolling" \in Atoms /\ "etas" \in Atoms
      /\ line.status \in Atoms
  BY <1>1, MarksAreAtoms
<1>3. word \in AnyText /\ Len(word) = 1
  BY <1>2 DEF AnyText
<1> HIDE DEF word
<1>4. Wrapped(Str(line.label), Quote, line.label, Quote)
  BY StrIsWrapped
<1>5. Wrapped(Str(word), Quote, word, Quote)
  BY <1>3, StrIsWrapped
<1>6. Wrapped(Array(EtaTexts(line)), "[", list, "]")
  BY ArrayIsWrapped
<1> HIDE DEF list
<1>7. a \in AnyText /\ Len(a) = Len(line.label) + 6
  BY <1>2, <1>4, WrappedFieldLength
<1>8. b \in AnyText /\ Len(b) = 7
  <2>1. b \in AnyText /\ Len(b) = Len(word) + 6
    BY <1>2, <1>5, WrappedFieldLength
  <2> QED
    BY <1>3, <2>1
<1>9. d \in AnyText /\ Len(d) = Len(list) + 6
  BY <1>2, <1>6, WrappedFieldLength
<1> HIDE DEF tf
<1>10. /\ c \in AnyText /\ Len(c) = 5
       /\ \A text \in AnyText : \A p : Part(text, p, c) =>
              NameAt(text, p, "scrolling") /\ text[p + 5] = tf
  BY <1>1, WordField
<1>11. ASSUME NEW text \in AnyText, NEW p
       PROVE  /\ Part(text, p, a) => WrappedFieldAt(text, p, "label", Quote, line.label, Quote)
              /\ Part(text, p, b) => WrappedFieldAt(text, p, "status", Quote, word, Quote)
              /\ Part(text, p, d) => WrappedFieldAt(text, p, "etas", "[", list, "]")
  <2>1. Part(text, p, a) => WrappedFieldAt(text, p, "label", Quote, line.label, Quote)
    BY <1>2, <1>4, FieldOfWrapped
  <2>2. Part(text, p, b) => WrappedFieldAt(text, p, "status", Quote, word, Quote)
    BY <1>2, <1>5, FieldOfWrapped
  <2>3. Part(text, p, d) => WrappedFieldAt(text, p, "etas", "[", list, "]")
    BY <1>2, <1>6, FieldOfWrapped
  <2> QED
    BY <2>1, <2>2, <2>3
<1>12. list \in AnyText
  BY DEF list
<1> HIDE DEF a, b, c, d
<1>13. FieldsMeasured(line, list, a, b, c, d)
  BY <1>7, <1>8, <1>9, <1>10, <1>11, <1>12 DEF FieldsMeasured, tf, word
<1> QED
  BY <1>13 DEF list, a, b, c, d, tf, word

\* Behind k items, the four fields begin where the next item does.
LEMMA LastFieldsLaid ==
  ASSUME NEW line, NEW list, NEW items \in Seq(AnyText), NEW text, NEW g,
         ItemsFollow(text, g, items), NEW k \in {0, 1}, Len(items) = k + 4,
         FieldsMeasured(line, list, items[k + 1], items[k + 2], items[k + 3], items[k + 4]),
         g[k + 1] >= 1
  PROVE  LineLaid(text, line, list, g[k + 1])
<1> DEFINE n == Len(line.label)
           o == g[k + 1]
           m == Len(list)
<1>1. n \in Nat /\ m \in Nat
  <2>1. line.label \in AnyText /\ list \in AnyText
    BY DEF FieldsMeasured
  <2> QED
    BY <2>1 DEF AnyText
<1>2. /\ k + 1 \in 1..Len(items) /\ k + 2 \in 2..Len(items) /\ k + 3 \in 2..Len(items)
      /\ k + 4 \in 2..Len(items)
      /\ k + 2 \in 1..Len(items) /\ k + 3 \in 1..Len(items) /\ k + 4 \in 1..Len(items)
      /\ (k + 2) - 1 = k + 1 /\ (k + 3) - 1 = k + 2 /\ (k + 4) - 1 = k + 3
  OBVIOUS
<1>3. /\ Len(items[k + 1]) = n + 6 /\ Len(items[k + 2]) = 7 /\ Len(items[k + 3]) = 5
      /\ Len(items[k + 4]) = m + 6
  BY DEF FieldsMeasured
<1>4. o \in Nat
  BY <1>2 DEF ItemsFollow
<1>5. /\ g[k + 2] = g[(k + 2) - 1] + Len(items[(k + 2) - 1]) + 1
      /\ g[k + 3] = g[(k + 3) - 1] + Len(items[(k + 3) - 1]) + 1
      /\ g[k + 4] = g[(k + 4) - 1] + Len(items[(k + 4) - 1]) + 1
      /\ text[g[k + 2]] = Comma /\ text[g[k + 3]] = Comma /\ text[g[k + 4]] = Comma
  BY <1>2 DEF ItemsFollow
<1>6. /\ g[k + 2] = o + Len(items[k + 1]) + 1
      /\ g[k + 3] = g[k + 2] + Len(items[k + 2]) + 1
      /\ g[k + 4] = g[k + 3] + Len(items[k + 3]) + 1
  BY <1>2, <1>5, Zenon
<1> DEFINE L(i) == Len(items[i])
           G(i) == g[i]
<1>7. /\ G(k + 2) = o + n + 7 /\ G(k + 3) = o + n + 15 /\ G(k + 4) = o + n + 21
      /\ G(k + 4) + L(k + 4) + 1 = o + n + m + 28
  <2>1. /\ L(k + 1) = n + 6 /\ L(k + 2) = 7 /\ L(k + 3) = 5 /\ L(k + 4) = m + 6
        /\ G(k + 2) = o + L(k + 1) + 1
        /\ G(k + 3) = G(k + 2) + L(k + 2) + 1
        /\ G(k + 4) = G(k + 3) + L(k + 3) + 1
    BY <1>3, <1>6, Zenon
  <2> HIDE DEF L, G, o, n, m
  <2>2. G(k + 2) = o + n + 7
    BY <1>1, <1>4, <2>1
  <2>3. G(k + 3) = o + n + 15
    BY <1>1, <1>4, <2>1, <2>2
  <2>4. G(k + 4) = o + n + 21
    BY <1>1, <1>4, <2>1, <2>3
  <2>5. G(k + 4) + L(k + 4) + 1 = o + n + m + 28
    BY <1>1, <1>4, <2>1, <2>4
  <2> QED
    BY <2>2, <2>3, <2>4, <2>5
<1>9. /\ g[k + 2] = o + n + 7 /\ g[k + 3] = o + n + 15 /\ g[k + 4] = o + n + 21
      /\ g[k + 4] + Len(items[k + 4]) + 1 = o + n + m + 28
  BY <1>7, Zenon DEF L, G
<1>10. /\ Part(text, o, items[k + 1]) /\ Part(text, g[k + 2], items[k + 2])
       /\ Part(text, g[k + 3], items[k + 3]) /\ Part(text, g[k + 4], items[k + 4])
  BY <1>2 DEF ItemsFollow
<1>11. /\ text \in AnyText /\ text[1] = OpenBrace /\ text[Len(text)] = CloseBrace
       /\ Len(text) = g[Len(items)] + Len(items[Len(items)]) + 1
  BY DEF ItemsFollow
<1>12. Len(text) = o + n + m + 28
  BY <1>9, <1>11, Zenon
<1>13. /\ WrappedFieldAt(text, o, "label", Quote, line.label, Quote)
       /\ WrappedFieldAt(text, g[k + 2], "status", Quote, <<line.status>>, Quote)
       /\ NameAt(text, g[k + 3], "scrolling")
       /\ text[g[k + 3] + 5] = (IF line.scroll THEN "true" ELSE "false")
       /\ WrappedFieldAt(text, g[k + 4], "etas", "[", list, "]")
  BY <1>10, <1>11 DEF FieldsMeasured
<1>14. /\ WrappedFieldAt(text, o + n + 7, "status", Quote, <<line.status>>, Quote)
       /\ NameAt(text, o + n + 15, "scrolling")
       /\ text[o + n + 20] = (IF line.scroll THEN "true" ELSE "false")
       /\ WrappedFieldAt(text, o + n + 21, "etas", "[", list, "]")
  <2>1. (o + n + 15) + 5 = o + n + 20
    BY <1>1, <1>4
  <2> QED
    BY <1>9, <1>13, <2>1, Zenon
<1>15. text[o + n + 7] = Comma /\ text[o + n + 15] = Comma /\ text[o + n + 21] = Comma
  BY <1>5, <1>9, Zenon
<1>16. line.label \in AnyText /\ list \in AnyText
  BY DEF FieldsMeasured
<1> QED
  BY <1>4, <1>11, <1>12, <1>13, <1>14, <1>15, <1>16 DEF LineLaid

\* What the badge's object says, and how it does.
BadgeValue(badge) ==
    Object(Listed(<<Field("shape", Str(<<badge.shape>>)), Field("text", Str(badge.text))>>))

BadgeBody(v, badge) ==
    /\ v \in AnyText /\ badge.text \in AnyText
    /\ Len(v) = Len(badge.text) + 16
    /\ v[1] = OpenBrace /\ v[Len(badge.text) + 16] = CloseBrace
    /\ WrappedFieldAt(v, 1, "shape", Quote, <<badge.shape>>, Quote)
    /\ v[9] = Comma
    /\ WrappedFieldAt(v, 9, "text", Quote, badge.text, Quote)

\* BadgeText() writes it so.
LEMMA BadgeIsWritten ==
  ASSUME NEW badge, badge.text \in AnyText, badge.shape \in {"circle", "pill"}
  PROVE  BadgeBody(BadgeValue(badge), badge)
<1> DEFINE word == <<badge.shape>>
           a == Field("shape", Str(word))
           b == Field("text", Str(badge.text))
           items == <<a, b>>
           k == Len(badge.text)
           v == Object(Listed(items))
<1>1. "shape" \in Atoms /\ "text" \in Atoms /\ badge.shape \in Atoms
  BY MarksAreAtoms DEF Words
<1>2. word \in AnyText /\ Len(word) = 1 /\ k \in Nat
  BY <1>1 DEF AnyText
<1> HIDE DEF word
<1>3. Wrapped(Str(word), Quote, word, Quote) /\ Wrapped(Str(badge.text), Quote, badge.text, Quote)
  BY <1>2, StrIsWrapped
<1>4. a \in AnyText /\ Len(a) = Len(word) + 6
  BY <1>1, <1>3, WrappedFieldLength
<1>5. b \in AnyText /\ Len(b) = Len(badge.text) + 6
  BY <1>1, <1>3, WrappedFieldLength
<1>6. /\ \A text \in AnyText : \A p : Part(text, p, a) => WrappedFieldAt(text, p, "shape", Quote, word, Quote)
      /\ \A text \in AnyText : \A p :
             Part(text, p, b) => WrappedFieldAt(text, p, "text", Quote, badge.text, Quote)
  BY <1>1, <1>3, FieldOfWrapped
<1>7. Len(a) = 7 /\ Len(b) = k + 6
  BY <1>2, <1>4, <1>5
<1>20. a \in AnyText /\ b \in AnyText
  BY <1>4, <1>5
<1> HIDE DEF a, b, k
<1>8. items \in Seq(AnyText) /\ Len(items) = 2 /\ items[1] = a /\ items[2] = b
  <2>1. items \in Seq(AnyText)
    BY <1>20
  <2>2. Len(items) = 2 /\ items[1] = a /\ items[2] = b
    OBVIOUS
  <2> QED
    BY <2>1, <2>2, Zenon
<1> HIDE DEF items
<1>9. PICK g : ItemsFollow(v, g, items)
  <2>1. items \in Seq(AnyText) /\ Len(items) >= 1
    BY <1>8
  <2>2. \E g : ItemsFollow(Object(Listed(items)), g, items)
    BY <2>1, ItemsOfObject
  <2> QED
    BY <2>2
<1> HIDE DEF v
<1>10. 1 \in 1..Len(items) /\ 2 \in 1..Len(items) /\ 2 \in 2..Len(items) /\ 2 - 1 = 1
  BY <1>8
<1>11. /\ v \in AnyText /\ v[1] = OpenBrace /\ v[Len(v)] = CloseBrace
       /\ g[1] = 1
       /\ Part(v, g[1], items[1]) /\ Part(v, g[2], items[2])
       /\ v[g[2]] = Comma /\ g[2] = g[2 - 1] + Len(items[2 - 1]) + 1
       /\ Len(v) = g[Len(items)] + Len(items[Len(items)]) + 1
  BY <1>9, <1>10 DEF ItemsFollow
<1>12. g[2] = 1 + 7 + 1 /\ Len(v) = g[2] + (k + 6) + 1
  BY <1>7, <1>8, <1>10, <1>11, Zenon
<1>13. 1 + 7 + 1 = 9 /\ 9 + (k + 6) + 1 = k + 16
  BY <1>2 DEF k
<1>14. g[2] = 9 /\ Len(v) = k + 16
  BY <1>12, <1>13, Zenon
<1>15. Part(v, 1, a) /\ Part(v, 9, b) /\ v[9] = Comma /\ v[k + 16] = CloseBrace
  BY <1>8, <1>11, <1>14, Zenon
<1>16. WrappedFieldAt(v, 1, "shape", Quote, word, Quote)
  BY <1>6, <1>11, <1>15
<1>17. WrappedFieldAt(v, 9, "text", Quote, badge.text, Quote)
  BY <1>6, <1>11, <1>15
<1>18. BadgeBody(v, badge)
  BY <1>11, <1>14, <1>15, <1>16, <1>17 DEF BadgeBody, k, word
<1>19. v = BadgeValue(badge)
  BY Zenon DEF v, items, a, b, word, BadgeValue
<1> QED
  BY <1>18, <1>19, Zenon

\* A field of a part is a field further on.
LEMMA FieldMoves ==
  ASSUME NEW text \in AnyText, NEW q, NEW v \in AnyText, NEW p, NEW name, NEW x, NEW s, NEW y,
         Part(text, q, v), WrappedFieldAt(v, p, name, x, s, y)
  PROVE  WrappedFieldAt(text, q + p, name, x, s, y)
<1> DEFINE n == Len(s)
<1>1. /\ p \in Nat /\ s \in AnyText /\ p + n + 6 <= Len(v)
      /\ v[p + 1] = Quote /\ v[p + 2] = name /\ v[p + 3] = Quote /\ v[p + 4] = ":"
      /\ v[p + 5] = x /\ Part(v, p + 5, s) /\ v[p + n + 6] = y
  BY DEF WrappedFieldAt, NameAt
<1>2. n \in Nat /\ Len(v) \in Nat /\ Len(text) \in Nat
  BY <1>1 DEF AnyText
<1>3. q \in Nat /\ q + Len(v) <= Len(text) /\ \A i \in 1..Len(v) : text[q + i] = v[i]
  BY DEF Part
<1>4. Part(text, q + (p + 5), s)
  BY <1>1, PartOfPart
<1> HIDE DEF n
<1>5. /\ p + 1 \in 1..Len(v) /\ p + 2 \in 1..Len(v) /\ p + 3 \in 1..Len(v) /\ p + 4 \in 1..Len(v)
      /\ p + 5 \in 1..Len(v) /\ p + n + 6 \in 1..Len(v)
  <2> DEFINE lv == Len(v)
  <2>1. lv \in Nat /\ p + n + 6 <= lv
    BY <1>1, <1>2
  <2> HIDE DEF lv
  <2>2. /\ p + 1 \in 1..lv /\ p + 2 \in 1..lv /\ p + 3 \in 1..lv /\ p + 4 \in 1..lv
        /\ p + 5 \in 1..lv /\ p + n + 6 \in 1..lv
    BY <1>1, <1>2, <2>1
  <2> QED
    BY <2>2 DEF lv
<1>6. /\ q + (p + 1) = (q + p) + 1 /\ q + (p + 2) = (q + p) + 2 /\ q + (p + 3) = (q + p) + 3
      /\ q + (p + 4) = (q + p) + 4 /\ q + (p + 5) = (q + p) + 5
      /\ q + (p + n + 6) = (q + p) + n + 6
  BY <1>1, <1>2, <1>3
<1>7. /\ text[q + (p + 1)] = Quote /\ text[q + (p + 2)] = name /\ text[q + (p + 3)] = Quote
      /\ text[q + (p + 4)] = ":" /\ text[q + (p + 5)] = x /\ text[q + (p + n + 6)] = y
  BY <1>1, <1>3, <1>5
<1>8. /\ text[(q + p) + 1] = Quote /\ text[(q + p) + 2] = name /\ text[(q + p) + 3] = Quote
      /\ text[(q + p) + 4] = ":" /\ text[(q + p) + 5] = x /\ text[(q + p) + n + 6] = y
      /\ Part(text, (q + p) + 5, s)
  BY <1>4, <1>6, <1>7, Zenon
<1>9. q + p \in Nat /\ (q + p) + n + 6 <= Len(text)
  <2> DEFINE lv == Len(v)
             lt == Len(text)
  <2>1. lv \in Nat /\ lt \in Nat /\ p + n + 6 <= lv /\ q + lv <= lt
    BY <1>1, <1>2, <1>3
  <2> HIDE DEF lv, lt
  <2>2. q + p \in Nat /\ (q + p) + n + 6 <= lt
    BY <1>1, <1>2, <1>3, <2>1
  <2> QED
    BY <2>2 DEF lt
<1> QED
  BY <1>1, <1>8, <1>9 DEF WrappedFieldAt, NameAt, n

\* A line of texts.
IsLine(line) ==
    /\ line.label \in AnyText
    /\ line.status \in {"ok", "delayed"}
    /\ line.scroll \in BOOLEAN
    /\ line.etas \in Seq(AnyText)
    /\ \/ line.badge = NoBadge
       \/ line.badge.shape \in {"circle", "pill"} /\ line.badge.text \in AnyText /\ line.badge # NoBadge

\* Every line the server may write is one.
LEMMA PossibleIsLine ==
  ASSUME NEW line \in PossibleLines
  PROVE  IsLine(line)
<1>1. Seq(STRING) \subseteq AnyText
  <2>1. ASSUME NEW s \in Seq(STRING) PROVE s \in Seq(Atoms)
    <3>1. ASSUME NEW i \in 1..Len(s) PROVE s[i] \in Atoms
      <4>1. s[i] \in STRING
        OBVIOUS
      <4>2. STRING \subseteq Atoms
        BY MarksAreAtoms
      <4> QED
        BY <4>1, <4>2, Zenon
    <3>2. s = [i \in 1..Len(s) |-> s[i]] /\ Len(s) \in Nat
      OBVIOUS
    <3> QED
      BY <3>1, <3>2
  <2> QED
    BY <2>1 DEF AnyText
<1>2. Seq(Seq(STRING)) \subseteq Seq(AnyText)
  <2>1. ASSUME NEW s \in Seq(Seq(STRING)) PROVE s \in Seq(AnyText)
    <3>1. \A i \in 1..Len(s) : s[i] \in AnyText
      BY <1>1
    <3>2. s = [i \in 1..Len(s) |-> s[i]] /\ Len(s) \in Nat
      OBVIOUS
    <3> QED
      BY <3>1, <3>2
  <2> QED
    BY <2>1
<1>3. /\ line.label \in Seq(STRING) /\ line.status \in {"ok", "delayed"} /\ line.scroll \in BOOLEAN
      /\ line.etas \in Seq(Seq(STRING))
      /\ line.badge \in {NoBadge} \cup [shape : {"circle", "pill"}, text : Seq(STRING)]
  BY DEF PossibleLines
<1>4. line.badge = NoBadge \/
      (line.badge.shape \in {"circle", "pill"} /\ line.badge.text \in Seq(STRING))
  BY <1>3
<1> QED
  BY <1>1, <1>2, <1>3, <1>4 DEF IsLine

\* The strings in quotes are texts, and so is their list.
LEMMA EtaTextsAre ==
  ASSUME NEW line, line.etas \in Seq(AnyText)
  PROVE  /\ EtaTexts(line) \in Seq(AnyText)
         /\ Len(EtaTexts(line)) = Len(line.etas)
         /\ \A i \in 1..Len(line.etas) : EtaTexts(line)[i] = Str(line.etas[i])
         /\ Listed(EtaTexts(line)) \in AnyText
<1> DEFINE n == Len(line.etas)
           t(i) == Str(line.etas[i])
<1>1. n \in Nat /\ \A i \in 1..n : line.etas[i] \in AnyText
  OBVIOUS
<1>2. \A i \in 1..n : t(i) \in AnyText
  BY <1>1, StrIsWrapped DEF Wrapped
<1>3. EtaTexts(line) = [i \in 1..n |-> t(i)]
  BY DEF EtaTexts
<1> HIDE DEF n, t
<1>4. EtaTexts(line) \in Seq(AnyText) /\ Len(EtaTexts(line)) = n
      /\ \A i \in 1..n : EtaTexts(line)[i] = t(i)
  BY <1>1, <1>2, <1>3
<1>5. \E f : LaidOut(Listed(EtaTexts(line)), f, EtaTexts(line))
  BY <1>4, ListedIsLaidOut
<1> QED
  BY <1>4, <1>5 DEF LaidOut, n, t

\* LineText() without a badge.
LEMMA LineWithoutBadge ==
  ASSUME NEW line, IsLine(line), line.badge = NoBadge
  PROVE  LineLaid(LineText(line), line, Listed(EtaTexts(line)), 1)
<1> DEFINE list == Listed(EtaTexts(line))
           a == Field("label", Str(line.label))
           b == Field("status", Str(<<line.status>>))
           c == Field("scrolling", <<IF line.scroll THEN "true" ELSE "false">>)
           d == Field("etas", Array(EtaTexts(line)))
           items == <<a, b, c, d>>
<1>1. line.label \in AnyText /\ line.status \in {"ok", "delayed"} /\ list \in AnyText
  BY EtaTextsAre DEF IsLine
<1>2. FieldsMeasured(line, list, a, b, c, d)
  BY <1>1, LastFieldsMeasured
<1>3. LineText(line) = Object(Listed(<<>> \o items))
  BY Zenon DEF LineText, BadgeText, EtaTexts
<1>4. a \in AnyText /\ b \in AnyText /\ c \in AnyText /\ d \in AnyText
  BY <1>2 DEF FieldsMeasured
<1> HIDE DEF a, b, c, d, list
<1>5. /\ <<>> \o items = items /\ items \in Seq(AnyText) /\ Len(items) = 4
      /\ items[1] = a /\ items[2] = b /\ items[3] = c /\ items[4] = d
  BY <1>4
<1> HIDE DEF items
<1>6. PICK g : ItemsFollow(Object(Listed(items)), g, items)
  <2>1. items \in Seq(AnyText) /\ Len(items) >= 1
    BY <1>5
  <2> QED
    BY <2>1, ItemsOfObject
<1>7. g[1] = 1
  BY <1>6 DEF ItemsFollow
<1>8. 0 + 1 = 1 /\ 0 + 2 = 2 /\ 0 + 3 = 3 /\ 0 + 4 = 4 /\ 0 \in {0, 1}
  OBVIOUS
<1>9. /\ Len(items) = 0 + 4
      /\ FieldsMeasured(line, list, items[0 + 1], items[0 + 2], items[0 + 3], items[0 + 4])
      /\ g[0 + 1] = 1
  BY <1>2, <1>5, <1>7, <1>8, Zenon
<1>10. LineLaid(Object(Listed(items)), line, list, g[0 + 1])
  <2>1. g[0 + 1] >= 1
    BY <1>9
  <2> QED
    BY <1>5, <1>6, <1>8, <1>9, <2>1, LastFieldsLaid
<1>11. LineText(line) = Object(Listed(items))
  BY <1>3, <1>5, Zenon
<1>12. LineLaid(LineText(line), line, list, 1)
  BY <1>9, <1>10, <1>11, Zenon
<1> QED
  BY <1>12 DEF list

\* A badge before the label, its object behind position 5.
BadgeLaid(text, badge) ==
    /\ NameAt(text, 1, "badge")
    /\ Part(text, 5, BadgeValue(badge))
    /\ BadgeBody(BadgeValue(badge), badge)
    /\ text[Len(badge.text) + 22] = Comma

\* LineText() with a badge.
LEMMA LineWithBadge ==
  ASSUME NEW line, IsLine(line), line.badge # NoBadge
  PROVE  /\ LineLaid(LineText(line), line, Listed(EtaTexts(line)), Len(line.badge.text) + 22)
         /\ BadgeLaid(LineText(line), line.badge)
<1> DEFINE list == Listed(EtaTexts(line))
           k == Len(line.badge.text)
           v == BadgeValue(line.badge)
           z == Field("badge", v)
           a == Field("label", Str(line.label))
           b == Field("status", Str(<<line.status>>))
           c == Field("scrolling", <<IF line.scroll THEN "true" ELSE "false">>)
           d == Field("etas", Array(EtaTexts(line)))
           last == <<a, b, c, d>>
           items == <<z, a, b, c, d>>
<1>1. line.label \in AnyText /\ line.status \in {"ok", "delayed"} /\ list \in AnyText
  BY EtaTextsAre DEF IsLine
<1>2. FieldsMeasured(line, list, a, b, c, d)
  BY <1>1, LastFieldsMeasured
<1>3. LineText(line) = Object(Listed(<<z>> \o last))
  BY Zenon DEF LineText, BadgeText, EtaTexts, BadgeValue
<1>4. a \in AnyText /\ b \in AnyText /\ c \in AnyText /\ d \in AnyText
  BY <1>2 DEF FieldsMeasured
<1>5. BadgeBody(v, line.badge) /\ k \in Nat
  BY BadgeIsWritten DEF IsLine, AnyText
<1>6. v \in AnyText /\ Len(v) = k + 16
  BY <1>5 DEF BadgeBody
<1>7. "badge" \in Atoms
  BY MarksAreAtoms DEF Words
<1>8. z \in AnyText /\ Len(z) = k + 20
  <2>1. z \in AnyText /\ Len(z) = 4 + Len(v)
    BY <1>6, <1>7, FieldIs
  <2>2. 4 + (k + 16) = k + 20
    BY <1>5
  <2> QED
    BY <1>6, <2>1, <2>2, Zenon
<1>9. \A text \in AnyText : \A p : Part(text, p, z) => FieldAt(text, p, "badge", v)
  BY <1>6, <1>7, FieldPart
<1> HIDE DEF a, b, c, d, list, z, k, v
<1>10. /\ <<z>> \o last = items /\ items \in Seq(AnyText) /\ Len(items) = 5
       /\ items[1] = z /\ items[2] = a /\ items[3] = b /\ items[4] = c /\ items[5] = d
  <2>1. /\ items \in Seq(AnyText) /\ Len(items) = 5
        /\ items[1] = z /\ items[2] = a /\ items[3] = b /\ items[4] = c /\ items[5] = d
    BY <1>4, <1>8
  <2>2. <<z>> \o last = items
    <3> DEFINE one == <<z>>
               ol == one \o last
    <3>2. /\ one \in Seq(AnyText) /\ Len(one) = 1 /\ one[1] = z
          /\ last \in Seq(AnyText) /\ Len(last) = 4
          /\ last[1] = a /\ last[2] = b /\ last[3] = c /\ last[4] = d
      BY <1>4, <1>8
    <3> HIDE DEF one, last, items
    <3>3. /\ ol \in Seq(AnyText) /\ Len(ol) = 5
          /\ \A i \in 1..5 : ol[i] = IF i <= 1 THEN one[i] ELSE last[i - 1]
      <4>1. /\ ol \in Seq(AnyText) /\ Len(ol) = Len(one) + Len(last)
            /\ \A i \in 1..(Len(one) + Len(last)) :
                   ol[i] = IF i <= Len(one) THEN one[i] ELSE last[i - Len(one)]
        BY <3>2, ConcatProperties
      <4>2. Len(one) + Len(last) = 5
        BY <3>2
      <4> HIDE DEF ol
      <4> QED
        BY <3>2, <4>1, <4>2, Zenon
    <3> HIDE DEF ol
    <3>4. ol[1] = z /\ ol[2] = a /\ ol[3] = b /\ ol[4] = c /\ ol[5] = d
      BY <3>2, <3>3
    <3>5. \A i \in 1..Len(ol) : ol[i] = items[i]
      BY <2>1, <3>3, <3>4
    <3>6. ol = items
      BY <2>1, <3>3, <3>5, SeqEqual
    <3> QED
      BY <3>6 DEF ol, one
  <2> QED
    BY <2>1, <2>2
<1> HIDE DEF items, last
<1> DEFINE text == Object(Listed(items))
<1>11. PICK g : ItemsFollow(text, g, items)
  BY <1>10, ItemsOfObject
<1> HIDE DEF text
<1>12. 1 \in 1..Len(items) /\ 2 \in 2..Len(items) /\ 2 - 1 = 1
  BY <1>10
<1>13. /\ text \in AnyText /\ g[1] = 1 /\ Part(text, g[1], items[1])
       /\ text[g[2]] = Comma /\ g[2] = g[2 - 1] + Len(items[2 - 1]) + 1
  BY <1>11, <1>12 DEF ItemsFollow
<1>14. g[2] = 1 + (k + 20) + 1
  BY <1>8, <1>10, <1>12, <1>13, Zenon
<1>15. g[2] = k + 22 /\ g[2] >= 1
  BY <1>5, <1>14 DEF k
<1>16. Part(text, 1, z) /\ text[k + 22] = Comma
  BY <1>10, <1>13, <1>15, Zenon
<1>17. FieldAt(text, 1, "badge", v)
  BY <1>9, <1>13, <1>16
<1>18. NameAt(text, 1, "badge") /\ Part(text, 5, v)
  <2>1. 1 + 1 = 2 /\ 1 + 2 = 3 /\ 1 + 3 = 4 /\ 1 + 4 = 5
    OBVIOUS
  <2>2. NameAt(text, 1, "badge") /\ Part(text, 1 + 4, v)
    BY <1>17 DEF FieldAt, NameAt
  <2> QED
    BY <2>1, <2>2, Zenon
<1>19. BadgeLaid(text, line.badge)
  BY <1>5, <1>16, <1>18 DEF BadgeLaid, k, v
<1>20. 1 + 1 = 2 /\ 1 + 2 = 3 /\ 1 + 3 = 4 /\ 1 + 4 = 5 /\ 1 \in {0, 1}
  OBVIOUS
<1>21. /\ Len(items) = 1 + 4
       /\ FieldsMeasured(line, list, items[1 + 1], items[1 + 2], items[1 + 3], items[1 + 4])
       /\ g[1 + 1] = k + 22
  BY <1>2, <1>10, <1>15, <1>20, Zenon
<1>22. LineLaid(text, line, list, g[1 + 1])
  <2>1. g[1 + 1] >= 1
    BY <1>15, <1>20, Zenon
  <2> QED
    BY <1>10, <1>11, <1>20, <1>21, <2>1, LastFieldsLaid
<1>23. LineText(line) = text
  BY <1>3, <1>10, Zenon DEF text
<1>24. LineLaid(LineText(line), line, list, k + 22) /\ BadgeLaid(LineText(line), line.badge)
  BY <1>19, <1>21, <1>22, <1>23, Zenon
<1> QED
  BY <1>24 DEF list, k

(***************************************************************************)
(* A line whose strings are harmless is an item.                           *)
(***************************************************************************)
\* A string's brackets pair up, in whichever kind they are counted.
LEMMA HarmlessIsQuiet ==
  ASSUME NEW content \in AnyText, Harmless(content)
  PROVE  Quiet(content, Opens, Closes) /\ IsPlain(content)
<1>1. DOMAIN content = 1..Len(content)
  BY DEF AnyText
<1> QED
  BY <1>1 DEF Harmless, Quiet, IsPlain

\* The badge's object is closed by its last brace.
LEMMA BadgeEncloses ==
  ASSUME NEW badge, badge.shape \in {"circle", "pill"}, NEW opens, NEW closes, Kinds(opens, closes),
         Quiet(badge.text, opens, closes)
  PROVE  Enclosed(BadgeValue(badge), opens, closes)
<1> DEFINE a == Field("shape", Str(<<badge.shape>>))
           b == Field("text", Str(badge.text))
           items == <<a, b>>
<1>1. "shape" \in Words /\ "text" \in Words /\ badge.shape \in Words
  BY DEF Words
<1>2. Quiet(Str(<<badge.shape>>), opens, closes)
  BY <1>1, QuietWord, QuietStr
<1>3. Quiet(a, opens, closes)
  BY <1>1, <1>2, QuietField
<1>4. Quiet(Str(badge.text), opens, closes)
  BY QuietStr
<1>5. Quiet(b, opens, closes)
  BY <1>1, <1>4, QuietField
<1> HIDE DEF a, b
<1>6. a \in AnyText /\ b \in AnyText
  BY <1>3, <1>5 DEF Quiet
<1>7. items \in Seq(AnyText) /\ Len(items) = 2 /\ items[1] = a /\ items[2] = b
  BY <1>6
<1> HIDE DEF items
<1>8. \A i \in 1..Len(items) : Quiet(items[i], opens, closes)
  <2>1. \A i \in 1..Len(items) : i = 1 \/ i = 2
    BY <1>7
  <2> QED
    BY <1>3, <1>5, <1>7, <2>1
<1>9. Quiet(Listed(items), opens, closes)
  BY <1>7, <1>8, QuietListed
<1>10. Enclosed(Object(Listed(items)), opens, closes)
  BY <1>9, ObjectEncloses
<1> QED
  BY <1>10, Zenon DEF BadgeValue, items, a, b

\* Fields that pair up, listed.
QuietItems(items) ==
    /\ items \in Seq(AnyText)
    /\ \A i \in 1..Len(items) : Quiet(items[i], Opens, Closes)

\* One list behind another.
LEMMA QuietItemsConcat ==
  ASSUME NEW a, NEW b, QuietItems(a), QuietItems(b)
  PROVE  QuietItems(a \o b)
<1>1. a \in Seq(AnyText) /\ b \in Seq(AnyText) /\ Len(a) \in Nat /\ Len(b) \in Nat
  BY DEF QuietItems
<1>2. /\ a \o b \in Seq(AnyText) /\ Len(a \o b) = Len(a) + Len(b)
      /\ \A i \in 1..(Len(a) + Len(b)) : (a \o b)[i] = IF i <= Len(a) THEN a[i] ELSE b[i - Len(a)]
  BY <1>1, ConcatProperties
<1>3. ASSUME NEW i \in 1..(Len(a) + Len(b)) PROVE Quiet((a \o b)[i], Opens, Closes)
  <2>1. CASE i <= Len(a)
    <3>1. i \in 1..Len(a) /\ (a \o b)[i] = a[i]
      BY <1>1, <1>2, <2>1
    <3> QED
      BY <3>1 DEF QuietItems
  <2>2. CASE ~(i <= Len(a))
    <3>1. i - Len(a) \in 1..Len(b) /\ (a \o b)[i] = b[i - Len(a)]
      BY <1>1, <1>2, <2>2
    <3> QED
      BY <3>1 DEF QuietItems
  <2> QED
    BY <2>1, <2>2
<1> QED
  BY <1>2, <1>3 DEF QuietItems

\* The line's own brackets close where it ends.
LEMMA LineIsItem ==
  ASSUME NEW line, IsLine(line), \A content \in Strings(line) : Harmless(content)
  PROVE  IsItem(LineText(line))
<1> DEFINE a == Field("label", Str(line.label))
           b == Field("status", Str(<<line.status>>))
           tf == IF line.scroll THEN "true" ELSE "false"
           c == Field("scrolling", <<tf>>)
           d == Field("etas", Array(EtaTexts(line)))
           last == <<a, b, c, d>>
<1>1. Kinds(Opens, Closes)
  BY DEF Kinds
<1>2. /\ "label" \in Words /\ "status" \in Words /\ "scrolling" \in Words /\ "etas" \in Words
      /\ "badge" \in Words /\ line.status \in Words /\ tf \in Words
  BY DEF Words, IsLine
<1>3. line.label \in Strings(line) /\ line.badge.text \in Strings(line)
  BY DEF Strings
<1>4. Quiet(a, Opens, Closes)
  <2>1. Quiet(line.label, Opens, Closes)
    BY <1>3, HarmlessIsQuiet DEF IsLine
  <2> QED
    BY <1>1, <1>2, <2>1, QuietStr, QuietField
<1>5. Quiet(b, Opens, Closes)
  <2>1. Quiet(<<line.status>>, Opens, Closes)
    BY <1>1, <1>2, QuietWord
  <2> QED
    BY <1>1, <1>2, <2>1, QuietStr, QuietField
<1>6. Quiet(c, Opens, Closes)
  <2>1. Quiet(<<tf>>, Opens, Closes)
    BY <1>1, <1>2, QuietWord
  <2> HIDE DEF tf
  <2> QED
    BY <1>1, <1>2, <2>1, QuietField
<1>7. Quiet(Listed(EtaTexts(line)), Opens, Closes)
  <2>1. line.etas \in Seq(AnyText)
    BY DEF IsLine
  <2>2. /\ EtaTexts(line) \in Seq(AnyText)
        /\ Len(EtaTexts(line)) = Len(line.etas)
        /\ \A i \in 1..Len(line.etas) : EtaTexts(line)[i] = Str(line.etas[i])
    BY <2>1, EtaTextsAre
  <2>3. ASSUME NEW i \in 1..Len(line.etas) PROVE Quiet(Str(line.etas[i]), Opens, Closes)
    <3>1. line.etas[i] \in AnyText /\ i \in DOMAIN line.etas
      BY <2>1
    <3>2. line.etas[i] \in Strings(line)
      BY <3>1 DEF Strings
    <3>3. Quiet(line.etas[i], Opens, Closes)
      BY <3>1, <3>2, HarmlessIsQuiet
    <3> QED
      BY <1>1, <3>3, QuietStr
  <2>4. \A i \in 1..Len(EtaTexts(line)) : Quiet(EtaTexts(line)[i], Opens, Closes)
    BY <2>2, <2>3
  <2> QED
    BY <1>1, <2>2, <2>4, QuietListed
<1>8. Quiet(d, Opens, Closes)
  <2> DEFINE array == <<"[">> \o Listed(EtaTexts(line)) \o <<"]">>
  <2>1. Enclosed(array, Opens, Closes)
    BY <1>7, BracketsEnclose
  <2>2. Quiet(array, Opens, Closes)
    <3> HIDE DEF array
    <3> QED
      BY <2>1, EnclosedIsQuiet
  <2>3. array = Array(EtaTexts(line))
    BY Zenon DEF Array
  <2>4. Quiet(Array(EtaTexts(line)), Opens, Closes)
    BY <2>2, <2>3, Zenon
  <2> QED
    BY <1>1, <1>2, <2>4, QuietField
<1>9. QuietItems(last)
  <2> HIDE DEF a, b, c, d
  <2>1. a \in AnyText /\ b \in AnyText /\ c \in AnyText /\ d \in AnyText
    BY <1>4, <1>5, <1>6, <1>8 DEF Quiet
  <2>2. /\ last \in Seq(AnyText) /\ Len(last) = 4
        /\ last[1] = a /\ last[2] = b /\ last[3] = c /\ last[4] = d
    BY <2>1
  <2> HIDE DEF last
  <2>3. \A i \in 1..Len(last) : i = 1 \/ i = 2 \/ i = 3 \/ i = 4
    BY <2>2
  <2> QED
    BY <1>4, <1>5, <1>6, <1>8, <2>2, <2>3 DEF QuietItems
<1>10. QuietItems(BadgeText(line.badge))
  <2>1. CASE line.badge = NoBadge
    <3>1. BadgeText(line.badge) = <<>>
      BY <2>1 DEF BadgeText
    <3> QED
      BY <3>1 DEF QuietItems
  <2>2. CASE line.badge # NoBadge
    <3> DEFINE z == Field("badge", BadgeValue(line.badge))
               zs == <<z>>
    <3>1. BadgeText(line.badge) = zs
      BY <2>2, Zenon DEF BadgeText, BadgeValue
    <3>2. line.badge.shape \in {"circle", "pill"} /\ line.badge.text \in AnyText
      BY <2>2 DEF IsLine
    <3>3. Quiet(line.badge.text, Opens, Closes)
      BY <1>3, <3>2, HarmlessIsQuiet
    <3>4. Enclosed(BadgeValue(line.badge), Opens, Closes)
      BY <1>1, <3>2, <3>3, BadgeEncloses
    <3>5. Quiet(BadgeValue(line.badge), Opens, Closes)
      BY <3>4, EnclosedIsQuiet
    <3>6. Quiet(z, Opens, Closes)
      BY <1>1, <1>2, <3>5, QuietField
    <3> HIDE DEF z
    <3>7. z \in AnyText
      BY <3>6 DEF Quiet
    <3>8. zs \in Seq(AnyText) /\ Len(zs) = 1 /\ zs[1] = z
      BY <3>7
    <3> HIDE DEF zs
    <3>9. \A i \in 1..Len(zs) : i = 1
      BY <3>8
    <3>10. QuietItems(zs)
      BY <3>6, <3>8, <3>9 DEF QuietItems
    <3> QED
      BY <3>1, <3>10, Zenon
  <2> QED
    BY <2>1, <2>2
<1> DEFINE items == BadgeText(line.badge) \o last
<1>11. QuietItems(items)
  <2> HIDE DEF last
  <2> QED
    BY <1>9, <1>10, QuietItemsConcat
<1>12. LineText(line) = Object(Listed(items))
  BY Zenon DEF LineText, EtaTexts
<1> HIDE DEF items
<1>13. Quiet(Listed(items), Opens, Closes)
  BY <1>1, <1>11, QuietListed DEF QuietItems
<1>14. Enclosed(Object(Listed(items)), Opens, Closes)
  BY <1>1, <1>13, ObjectEncloses
<1>15. Wrapped(Object(Listed(items)), OpenBrace, Listed(items), CloseBrace)
  BY <1>13, ObjectIsWrapped DEF Quiet
<1>16. Object(Listed(items))[1] = OpenBrace
       /\ Object(Listed(items))[Len(Object(Listed(items)))] = CloseBrace
  BY <1>15 DEF Wrapped
<1>17. IsItem(Object(Listed(items)))
  BY <1>14, <1>16 DEF IsItem
<1> QED
  BY <1>12, <1>17, Zenon

(***************************************************************************)
(* Which keys a line's text shows, and where: a string of one word looks   *)
(* like a key.                                                             *)
(***************************************************************************)
\* The text of a line, mark by mark; z = o + the length of the label.
LineSpelled(t, line, o, z) ==
    /\ t \in AnyText /\ o \in Nat /\ o >= 1 /\ z \in Nat /\ z = o + Len(line.label)
    /\ z + 28 <= Len(t)
    /\ t[o + 1] = Quote /\ t[o + 2] = "label" /\ t[o + 3] = Quote /\ t[o + 4] = ":"
    /\ t[o + 5] = Quote /\ Part(t, o + 5, line.label) /\ t[z + 6] = Quote /\ t[z + 7] = Comma
    /\ t[z + 8] = Quote /\ t[z + 9] = "status" /\ t[z + 10] = Quote /\ t[z + 11] = ":"
    /\ t[z + 12] = Quote /\ t[z + 13] = line.status /\ t[z + 14] = Quote /\ t[z + 15] = Comma
    /\ t[z + 16] = Quote /\ t[z + 17] = "scrolling" /\ t[z + 18] = Quote /\ t[z + 19] = ":"
    /\ t[z + 20] = (IF line.scroll THEN "true" ELSE "false") /\ t[z + 21] = Comma
    /\ t[z + 22] = Quote /\ t[z + 23] = "etas" /\ t[z + 24] = Quote /\ t[z + 25] = ":"
    /\ t[z + 26] = "["

\* As it is laid out.
LEMMA LineIsSpelled ==
  ASSUME NEW t, NEW line, NEW list, NEW o, line.status \in {"ok", "delayed"},
         LineLaid(t, line, list, o)
  PROVE  LineSpelled(t, line, o, o + Len(line.label))
<1> DEFINE n == Len(line.label)
           z == o + n
           word == <<line.status>>
           tf == IF line.scroll THEN "true" ELSE "false"
<1>1. /\ t \in AnyText /\ line.label \in AnyText /\ list \in AnyText
      /\ o \in Nat /\ o >= 1 /\ Len(t) = o + n + Len(list) + 28
  BY DEF LineLaid
<1>2. n \in Nat /\ Len(list) \in Nat /\ z \in Nat
  BY <1>1 DEF AnyText
<1>3. z + 28 <= Len(t)
  BY <1>1, <1>2
<1>4. line.status \in Atoms
  BY MarksAreAtoms DEF Words
<1>5. word \in AnyText /\ Len(word) = 1 /\ word[1] = line.status
  BY <1>4 DEF AnyText
<1> HIDE DEF word, tf, n
<1>6. /\ WrappedFieldAt(t, o, "label", Quote, line.label, Quote)
      /\ t[o + n + 7] = Comma
      /\ WrappedFieldAt(t, o + n + 7, "status", Quote, word, Quote)
      /\ t[o + n + 15] = Comma
      /\ NameAt(t, o + n + 15, "scrolling")
      /\ t[o + n + 20] = tf
      /\ t[o + n + 21] = Comma
      /\ WrappedFieldAt(t, o + n + 21, "etas", "[", list, "]")
  BY DEF LineLaid, n, word, tf
<1>7. /\ t[o + 1] = Quote /\ t[o + 2] = "label" /\ t[o + 3] = Quote /\ t[o + 4] = ":"
      /\ t[o + 5] = Quote /\ Part(t, o + 5, line.label) /\ t[o + n + 6] = Quote
  BY <1>6 DEF WrappedFieldAt, NameAt, n
<1>8. /\ t[(z + 7) + 1] = Quote /\ t[(z + 7) + 2] = "status" /\ t[(z + 7) + 3] = Quote
      /\ t[(z + 7) + 4] = ":" /\ t[(z + 7) + 5] = Quote /\ Part(t, (z + 7) + 5, word)
      /\ t[(z + 7) + Len(word) + 6] = Quote
  BY <1>6 DEF WrappedFieldAt, NameAt
<1>9. t[(z + 7) + 5 + 1] = line.status
  <2>1. word[1] = line.status /\ 1 \in 1..Len(word)
    BY <1>5
  <2> QED
    BY <1>8, <2>1 DEF Part
<1>10. /\ t[(z + 15) + 1] = Quote /\ t[(z + 15) + 2] = "scrolling" /\ t[(z + 15) + 3] = Quote
       /\ t[(z + 15) + 4] = ":"
  BY <1>6 DEF NameAt
<1>11. /\ t[(z + 21) + 1] = Quote /\ t[(z + 21) + 2] = "etas" /\ t[(z + 21) + 3] = Quote
       /\ t[(z + 21) + 4] = ":" /\ t[(z + 21) + 5] = "["
  BY <1>6 DEF WrappedFieldAt, NameAt
<1>12. t[z + 6] = Quote /\ t[z + 7] = Comma /\ t[z + 15] = Comma /\ t[z + 20] = tf
       /\ t[z + 21] = Comma
  BY <1>6, <1>7
<1> HIDE DEF z
<1>13. /\ (z + 7) + 1 = z + 8 /\ (z + 7) + 2 = z + 9 /\ (z + 7) + 3 = z + 10 /\ (z + 7) + 4 = z + 11
       /\ (z + 7) + 5 = z + 12 /\ (z + 7) + 5 + 1 = z + 13 /\ (z + 7) + Len(word) + 6 = z + 14
       /\ (z + 15) + 1 = z + 16 /\ (z + 15) + 2 = z + 17 /\ (z + 15) + 3 = z + 18
       /\ (z + 15) + 4 = z + 19
       /\ (z + 21) + 1 = z + 22 /\ (z + 21) + 2 = z + 23 /\ (z + 21) + 3 = z + 24
       /\ (z + 21) + 4 = z + 25 /\ (z + 21) + 5 = z + 26
  BY <1>2, <1>5
<1>14. /\ t[z + 8] = Quote /\ t[z + 9] = "status" /\ t[z + 10] = Quote /\ t[z + 11] = ":"
       /\ t[z + 12] = Quote /\ t[z + 13] = line.status /\ t[z + 14] = Quote
       /\ t[z + 16] = Quote /\ t[z + 17] = "scrolling" /\ t[z + 18] = Quote /\ t[z + 19] = ":"
       /\ t[z + 22] = Quote /\ t[z + 23] = "etas" /\ t[z + 24] = Quote /\ t[z + 25] = ":"
       /\ t[z + 26] = "["
  BY <1>8, <1>9, <1>10, <1>11, <1>13, Zenon
<1>15. z = o + Len(line.label)
  BY DEF z, n
<1>16. LineSpelled(t, line, o, z)
  BY <1>1, <1>2, <1>3, <1>7, <1>12, <1>14, <1>15 DEF LineSpelled, tf
<1> QED
  BY <1>15, <1>16, Zenon

\* A word is no mark.
LEMMA WordIsNoMark ==
  ASSUME NEW w \in Words
  PROVE  w # Quote /\ w # Comma /\ w # ":" /\ w # OpenBrace /\ w # CloseBrace /\ w # "[" /\ w # "]"
         /\ w # Escape
<1>1. w \notin Punctuation
  BY WordsAreWords
<1> QED
  BY <1>1 DEF Punctuation

\* A text of one atom.
LEMMA OneAtom ==
  ASSUME NEW s \in AnyText, Len(s) = 1
  PROVE  s = <<s[1]>>
BY DEF AnyText

\* The keys among the four fields.
LEMMA KeysOfLine ==
  ASSUME NEW t, NEW line, NEW o, NEW z, LineSpelled(t, line, o, z), IsLine(line),
         IsPlain(line.label), NEW w \in Words, NEW i \in (o + 1)..(z + 25), KeyAt(t, i, w)
  PROVE  \/ i = o + 1 /\ w = "label"
         \/ i = o + 5 /\ line.label = <<w>>
         \/ i = z + 8 /\ w = "status"
         \/ i = z + 12 /\ w = line.status
         \/ i = z + 16 /\ w = "scrolling"
         \/ i = z + 22 /\ w = "etas"
<1> DEFINE tf == IF line.scroll THEN "true" ELSE "false"
<1>1. o \in Nat /\ z \in Nat /\ z = o + Len(line.label) /\ line.label \in AnyText
      /\ Len(line.label) \in Nat
  <2>1. o \in Nat /\ z \in Nat /\ z = o + Len(line.label)
    BY DEF LineSpelled
  <2>2. line.label \in AnyText
    BY DEF IsLine
  <2>3. Len(line.label) \in Nat
    BY <2>2 DEF AnyText
  <2> QED
    BY <2>1, <2>2, <2>3
<1>12. z \in Nat
  BY DEF LineSpelled
<1>2. t[i] = Quote /\ t[i + 1] = w /\ t[i + 2] = Quote
  BY DEF KeyAt
<1>3. w # Quote /\ w # Comma /\ w # ":"
  BY WordIsNoMark
<1>4. \A j \in (o + 6)..(z + 5) : t[j] = line.label[j - (o + 5)] /\ t[j] # Quote
  <2>1. SUFFICES ASSUME NEW j \in (o + 6)..(z + 5)
                 PROVE  t[j] = line.label[j - (o + 5)] /\ t[j] # Quote
    OBVIOUS
  <2>2. j - (o + 5) \in 1..Len(line.label) /\ (o + 5) + (j - (o + 5)) = j
    BY <1>1
  <2>3. t[(o + 5) + (j - (o + 5))] = line.label[j - (o + 5)]
    BY <2>2 DEF LineSpelled, Part
  <2>4. line.label[j - (o + 5)] # Quote
    BY <2>2 DEF IsPlain
  <2> QED
    BY <2>2, <2>3, <2>4, Zenon
<1>5. /\ t[o + 1] = Quote /\ t[o + 2] = "label" /\ t[o + 3] = Quote /\ t[o + 4] = ":"
      /\ t[o + 5] = Quote /\ t[z + 6] = Quote /\ t[z + 7] = Comma
      /\ t[z + 8] = Quote /\ t[z + 9] = "status" /\ t[z + 10] = Quote /\ t[z + 11] = ":"
      /\ t[z + 12] = Quote /\ t[z + 13] = line.status /\ t[z + 14] = Quote /\ t[z + 15] = Comma
      /\ t[z + 16] = Quote /\ t[z + 17] = "scrolling" /\ t[z + 18] = Quote /\ t[z + 19] = ":"
      /\ t[z + 20] = tf /\ t[z + 21] = Comma
      /\ t[z + 22] = Quote /\ t[z + 23] = "etas" /\ t[z + 24] = Quote /\ t[z + 25] = ":"
  BY DEF LineSpelled
<1>6. line.status # Quote /\ tf # Quote
      /\ "label" # Quote /\ "status" # Quote /\ "scrolling" # Quote /\ "etas" # Quote
  BY WordIsNoMark DEF Words, IsLine
<1> HIDE DEF tf
<1>7. CASE i \in (o + 1)..(o + 4)
  <2>1. i = o + 1 \/ i = o + 2 \/ i = o + 3 \/ i = o + 4
    BY <1>1, <1>7
  <2>2. (o + 1) + 1 = o + 2 /\ (o + 3) + 1 = o + 4
    BY <1>1
  <2>3. t[o + 2] # Quote /\ t[o + 4] # Quote
    BY <1>5, <1>6, MarksDiffer, Zenon
  <2>4. i = o + 1 \/ i = o + 3
    BY <1>2, <2>1, <2>3, Zenon
  <2> QED
    BY <1>2, <1>3, <1>5, <2>2, <2>4, Zenon
<1>8. CASE i = o + 5
  <2>1. (o + 5) + 1 = o + 6 /\ (o + 5) + 2 = o + 7
    BY <1>1
  <2>2. t[o + 6] = w /\ t[o + 7] = Quote
    BY <1>2, <1>8, <2>1, Zenon
  <2>3. CASE Len(line.label) = 0
    <3>1. o + 6 = z + 6
      BY <1>1, <2>3
    <3> QED
      BY <1>3, <1>5, <2>2, <3>1, Zenon
  <2>4. CASE Len(line.label) = 1
    <3>1. o + 6 \in (o + 6)..(z + 5) /\ (o + 6) - (o + 5) = 1
      BY <1>1, <2>4
    <3>2. t[o + 6] = line.label[1]
      BY <1>4, <3>1
    <3>3. line.label = <<line.label[1]>>
      BY <1>1, <2>4, OneAtom
    <3> QED
      BY <1>8, <2>2, <3>2, <3>3, Zenon
  <2>5. CASE Len(line.label) >= 2
    <3>1. o + 7 \in (o + 6)..(z + 5)
      BY <1>1, <2>5
    <3> QED
      BY <1>4, <2>2, <3>1
  <2>6. Len(line.label) = 0 \/ Len(line.label) = 1 \/ Len(line.label) >= 2
    <3> DEFINE n == Len(line.label)
    <3>1. n \in Nat
      BY <1>1
    <3> HIDE DEF n
    <3>2. n = 0 \/ n = 1 \/ n >= 2
      BY <3>1
    <3> QED
      BY <3>2 DEF n
  <2> QED
    BY <2>3, <2>4, <2>5, <2>6, Zenon
<1>9. CASE i \in (o + 6)..(z + 5)
  BY <1>2, <1>4, <1>9
<1>10. CASE i \in (z + 6)..(z + 15)
  <2>1. \/ i = z + 6 \/ i = z + 7 \/ i = z + 8 \/ i = z + 9 \/ i = z + 10
        \/ i = z + 11 \/ i = z + 12 \/ i = z + 13 \/ i = z + 14 \/ i = z + 15
    BY <1>10, <1>12
  <2>2. i = z + 6 \/ i = z + 8 \/ i = z + 10 \/ i = z + 12 \/ i = z + 14
    <3>1. /\ t[z + 7] # Quote /\ t[z + 9] # Quote /\ t[z + 11] # Quote
          /\ t[z + 13] # Quote /\ t[z + 15] # Quote
      BY <1>5, <1>6, MarksDiffer, Zenon
    <3> QED
      BY <1>2, <2>1, <3>1, Zenon
  <2>3. CASE i = z + 6
    <3>1. (z + 6) + 1 = z + 7
      BY <1>1
    <3> QED
      BY <1>2, <1>3, <1>5, <2>3, <3>1, Zenon
  <2>4. CASE i = z + 8
    <3>1. (z + 8) + 1 = z + 9
      BY <1>1
    <3> QED
      BY <1>2, <1>5, <2>4, <3>1, Zenon
  <2>5. CASE i = z + 10
    <3>1. (z + 10) + 1 = z + 11
      BY <1>1
    <3> QED
      BY <1>2, <1>3, <1>5, <2>5, <3>1, Zenon
  <2>6. CASE i = z + 12
    <3>1. (z + 12) + 1 = z + 13
      BY <1>1
    <3> QED
      BY <1>2, <1>5, <2>6, <3>1, Zenon
  <2>7. CASE i = z + 14
    <3>1. (z + 14) + 1 = z + 15
      BY <1>1
    <3> QED
      BY <1>2, <1>3, <1>5, <2>7, <3>1, Zenon
  <2> QED
    BY <2>2, <2>3, <2>4, <2>5, <2>6, <2>7, Zenon
<1>11. CASE i \in (z + 16)..(z + 25)
  <2>1. \/ i = z + 16 \/ i = z + 17 \/ i = z + 18 \/ i = z + 19 \/ i = z + 20
        \/ i = z + 21 \/ i = z + 22 \/ i = z + 23 \/ i = z + 24 \/ i = z + 25
    BY <1>11, <1>12
  <2>2. i = z + 16 \/ i = z + 18 \/ i = z + 22 \/ i = z + 24
    <3>1. /\ t[z + 17] # Quote /\ t[z + 19] # Quote /\ t[z + 20] # Quote
          /\ t[z + 21] # Quote /\ t[z + 23] # Quote /\ t[z + 25] # Quote
      BY <1>5, <1>6, MarksDiffer, Zenon
    <3>2. t[i] = Quote
      BY <1>2
    <3>3. i # z + 17 /\ i # z + 19 /\ i # z + 20 /\ i # z + 21 /\ i # z + 23 /\ i # z + 25
      BY <3>1, <3>2, Zenon
    <3> QED
      BY <2>1, <3>3, Zenon
  <2>3. CASE i = z + 16
    <3>1. (z + 16) + 1 = z + 17
      BY <1>1
    <3> QED
      BY <1>2, <1>5, <2>3, <3>1, Zenon
  <2>4. CASE i = z + 18
    <3>1. (z + 18) + 1 = z + 19
      BY <1>1
    <3> QED
      BY <1>2, <1>3, <1>5, <2>4, <3>1, Zenon
  <2>5. CASE i = z + 22
    <3>1. (z + 22) + 1 = z + 23
      BY <1>1
    <3> QED
      BY <1>2, <1>5, <2>5, <3>1, Zenon
  <2>6. CASE i = z + 24
    <3>1. (z + 24) + 1 = z + 25
      BY <1>1
    <3> QED
      BY <1>2, <1>3, <1>5, <2>6, <3>1, Zenon
  <2> QED
    BY <2>2, <2>3, <2>4, <2>5, <2>6, Zenon
<1> QED
  BY <1>1, <1>7, <1>8, <1>9, <1>10, <1>11

\* The badge of a line, mark by mark; k is the length of its text.
BadgeSpelled(t, badge, k) ==
    /\ t \in AnyText /\ k \in Nat /\ k = Len(badge.text) /\ badge.text \in AnyText
    /\ k + 22 <= Len(t)
    /\ t[1] = OpenBrace
    /\ t[2] = Quote /\ t[3] = "badge" /\ t[4] = Quote /\ t[5] = ":" /\ t[6] = OpenBrace
    /\ t[7] = Quote /\ t[8] = "shape" /\ t[9] = Quote /\ t[10] = ":"
    /\ t[11] = Quote /\ t[12] = badge.shape /\ t[13] = Quote /\ t[14] = Comma
    /\ t[15] = Quote /\ t[16] = "text" /\ t[17] = Quote /\ t[18] = ":"
    /\ t[19] = Quote /\ Part(t, 19, badge.text) /\ t[k + 20] = Quote
    /\ t[k + 21] = CloseBrace /\ t[k + 22] = Comma

\* The fields of its object, mark by mark, within a text.
ObjectSpelled(t, q, badge, k) ==
    /\ t[q + 1] = OpenBrace
    /\ t[q + 2] = Quote /\ t[q + 3] = "shape" /\ t[q + 4] = Quote /\ t[q + 5] = ":"
    /\ t[q + 6] = Quote /\ t[q + 7] = badge.shape /\ t[q + 8] = Quote /\ t[q + 9] = Comma
    /\ t[q + 10] = Quote /\ t[q + 11] = "text" /\ t[q + 12] = Quote /\ t[q + 13] = ":"
    /\ t[q + 14] = Quote /\ Part(t, q + 14, badge.text) /\ t[q + k + 15] = Quote
    /\ t[q + k + 16] = CloseBrace

\* It is spelled so wherever it stands.
LEMMA ObjectIsSpelled ==
  ASSUME NEW t \in AnyText, NEW q, NEW badge, NEW v, badge.shape \in {"circle", "pill"},
         BadgeBody(v, badge), Part(t, q, v)
  PROVE  ObjectSpelled(t, q, badge, Len(badge.text))
<1> DEFINE k == Len(badge.text)
           word == <<badge.shape>>
<1>1. badge.shape \in Atoms
  BY MarksAreAtoms DEF Words
<1>2. word \in AnyText /\ Len(word) = 1 /\ word[1] = badge.shape
  BY <1>1 DEF AnyText
<1> HIDE DEF word
<1>3. /\ v \in AnyText /\ badge.text \in AnyText /\ Len(v) = k + 16
      /\ v[1] = OpenBrace /\ v[k + 16] = CloseBrace
      /\ WrappedFieldAt(v, 1, "shape", Quote, word, Quote)
      /\ v[9] = Comma
      /\ WrappedFieldAt(v, 9, "text", Quote, badge.text, Quote)
  BY DEF BadgeBody, word
<1>4. k \in Nat /\ q \in Nat
  BY <1>3 DEF AnyText, Part
<1>5. /\ WrappedFieldAt(t, q + 1, "shape", Quote, word, Quote)
      /\ WrappedFieldAt(t, q + 9, "text", Quote, badge.text, Quote)
  BY <1>3, FieldMoves
<1>6. \A i \in 1..Len(v) : t[q + i] = v[i]
  BY DEF Part
<1> HIDE DEF k
<1>7. t[q + 1] = OpenBrace /\ t[q + 9] = Comma /\ t[q + (k + 16)] = CloseBrace
  <2>1. 1 \in 1..Len(v) /\ 9 \in 1..Len(v) /\ k + 16 \in 1..Len(v)
    BY <1>3, <1>4
  <2> QED
    BY <1>3, <1>6, <2>1
<1>8. /\ t[(q + 1) + 1] = Quote /\ t[(q + 1) + 2] = "shape" /\ t[(q + 1) + 3] = Quote
      /\ t[(q + 1) + 4] = ":" /\ t[(q + 1) + 5] = Quote /\ Part(t, (q + 1) + 5, word)
      /\ t[(q + 1) + Len(word) + 6] = Quote
  BY <1>5 DEF WrappedFieldAt, NameAt
<1>9. t[(q + 1) + 5 + 1] = badge.shape
  <2>1. 1 \in 1..Len(word)
    BY <1>2
  <2> QED
    BY <1>2, <1>8, <2>1 DEF Part
<1>10. /\ t[(q + 9) + 1] = Quote /\ t[(q + 9) + 2] = "text" /\ t[(q + 9) + 3] = Quote
       /\ t[(q + 9) + 4] = ":" /\ t[(q + 9) + 5] = Quote /\ Part(t, (q + 9) + 5, badge.text)
       /\ t[(q + 9) + k + 6] = Quote
  BY <1>5 DEF WrappedFieldAt, NameAt, k
<1>11. /\ (q + 1) + 1 = q + 2 /\ (q + 1) + 2 = q + 3 /\ (q + 1) + 3 = q + 4 /\ (q + 1) + 4 = q + 5
       /\ (q + 1) + 5 = q + 6 /\ (q + 1) + 5 + 1 = q + 7 /\ (q + 1) + Len(word) + 6 = q + 8
       /\ (q + 9) + 1 = q + 10 /\ (q + 9) + 2 = q + 11 /\ (q + 9) + 3 = q + 12
       /\ (q + 9) + 4 = q + 13 /\ (q + 9) + 5 = q + 14 /\ (q + 9) + k + 6 = q + k + 15
       /\ q + (k + 16) = q + k + 16
  BY <1>2, <1>4
<1>12. /\ t[q + 2] = Quote /\ t[q + 3] = "shape" /\ t[q + 4] = Quote /\ t[q + 5] = ":"
       /\ t[q + 6] = Quote /\ t[q + 7] = badge.shape /\ t[q + 8] = Quote
       /\ t[q + 10] = Quote /\ t[q + 11] = "text" /\ t[q + 12] = Quote /\ t[q + 13] = ":"
       /\ t[q + 14] = Quote /\ Part(t, q + 14, badge.text) /\ t[q + k + 15] = Quote
       /\ t[q + k + 16] = CloseBrace
  BY <1>7, <1>8, <1>9, <1>10, <1>11, Zenon
<1>13. ObjectSpelled(t, q, badge, k)
  BY <1>7, <1>12 DEF ObjectSpelled
<1> QED
  BY <1>13 DEF k

\* And so is the badge of a line.
LEMMA BadgeIsSpelled ==
  ASSUME NEW t \in AnyText, NEW badge, badge.shape \in {"circle", "pill"}, BadgeLaid(t, badge),
         t[1] = OpenBrace, Len(badge.text) + 22 <= Len(t)
  PROVE  BadgeSpelled(t, badge, Len(badge.text))
<1> DEFINE k == Len(badge.text)
           v == BadgeValue(badge)
<1>1. /\ NameAt(t, 1, "badge") /\ Part(t, 5, v) /\ BadgeBody(v, badge) /\ t[k + 22] = Comma
  BY DEF BadgeLaid
<1>2. badge.text \in AnyText
  BY <1>1 DEF BadgeBody
<1>3. k \in Nat
  BY <1>2 DEF AnyText
<1>4. ObjectSpelled(t, 5, badge, k)
  BY <1>1, ObjectIsSpelled
<1> HIDE DEF k, v
<1>5. 1 + 1 = 2 /\ 1 + 2 = 3 /\ 1 + 3 = 4 /\ 1 + 4 = 5
  OBVIOUS
<1>6. t[2] = Quote /\ t[3] = "badge" /\ t[4] = Quote /\ t[5] = ":"
  BY <1>1, <1>5, Zenon DEF NameAt
<1>7. /\ 5 + 1 = 6 /\ 5 + 2 = 7 /\ 5 + 3 = 8 /\ 5 + 4 = 9 /\ 5 + 5 = 10 /\ 5 + 6 = 11 /\ 5 + 7 = 12
      /\ 5 + 8 = 13 /\ 5 + 9 = 14 /\ 5 + 10 = 15 /\ 5 + 11 = 16 /\ 5 + 12 = 17 /\ 5 + 13 = 18
      /\ 5 + 14 = 19 /\ 5 + k + 15 = k + 20 /\ 5 + k + 16 = k + 21
  BY <1>3
<1>8. /\ t[6] = OpenBrace /\ t[7] = Quote /\ t[8] = "shape" /\ t[9] = Quote /\ t[10] = ":"
      /\ t[11] = Quote /\ t[12] = badge.shape /\ t[13] = Quote /\ t[14] = Comma
      /\ t[15] = Quote /\ t[16] = "text" /\ t[17] = Quote /\ t[18] = ":"
      /\ t[19] = Quote /\ Part(t, 19, badge.text) /\ t[k + 20] = Quote
      /\ t[k + 21] = CloseBrace
  BY <1>4, <1>7, Zenon DEF ObjectSpelled
<1>9. BadgeSpelled(t, badge, k)
  BY <1>1, <1>2, <1>3, <1>6, <1>8 DEF BadgeSpelled, k
<1> QED
  BY <1>9 DEF k

\* The keys up to the end of the badge.
LEMMA KeysOfBadge ==
  ASSUME NEW t, NEW badge, NEW k, BadgeSpelled(t, badge, k), badge.shape \in {"circle", "pill"},
         IsPlain(badge.text), NEW w \in Words, NEW i \in 1..(k + 22), KeyAt(t, i, w)
  PROVE  \/ i = 2 /\ w = "badge"
         \/ i = 7 /\ w = "shape"
         \/ i = 11 /\ w = badge.shape
         \/ i = 15 /\ w = "text"
         \/ i = 19 /\ badge.text = <<w>>
<1>1. k \in Nat /\ k = Len(badge.text) /\ badge.text \in AnyText
  BY DEF BadgeSpelled
<1>2. t[i] = Quote /\ t[i + 1] = w /\ t[i + 2] = Quote
  BY DEF KeyAt
<1>3. w # Quote /\ w # Comma /\ w # ":" /\ w # CloseBrace /\ w # OpenBrace
  BY WordIsNoMark
<1>4. \A j \in 20..(k + 19) : t[j] = badge.text[j - 19] /\ t[j] # Quote
  <2>1. SUFFICES ASSUME NEW j \in 20..(k + 19)
                 PROVE  t[j] = badge.text[j - 19] /\ t[j] # Quote
    OBVIOUS
  <2>2. j - 19 \in 1..Len(badge.text) /\ 19 + (j - 19) = j
    BY <1>1
  <2>3. t[19 + (j - 19)] = badge.text[j - 19]
    BY <2>2 DEF BadgeSpelled, Part
  <2>4. badge.text[j - 19] # Quote
    BY <2>2 DEF IsPlain
  <2> QED
    BY <2>2, <2>3, <2>4, Zenon
<1>5. /\ t[1] = OpenBrace
      /\ t[2] = Quote /\ t[3] = "badge" /\ t[4] = Quote /\ t[5] = ":" /\ t[6] = OpenBrace
      /\ t[7] = Quote /\ t[8] = "shape" /\ t[9] = Quote /\ t[10] = ":"
      /\ t[11] = Quote /\ t[12] = badge.shape /\ t[13] = Quote /\ t[14] = Comma
      /\ t[15] = Quote /\ t[16] = "text" /\ t[17] = Quote /\ t[18] = ":"
      /\ t[19] = Quote /\ t[k + 20] = Quote
      /\ t[k + 21] = CloseBrace /\ t[k + 22] = Comma
  BY DEF BadgeSpelled
<1>6. badge.shape # Quote /\ "badge" # Quote /\ "shape" # Quote /\ "text" # Quote
  BY WordIsNoMark DEF Words
<1>7. CASE i \in 1..9
  <2>1. i = 1 \/ i = 2 \/ i = 3 \/ i = 4 \/ i = 5 \/ i = 6 \/ i = 7 \/ i = 8 \/ i = 9
    BY <1>7
  <2>2. 2 + 1 = 3 /\ 4 + 1 = 5 /\ 7 + 1 = 8 /\ 9 + 1 = 10
    OBVIOUS
  <2> QED
    BY <1>2, <1>3, <1>5, <1>6, <2>1, <2>2, MarksDiffer, ZenonT(60)
<1>8. CASE i \in 10..18
  <2>1. i = 10 \/ i = 11 \/ i = 12 \/ i = 13 \/ i = 14 \/ i = 15 \/ i = 16 \/ i = 17 \/ i = 18
    BY <1>8
  <2>2. 11 + 1 = 12 /\ 13 + 1 = 14 /\ 15 + 1 = 16 /\ 17 + 1 = 18
    OBVIOUS
  <2> QED
    BY <1>2, <1>3, <1>5, <1>6, <2>1, <2>2, MarksDiffer, ZenonT(60)
<1>9. CASE i = 19
  <2>1. 19 + 1 = 20 /\ 19 + 2 = 21
    OBVIOUS
  <2>2. t[20] = w /\ t[21] = Quote
    BY <1>2, <1>9, <2>1, Zenon
  <2>3. CASE k = 0
    <3>1. k + 20 = 20
      BY <2>3
    <3> QED
      BY <1>3, <1>5, <2>2, <3>1, Zenon
  <2>4. CASE k = 1
    <3>1. 20 \in 20..(k + 19) /\ 20 - 19 = 1
      BY <2>4
    <3>2. t[20] = badge.text[1]
      BY <1>4, <3>1
    <3>3. badge.text = <<badge.text[1]>>
      BY <1>1, <2>4, OneAtom
    <3> QED
      BY <1>9, <2>2, <3>2, <3>3, Zenon
  <2>5. CASE k >= 2
    <3>1. 21 \in 20..(k + 19)
      BY <1>1, <2>5
    <3> QED
      BY <1>4, <2>2, <3>1
  <2>6. k = 0 \/ k = 1 \/ k >= 2
    <3>1. k \in Nat
      BY <1>1
    <3> QED
      BY <3>1
  <2> QED
    BY <2>3, <2>4, <2>5, <2>6, Zenon
<1>10. CASE i \in 20..(k + 19)
  BY <1>2, <1>4, <1>10
<1>11. CASE i \in (k + 20)..(k + 22)
  <2>1. i = k + 20 \/ i = k + 21 \/ i = k + 22
    BY <1>1, <1>11
  <2>2. (k + 20) + 1 = k + 21
    BY <1>1
  <2> QED
    BY <1>2, <1>3, <1>5, <2>1, <2>2, MarksDiffer, ZenonT(60)
<1>12. i \in 1..9 \/ i \in 10..18 \/ i = 19 \/ i \in 20..(k + 19) \/ i \in (k + 20)..(k + 22)
  <2>1. k \in Nat
    BY <1>1
  <2> QED
    BY <2>1
<1> QED
  BY <1>7, <1>8, <1>9, <1>10, <1>11, <1>12, Zenon

(***************************************************************************)
(* What is read of a line's fields.                                        *)
(***************************************************************************)
\* The text of a line, with its badge or without.
LineShown(t, line, o, z) ==
    /\ LineSpelled(t, line, o, z)
    /\ t[1] = OpenBrace
    /\ \/ line.badge = NoBadge /\ o = 1
       \/ line.badge # NoBadge /\ o = Len(line.badge.text) + 22
          /\ BadgeSpelled(t, line.badge, Len(line.badge.text)) /\ BadgeLaid(t, line.badge)

\* LineText() shows it.
LEMMA LineIsShown ==
  ASSUME NEW line, IsLine(line)
  PROVE  \E o, z : LineShown(LineText(line), line, o, z)
                   /\ LineLaid(LineText(line), line, Listed(EtaTexts(line)), o)
<1> DEFINE t == LineText(line)
           list == Listed(EtaTexts(line))
<1>1. line.status \in {"ok", "delayed"}
  BY DEF IsLine
<1>2. CASE line.badge = NoBadge
  <2>1. LineLaid(t, line, list, 1)
    BY <1>2, LineWithoutBadge
  <2> HIDE DEF t, list
  <2>2. LineSpelled(t, line, 1, 1 + Len(line.label))
    BY <1>1, <2>1, LineIsSpelled
  <2>3. t[1] = OpenBrace
    BY <2>1 DEF LineLaid
  <2>4. LineShown(t, line, 1, 1 + Len(line.label))
    BY <1>2, <2>2, <2>3 DEF LineShown
  <2> QED
    BY <2>1, <2>4 DEF t, list
<1>3. CASE line.badge # NoBadge
  <2> DEFINE k == Len(line.badge.text)
             o == k + 22
  <2>1. LineLaid(t, line, list, o) /\ BadgeLaid(t, line.badge)
    BY <1>3, LineWithBadge
  <2>2. line.badge.shape \in {"circle", "pill"}
    BY <1>3 DEF IsLine
  <2> HIDE DEF t, list, o
  <2>3. LineSpelled(t, line, o, o + Len(line.label))
    BY <1>1, <2>1, LineIsSpelled
  <2>4. /\ t[1] = OpenBrace /\ t \in AnyText /\ line.label \in AnyText /\ list \in AnyText
        /\ o \in Nat /\ Len(t) = o + Len(line.label) + Len(list) + 28
    BY <2>1 DEF LineLaid
  <2>5. k + 22 <= Len(t)
    <3>1. Len(line.label) \in Nat /\ Len(list) \in Nat
      BY <2>4 DEF AnyText
    <3>2. o <= Len(t)
      BY <2>4, <3>1
    <3> QED
      BY <3>2 DEF o
  <2>6. BadgeSpelled(t, line.badge, k)
    BY <2>1, <2>2, <2>4, <2>5, BadgeIsSpelled
  <2>7. LineShown(t, line, o, o + Len(line.label))
    BY <1>3, <2>1, <2>3, <2>4, <2>6 DEF LineShown, o
  <2> QED
    BY <2>1, <2>7 DEF t, list
<1> QED
  BY <1>2, <1>3

\* A key of the badge, and one of the four fields.
BadgeKey(line, i, w) ==
    \/ i = 2 /\ w = "badge"
    \/ i = 7 /\ w = "shape"
    \/ i = 11 /\ w = line.badge.shape
    \/ i = 15 /\ w = "text"
    \/ i = 19 /\ line.badge.text = <<w>>

LineKey(line, o, z, i, w) ==
    \/ i = o + 1 /\ w = "label"
    \/ i = o + 5 /\ line.label = <<w>>
    \/ i = z + 8 /\ w = "status"
    \/ i = z + 12 /\ w = line.status
    \/ i = z + 16 /\ w = "scrolling"
    \/ i = z + 22 /\ w = "etas"

\* The strings of a line are plain.
IsPlainLine(line) ==
    /\ IsLine(line)
    /\ IsPlain(line.label)
    /\ line.badge # NoBadge => IsPlain(line.badge.text)

\* All the keys before the array.
LEMMA KeysShown ==
  ASSUME NEW t, NEW line, NEW o, NEW z, LineShown(t, line, o, z), IsPlainLine(line),
         NEW w \in Words, NEW i \in 1..(z + 25), KeyAt(t, i, w)
  PROVE  (i <= o /\ line.badge # NoBadge /\ BadgeKey(line, i, w)) \/ (i > o /\ LineKey(line, o, z, i, w))
<1>1. LineSpelled(t, line, o, z) /\ IsLine(line) /\ IsPlain(line.label) /\ o \in Nat /\ z \in Nat
  BY DEF LineShown, IsPlainLine, LineSpelled
<1>2. CASE i > o
  <2>1. i \in (o + 1)..(z + 25)
    BY <1>1, <1>2
  <2>2. LineKey(line, o, z, i, w)
    BY <1>1, <2>1, KeysOfLine DEF LineKey
  <2> QED
    BY <1>2, <2>2
<1>3. CASE i <= o
  <2>1. CASE line.badge = NoBadge
    <3>1. i = 1 /\ t[1] = OpenBrace
      BY <1>3, <2>1 DEF LineShown
    <3> QED
      BY <3>1, MarksDiffer DEF KeyAt
  <2>2. CASE line.badge # NoBadge
    <3>1. /\ BadgeSpelled(t, line.badge, Len(line.badge.text)) /\ o = Len(line.badge.text) + 22
          /\ line.badge.shape \in {"circle", "pill"} /\ IsPlain(line.badge.text)
      BY <2>2 DEF LineShown, IsPlainLine, IsLine
    <3>2. i \in 1..(Len(line.badge.text) + 22)
      BY <1>1, <1>3, <3>1
    <3>3. BadgeKey(line, i, w)
      BY <3>1, <3>2, KeysOfBadge DEF BadgeKey
    <3> QED
      BY <1>3, <2>2, <3>3
  <2> QED
    BY <2>1, <2>2
<1>4. i > o \/ i <= o
  BY <1>1
<1> QED
  BY <1>2, <1>3, <1>4, Zenon

\* Between a badge's text of one atom and the label's key there is no colon.
LEMMA NoColonBehindBadge ==
  ASSUME NEW t, NEW line, NEW o, NEW z, LineShown(t, line, o, z), line.badge # NoBadge,
         Len(line.badge.text) = 1
  PROVE  o = 23 /\ \A i \in 22..26 : t[i] # ":"
<1>1. o = 1 + 22
  BY DEF LineShown
<1>2. t[1 + 21] = CloseBrace /\ t[1 + 22] = Comma
  BY DEF LineShown, BadgeSpelled
<1>3. t[o + 1] = Quote /\ t[o + 2] = "label" /\ t[o + 3] = Quote
  BY DEF LineShown, LineSpelled
<1>4. 1 + 22 = 23 /\ 1 + 21 = 22 /\ 23 + 1 = 24 /\ 23 + 2 = 25 /\ 23 + 3 = 26
  OBVIOUS
<1>5. o = 23 /\ t[22] = CloseBrace /\ t[23] = Comma /\ t[24] = Quote /\ t[25] = "label" /\ t[26] = Quote
  BY <1>1, <1>2, <1>3, <1>4, Zenon
<1>6. "label" # ":"
  BY WordIsNoMark DEF Words
<1>7. ASSUME NEW i \in 22..26 PROVE t[i] # ":"
  <2>1. i = 22 \/ i = 23 \/ i = 24 \/ i = 25 \/ i = 26
    OBVIOUS
  <2> QED
    BY <1>5, <1>6, <2>1, MarksDiffer, Zenon
<1> QED
  BY <1>5, <1>7

\* Nor is there one from the label to the colon of the status.
LEMMA NoColonBehindLabel ==
  ASSUME NEW t, NEW line, NEW o, NEW z, LineSpelled(t, line, o, z)
  PROVE  \A i \in (z + 7)..(z + 10) : t[i] # ":"
<1>1. /\ z \in Nat
      /\ t[z + 7] = Comma /\ t[z + 8] = Quote /\ t[z + 9] = "status" /\ t[z + 10] = Quote
  BY DEF LineSpelled
<1>2. "status" # ":"
  BY WordIsNoMark DEF Words
<1>3. ASSUME NEW i \in (z + 7)..(z + 10) PROVE t[i] # ":"
  <2>1. i = z + 7 \/ i = z + 8 \/ i = z + 9 \/ i = z + 10
    BY <1>1
  <2> QED
    BY <1>1, <1>2, <2>1, MarksDiffer, Zenon
<1> QED
  BY <1>3

\* Its measures.
LineMeasures(t, line, o, z) ==
    /\ LineSpelled(t, line, o, z) /\ t \in AnyText /\ o \in Nat /\ o >= 1 /\ z \in Nat
    /\ z = o + Len(line.label) /\ z + 28 <= Len(t) /\ line.label \in AnyText
    /\ Len(line.label) \in Nat /\ Len(t) \in Nat

\* A line that is shown has them.
LEMMA LineIsMeasured ==
  ASSUME NEW t, NEW line, NEW o, NEW z, LineShown(t, line, o, z), IsPlainLine(line)
  PROVE  LineMeasures(t, line, o, z)
<1>1. LineSpelled(t, line, o, z)
  BY DEF LineShown
<1>2. /\ t \in AnyText /\ o \in Nat /\ o >= 1 /\ z \in Nat /\ z = o + Len(line.label)
      /\ z + 28 <= Len(t)
  BY <1>1 DEF LineSpelled
<1>3. line.label \in AnyText
  BY DEF IsPlainLine, IsLine
<1>4. Len(line.label) \in Nat /\ Len(t) \in Nat
  BY <1>2, <1>3 DEF AnyText
<1> QED
  BY <1>1, <1>2, <1>3, <1>4 DEF LineMeasures

\* The label.
LEMMA LabelRead ==
  ASSUME NEW t, NEW line, NEW o, NEW z, LineShown(t, line, o, z), IsPlainLine(line)
  PROVE  StringField(t, "label") = line.label
<1> DEFINE q == IF line.badge # NoBadge /\ line.badge.text = <<"label">> THEN 19 ELSE o + 1
<1>1. /\ LineSpelled(t, line, o, z) /\ t \in AnyText /\ o \in Nat /\ o >= 1 /\ z \in Nat
      /\ z = o + Len(line.label) /\ z + 28 <= Len(t) /\ line.label \in AnyText
      /\ Len(line.label) \in Nat /\ Len(t) \in Nat
  BY LineIsMeasured DEF LineMeasures
<1>2. "label" \in Words /\ "label" \in Atoms
  BY MarksAreAtoms DEF Words
<1>3. /\ t[o + 1] = Quote /\ t[o + 2] = "label" /\ t[o + 3] = Quote /\ t[o + 4] = ":"
      /\ t[o + 5] = Quote /\ Part(t, o + 5, line.label) /\ t[z + 6] = Quote
  BY <1>1 DEF LineSpelled
<1>4. KeyAt(t, o + 1, "label")
  <2>1. o + 1 \in 1..(Len(t) - 2) /\ (o + 1) + 1 = o + 2 /\ (o + 1) + 2 = o + 3
    BY <1>1
  <2> QED
    BY <1>3, <2>1 DEF KeyAt
<1>5. q = o + 1 \/ (q = 19 /\ line.badge # NoBadge /\ line.badge.text = <<"label">>)
  OBVIOUS
<1>6. line.badge # NoBadge /\ line.badge.text = <<"label">> => q = 19 /\ o = 23 /\ \A i \in 22..26 : t[i] # ":"
  <2> SUFFICES ASSUME line.badge # NoBadge, line.badge.text = <<"label">>
               PROVE  q = 19 /\ o = 23 /\ \A i \in 22..26 : t[i] # ":"
    OBVIOUS
  <2>1. Len(line.badge.text) = 1
    OBVIOUS
  <2> QED
    BY <2>1, NoColonBehindBadge
<1> HIDE DEF q
<1>7. q \in 1..(o + 1)
  BY <1>1, <1>5, <1>6
<1>8. \A i \in 1..(q - 1) : ~KeyAt(t, i, "label")
  <2>1. SUFFICES ASSUME NEW i \in 1..(q - 1), KeyAt(t, i, "label") PROVE FALSE
    OBVIOUS
  <2>2. i \in 1..(z + 25) /\ i <= o
    BY <1>1, <1>7
  <2>3. line.badge # NoBadge /\ BadgeKey(line, i, "label")
    BY <1>1, <1>2, <2>1, <2>2, KeysShown
  <2>4. line.badge.shape # "label"
    BY <2>3 DEF IsPlainLine, IsLine
  <2>5. i = 19 /\ line.badge.text = <<"label">>
    BY <2>3, <2>4 DEF BadgeKey
  <2> QED
    BY <1>6, <2>1, <2>3, <2>5
<1>9. \A i \in (q + 3)..((o + 5) - 2) : t[i] # ":"
  <2>1. CASE q = o + 1
    BY <1>1, <2>1
  <2>2. CASE q = 19 /\ line.badge # NoBadge /\ line.badge.text = <<"label">>
    <3>1. (q + 3)..((o + 5) - 2) = 22..26
      BY <1>6, <2>2
    <3> QED
      BY <1>6, <2>2, <3>1
  <2> QED
    BY <1>5, <2>1, <2>2
<1>10. ValueAt(t, "label", q, o + 1, o + 5)
  <2>1. o + 5 \in ((o + 1) + 4)..Len(t) /\ (o + 5) - 1 = o + 4
    BY <1>1
  <2> QED
    BY <1>3, <1>4, <1>7, <1>8, <1>9, <2>1 DEF ValueAt
<1>11. ValueOf(t, "label") = o + 5
  BY <1>1, <1>2, <1>10, ValueFound
<1>12. QuotedAt(t, o + 5, line.label)
  <2>1. /\ o + 5 \in Nat /\ o + 5 >= 1 /\ (o + 5) + Len(line.label) + 1 = z + 6
        /\ z + 6 <= Len(t)
    <3> DEFINE n == Len(line.label)
               l == Len(t)
    <3>1. n \in Nat /\ l \in Nat /\ o \in Nat /\ z = o + n /\ z + 28 <= l
      BY <1>1
    <3> HIDE DEF n, l
    <3>2. /\ o + 5 \in Nat /\ o + 5 >= 1 /\ (o + 5) + n + 1 = z + 6 /\ z + 6 <= l
      BY <3>1
    <3> QED
      BY <3>2 DEF n, l
  <2>2. IsPlain(line.label)
    BY DEF IsPlainLine
  <2> QED
    BY <1>1, <1>3, <2>1, <2>2 DEF QuotedAt
<1> QED
  BY <1>1, <1>11, <1>12, StringRead

\* The status.
LEMMA StatusRead ==
  ASSUME NEW t, NEW line, NEW o, NEW z, LineShown(t, line, o, z), IsPlainLine(line),
         line.badge # NoBadge => line.badge.text # <<"status">>
  PROVE  StringField(t, "status") = <<line.status>>
<1> DEFINE q == IF line.label = <<"status">> THEN o + 5 ELSE z + 8
           word == <<line.status>>
<1>1. /\ LineSpelled(t, line, o, z) /\ t \in AnyText /\ o \in Nat /\ o >= 1 /\ z \in Nat
      /\ z = o + Len(line.label) /\ z + 28 <= Len(t) /\ line.label \in AnyText
      /\ Len(line.label) \in Nat /\ Len(t) \in Nat
  BY LineIsMeasured DEF LineMeasures
<1>2. "status" \in Words /\ "status" \in Atoms /\ line.status \in {"ok", "delayed"}
      /\ line.status \in Words /\ line.status \in Atoms
  BY MarksAreAtoms DEF Words, IsPlainLine, IsLine
<1>3. /\ t[z + 8] = Quote /\ t[z + 9] = "status" /\ t[z + 10] = Quote /\ t[z + 11] = ":"
      /\ t[z + 12] = Quote /\ t[z + 13] = line.status /\ t[z + 14] = Quote
  BY <1>1 DEF LineSpelled
<1>4. KeyAt(t, z + 8, "status")
  <2>1. z + 8 \in 1..(Len(t) - 2) /\ (z + 8) + 1 = z + 9 /\ (z + 8) + 2 = z + 10
    BY <1>1
  <2> QED
    BY <1>3, <2>1 DEF KeyAt
<1>5. q = z + 8 \/ (q = o + 5 /\ line.label = <<"status">>)
  OBVIOUS
<1>6. line.label = <<"status">> => q = o + 5 /\ z = o + 1
  <2> SUFFICES ASSUME line.label = <<"status">> PROVE q = o + 5 /\ z = o + 1
    OBVIOUS
  <2>1. Len(line.label) = 1
    OBVIOUS
  <2> QED
    BY <1>1, <2>1
<1> HIDE DEF q
<1>7. q \in 1..(z + 8)
  BY <1>1, <1>5
<1>8. \A i \in 1..(q - 1) : ~KeyAt(t, i, "status")
  <2>1. SUFFICES ASSUME NEW i \in 1..(q - 1), KeyAt(t, i, "status") PROVE FALSE
    OBVIOUS
  <2>2. i \in 1..(z + 25) /\ i < z + 8
    BY <1>1, <1>7
  <2>3. CASE line.badge # NoBadge /\ BadgeKey(line, i, "status")
    <3>1. line.badge.shape # "status" /\ line.badge.text # <<"status">>
      BY <2>3 DEF IsPlainLine, IsLine
    <3> QED
      BY <2>3, <3>1 DEF BadgeKey
  <2>4. CASE LineKey(line, o, z, i, "status")
    <3>1. i # z + 8 /\ i # z + 12
      BY <1>1, <2>2
    <3>2. i = o + 5 /\ line.label = <<"status">>
      BY <2>4, <3>1 DEF LineKey
    <3> QED
      BY <1>1, <1>6, <2>1, <3>2
  <2> QED
    BY <1>1, <1>2, <2>1, <2>2, <2>3, <2>4, KeysShown
<1>9. \A i \in (q + 3)..((z + 12) - 2) : t[i] # ":"
  <2>1. CASE q = z + 8
    BY <1>1, <2>1
  <2>2. CASE q = o + 5 /\ line.label = <<"status">>
    <3>1. (q + 3)..((z + 12) - 2) = (z + 7)..(z + 10)
      BY <1>1, <1>6, <2>2
    <3> QED
      BY <1>1, <3>1, NoColonBehindLabel
  <2> QED
    BY <1>5, <2>1, <2>2
<1>10. ValueAt(t, "status", q, z + 8, z + 12)
  <2>1. z + 12 \in ((z + 8) + 4)..Len(t) /\ (z + 12) - 1 = z + 11
    BY <1>1
  <2> QED
    BY <1>3, <1>4, <1>7, <1>8, <1>9, <2>1 DEF ValueAt
<1>11. ValueOf(t, "status") = z + 12
  BY <1>1, <1>2, <1>10, ValueFound
<1>12. QuotedAt(t, z + 12, word)
  <2>1. word \in AnyText /\ Len(word) = 1 /\ word[1] = line.status
    BY <1>2 DEF AnyText
  <2> HIDE DEF word
  <2>2. line.status # Quote /\ line.status # Escape
    BY <1>2, WordIsNoMark
  <2>3. IsPlain(word)
    <3>1. \A i \in 1..Len(word) : i = 1
      BY <2>1
    <3> QED
      BY <2>1, <2>2, <3>1 DEF IsPlain
  <2>4. /\ z + 12 \in Nat /\ z + 12 >= 1 /\ (z + 12) + Len(word) + 1 = z + 14
        /\ z + 14 <= Len(t) /\ (z + 12) + 1 = z + 13
    BY <1>1, <2>1
  <2>5. Part(t, z + 12, word)
    <3>1. \A i \in 1..Len(word) : t[(z + 12) + i] = word[i]
      <4>1. \A i \in 1..Len(word) : i = 1
        BY <2>1
      <4>2. t[(z + 12) + 1] = word[1]
        BY <1>3, <2>1, <2>4
      <4> QED
        BY <4>1, <4>2
    <3>2. (z + 12) + Len(word) <= Len(t)
      BY <1>1, <2>1
    <3> QED
      BY <2>4, <3>1, <3>2 DEF Part
  <2> QED
    BY <1>3, <2>1, <2>3, <2>4, <2>5 DEF QuotedAt
<1> QED
  BY <1>1, <1>11, <1>12, StringRead

\* Whether it scrolls.
LEMMA ScrollRead ==
  ASSUME NEW t, NEW line, NEW o, NEW z, LineShown(t, line, o, z), IsPlainLine(line),
         line.badge # NoBadge => line.badge.text # <<"scrolling">>,
         line.label # <<"scrolling">>
  PROVE  BoolField(t, "scrolling", FALSE) = line.scroll
<1> DEFINE tf == IF line.scroll THEN "true" ELSE "false"
<1>1. /\ LineSpelled(t, line, o, z) /\ t \in AnyText /\ o \in Nat /\ o >= 1 /\ z \in Nat
      /\ z = o + Len(line.label) /\ z + 28 <= Len(t)
      /\ Len(line.label) \in Nat /\ Len(t) \in Nat
  BY LineIsMeasured DEF LineMeasures
<1>2. "scrolling" \in Words /\ "scrolling" \in Atoms /\ tf \in Words
      /\ line.status \in {"ok", "delayed"} /\ line.scroll \in BOOLEAN
  BY MarksAreAtoms DEF Words, IsPlainLine, IsLine
<1> HIDE DEF tf
<1>3. /\ t[z + 16] = Quote /\ t[z + 17] = "scrolling" /\ t[z + 18] = Quote /\ t[z + 19] = ":"
      /\ t[z + 20] = tf
  BY <1>1 DEF LineSpelled, tf
<1>4. KeyAt(t, z + 16, "scrolling")
  <2>1. z + 16 \in 1..(Len(t) - 2) /\ (z + 16) + 1 = z + 17 /\ (z + 16) + 2 = z + 18
    BY <1>1
  <2> QED
    BY <1>3, <2>1 DEF KeyAt
<1>5. \A i \in 1..((z + 16) - 1) : ~KeyAt(t, i, "scrolling")
  <2>1. SUFFICES ASSUME NEW i \in 1..((z + 16) - 1), KeyAt(t, i, "scrolling") PROVE FALSE
    OBVIOUS
  <2>2. i \in 1..(z + 25) /\ i < z + 16
    BY <1>1
  <2>3. CASE line.badge # NoBadge /\ BadgeKey(line, i, "scrolling")
    <3>1. line.badge.shape # "scrolling" /\ line.badge.text # <<"scrolling">>
      BY <2>3 DEF IsPlainLine, IsLine
    <3> QED
      BY <2>3, <3>1 DEF BadgeKey
  <2>4. CASE LineKey(line, o, z, i, "scrolling")
    <3>1. i # z + 16
      BY <1>1, <2>2
    <3> QED
      BY <1>2, <2>4, <3>1 DEF LineKey
  <2> QED
    BY <1>1, <1>2, <2>1, <2>2, <2>3, <2>4, KeysShown
<1>6. ValueAt(t, "scrolling", z + 16, z + 16, z + 20)
  <2>1. z + 20 \in ((z + 16) + 4)..Len(t) /\ (z + 20) - 1 = z + 19
    <3> DEFINE n == Len(t)
    <3>1. z \in Nat /\ n \in Nat /\ z + 28 <= n
      BY <1>1
    <3> HIDE DEF n
    <3>2. z + 20 \in ((z + 16) + 4)..n
      BY <3>1
    <3>3. (z + 20) - 1 = z + 19
      BY <3>1
    <3> QED
      BY <3>2, <3>3 DEF n
  <2>3. z + 16 \in 1..(z + 16)
    BY <1>1
  <2>2. \A i \in ((z + 16) + 3)..((z + 20) - 2) : t[i] # ":"
    BY <1>1
  <2> QED
    BY <1>3, <1>4, <1>5, <2>1, <2>2, <2>3 DEF ValueAt
<1>7. ValueOf(t, "scrolling") = z + 20
  BY <1>1, <1>2, <1>6, ValueFound
<1>8. StringField(t, "scrolling") = <<tf>>
  <2>1. z + 20 # 0 /\ t[z + 20] \in Words
    BY <1>1, <1>2, <1>3
  <2>2. StringField(t, "scrolling") = <<t[z + 20]>>
    BY <1>7, <2>1, WordRead
  <2> QED
    BY <1>3, <2>2, Zenon
<1>9. CASE line.scroll
  <2>1. StringField(t, "scrolling") = <<"true">>
    BY <1>8, <1>9 DEF tf
  <2>2. BoolField(t, "scrolling", FALSE) = TRUE
    BY <2>1 DEF BoolField
  <2> QED
    BY <1>2, <1>9, <2>2
<1>10. CASE ~line.scroll
  <2>1. StringField(t, "scrolling") = <<"false">>
    BY <1>8, <1>10 DEF tf
  <2>2. BoolField(t, "scrolling", FALSE) = FALSE
    <3>1. <<"false">> \notin {<<"true">>, <<"1">>}
      OBVIOUS
    <3> QED
      BY <2>1, <3>1 DEF BoolField
  <2> QED
    BY <1>2, <1>10, <2>2
<1> QED
  BY <1>9, <1>10

\* extract_json_object_field() finds the object that is closed by its own last brace.
LEMMA ObjectRead ==
  ASSUME NEW t \in AnyText, NEW w, NEW p \in Nat, NEW v, ValueOf(t, w) = p + 1, Part(t, p, v),
         Enclosed(v, {OpenBrace}, {CloseBrace}), v[1] = OpenBrace, v[Len(v)] = CloseBrace
  PROVE  ObjectField(t, w) = v
<1> DEFINE n == Len(v)
           D(i) == Depth(t, {OpenBrace}, {CloseBrace}, p + 1, i)
           E(k) == Depth(v, {OpenBrace}, {CloseBrace}, 1, k)
           S == {i \in (p + 1)..Len(t) : t[i] = CloseBrace /\ D(i) = 0}
<1>1. v \in AnyText /\ n \in Nat /\ n >= 2 /\ Len(t) \in Nat /\ p + n <= Len(t)
  BY DEF Enclosed, AnyText, Part
<1>2. (\A k \in 1..(n - 1) : E(k) >= 1) /\ E(n) = 0
  BY DEF Enclosed
<1>3. \A k \in 0..n : D(p + k) = D(p) + E(k)
  <2>1. 1 <= p + 1 /\ p + 1 <= p + 1 /\ p + 1 \in Nat
    OBVIOUS
  <2>2. \A k \in 0..Len(v) : CountsAlike(t, p, v, {OpenBrace}, {CloseBrace}, p + 1, k)
    BY <1>1, <2>1, DepthOfPart
  <2> QED
    BY <2>2 DEF CountsAlike
<1>4. D(p) = 0
  <2>1. D((p + 1) - 1) = 0
    BY DepthOfNothing
  <2>2. (p + 1) - 1 = p
    OBVIOUS
  <2> QED
    BY <2>1, <2>2
<1>5. \A k \in 1..n : t[p + k] = v[k]
  BY DEF Part
<1>6. \A k \in 1..n : E(k) \in Int
  BY DepthIsInt
<1>7. t[p + 1] = OpenBrace /\ t[p + n] = CloseBrace
  <2>1. 1 \in 1..n /\ n \in 1..n
    BY <1>1
  <2> QED
    BY <1>5, <2>1
<1> HIDE DEF D, E, n
<1>8. p + n \in S
  <2>1. D(p + n) = 0
    <3>1. n \in 0..n
      BY <1>1
    <3> QED
      BY <1>2, <1>3, <1>4, <3>1
  <2>2. p + n \in (p + 1)..Len(t)
    BY <1>1
  <2> QED
    BY <1>7, <2>1, <2>2
<1>9. ASSUME NEW i \in S PROVE p + n <= i
  <2>1. SUFFICES ASSUME i < p + n PROVE FALSE
    BY <1>1
  <2>2. i - p \in 1..(n - 1) /\ i - p \in 0..n /\ p + (i - p) = i /\ i - p \in 1..n
    BY <1>1, <2>1
  <2>3. D(i) = 0 + E(i - p)
    BY <1>3, <1>4, <2>2
  <2>4. E(i - p) >= 1 /\ E(i - p) \in Int
    BY <1>2, <1>6, <2>2
  <2>5. D(i) = 0
    OBVIOUS
  <2> QED
    BY <2>3, <2>4, <2>5
<1>10. First(S) = p + n
  <2>1. S \in SUBSET Int
    BY <1>1
  <2> HIDE DEF S
  <2> QED
    BY <1>8, <1>9, <2>1, FirstIs
<1>11. SubSeq(t, p + 1, p + n) = v
  BY <1>1, PartIsSubSeq DEF n
<1>12. ObjectField(t, w) = IF p + 1 = 0 \/ t[p + 1] # OpenBrace \/ First(S) = 0 THEN <<>>
                           ELSE SubSeq(t, p + 1, First(S))
  BY Zenon DEF ObjectField, S, D
<1>13. p + 1 # 0 /\ p + n # 0
  BY <1>1
<1> QED
  BY <1>7, <1>10, <1>11, <1>12, <1>13, Zenon

\* The badge's object.
LEMMA BadgeFound ==
  ASSUME NEW t, NEW line, NEW o, NEW z, LineShown(t, line, o, z), IsPlainLine(line),
         line.badge # NoBadge, PairsUp(line.badge.text, {OpenBrace}, {CloseBrace})
  PROVE  ObjectField(t, "badge") = BadgeValue(line.badge)
<1> DEFINE badge == line.badge
           v == BadgeValue(badge)
           k == Len(badge.text)
<1>1. BadgeSpelled(t, badge, k) /\ BadgeLaid(t, badge) /\ t[1] = OpenBrace
  BY DEF LineShown
<1>2. /\ t \in AnyText /\ k \in Nat /\ k + 22 <= Len(t) /\ badge.text \in AnyText
      /\ t[2] = Quote /\ t[3] = "badge" /\ t[4] = Quote /\ t[5] = ":"
  BY <1>1 DEF BadgeSpelled
<1>3. Len(t) \in Nat
  BY <1>2 DEF AnyText
<1>4. badge.shape \in {"circle", "pill"} /\ badge.text \in AnyText
  BY DEF IsPlainLine, IsLine
<1>5. Kinds({OpenBrace}, {CloseBrace})
  BY DEF Kinds
<1>6. Quiet(badge.text, {OpenBrace}, {CloseBrace})
  BY <1>4 DEF Quiet
<1>7. Enclosed(v, {OpenBrace}, {CloseBrace})
  BY <1>4, <1>5, <1>6, BadgeEncloses
<1>8. Part(t, 5, v) /\ BadgeBody(v, badge)
  BY <1>1 DEF BadgeLaid
<1>9. v[1] = OpenBrace /\ v[Len(v)] = CloseBrace
  BY <1>8 DEF BadgeBody
<1> HIDE DEF v, k, badge
<1>10. KeyAt(t, 2, "badge")
  <2>1. 2 \in 1..(Len(t) - 2) /\ 2 + 1 = 3 /\ 2 + 2 = 4
    BY <1>2, <1>3
  <2> QED
    BY <1>2, <2>1 DEF KeyAt
<1>11. ValueAt(t, "badge", 2, 2, 6)
  <2>1. \A i \in 1..(2 - 1) : ~KeyAt(t, i, "badge")
    <3>1. \A i \in 1..(2 - 1) : i = 1
      OBVIOUS
    <3> QED
      BY <1>1, <3>1, MarksDiffer DEF KeyAt
  <2>2. \A i \in (2 + 3)..(6 - 2) : t[i] # ":"
    OBVIOUS
  <2>3. 2 \in 1..2 /\ 6 \in (2 + 4)..Len(t) /\ 6 - 1 = 5
    BY <1>2, <1>3
  <2> QED
    BY <1>2, <1>10, <2>1, <2>2, <2>3 DEF ValueAt
<1>12. ValueOf(t, "badge") = 5 + 1
  <2>1. "badge" \in Atoms
    BY MarksAreAtoms DEF Words
  <2>2. ValueOf(t, "badge") = 6
    BY <1>2, <1>11, <2>1, ValueFound
  <2> QED
    BY <2>2
<1>13. ObjectField(t, "badge") = v
  <2>1. 5 \in Nat
    OBVIOUS
  <2> QED
    BY <1>2, <1>7, <1>8, <1>9, <1>12, <2>1, ObjectRead
<1> QED
  BY <1>13 DEF v, badge

\* Its shape and its text.
LEMMA BadgeRead ==
  ASSUME NEW badge, badge.shape \in {"circle", "pill"}, badge.text \in AnyText, IsPlain(badge.text)
  PROVE  /\ StringField(BadgeValue(badge), "shape") = <<badge.shape>>
         /\ StringField(BadgeValue(badge), "text") = badge.text
<1> DEFINE v == BadgeValue(badge)
           k == Len(badge.text)
           word == <<badge.shape>>
<1>1. BadgeBody(v, badge)
  BY BadgeIsWritten
<1>2. v \in AnyText /\ Len(v) = k + 16 /\ k \in Nat
  BY <1>1 DEF BadgeBody, AnyText
<1>3. badge.shape \in Words /\ "shape" \in Words /\ "text" \in Words
  BY DEF Words
<1>4. "shape" \in Atoms /\ "text" \in Atoms /\ badge.shape \in Atoms
  BY <1>3, MarksAreAtoms
<1>5. /\ badge.shape # Quote /\ badge.shape # Escape /\ badge.shape # "text"
      /\ "shape" # Quote /\ "text" # Quote /\ "text" # Comma /\ "text" # ":" /\ "shape" # ":"
      /\ badge.shape # ":"
  BY <1>3, WordIsNoMark
<1>6. word \in AnyText /\ Len(word) = 1 /\ word[1] = badge.shape
  BY <1>4 DEF AnyText
<1> HIDE DEF word
<1>7. ObjectSpelled(v, 0, badge, k)
  <2>1. Part(v, 0, v)
    BY <1>2, WholeIsPart
  <2> HIDE DEF v
  <2> QED
    BY <1>1, <1>2, <2>1, ObjectIsSpelled
<1> HIDE DEF v, k
<1>8. /\ 0 + 1 = 1 /\ 0 + 2 = 2 /\ 0 + 3 = 3 /\ 0 + 4 = 4 /\ 0 + 5 = 5 /\ 0 + 6 = 6 /\ 0 + 7 = 7
      /\ 0 + 8 = 8 /\ 0 + 9 = 9 /\ 0 + 10 = 10 /\ 0 + 11 = 11 /\ 0 + 12 = 12 /\ 0 + 13 = 13
      /\ 0 + 14 = 14 /\ 0 + k + 15 = k + 15
  BY <1>2
<1>9. /\ v[1] = OpenBrace
      /\ v[2] = Quote /\ v[3] = "shape" /\ v[4] = Quote /\ v[5] = ":"
      /\ v[6] = Quote /\ v[7] = badge.shape /\ v[8] = Quote /\ v[9] = Comma
      /\ v[10] = Quote /\ v[11] = "text" /\ v[12] = Quote /\ v[13] = ":"
      /\ v[14] = Quote /\ Part(v, 14, badge.text) /\ v[k + 15] = Quote
  BY <1>7, <1>8, Zenon DEF ObjectSpelled
<1>10. KeyAt(v, 2, "shape") /\ KeyAt(v, 10, "text")
  <2>1. /\ 2 \in 1..(Len(v) - 2) /\ 2 + 1 = 3 /\ 2 + 2 = 4
        /\ 10 \in 1..(Len(v) - 2) /\ 10 + 1 = 11 /\ 10 + 2 = 12
    BY <1>2
  <2> QED
    BY <1>9, <2>1 DEF KeyAt
<1>11. ValueAt(v, "shape", 2, 2, 6)
  <2>1. \A i \in 1..(2 - 1) : ~KeyAt(v, i, "shape")
    <3>1. \A i \in 1..(2 - 1) : i = 1
      OBVIOUS
    <3> QED
      BY <1>9, <3>1, MarksDiffer DEF KeyAt
  <2>2. \A i \in (2 + 3)..(6 - 2) : v[i] # ":"
    OBVIOUS
  <2>3. 2 \in 1..2 /\ 6 \in (2 + 4)..Len(v) /\ 6 - 1 = 5
    BY <1>2
  <2> QED
    BY <1>9, <1>10, <2>1, <2>2, <2>3 DEF ValueAt
<1>12. ValueAt(v, "text", 10, 10, 14)
  <2>1. \A i \in 1..(10 - 1) : ~KeyAt(v, i, "text")
    <3>1. SUFFICES ASSUME NEW i \in 1..9, KeyAt(v, i, "text") PROVE FALSE
      OBVIOUS
    <3>2. v[i] = Quote /\ v[i + 1] = "text"
      BY <3>1 DEF KeyAt
    <3>3. i = 1 \/ i = 2 \/ i = 3 \/ i = 4 \/ i = 5 \/ i = 6 \/ i = 7 \/ i = 8 \/ i = 9
      OBVIOUS
    <3>4. 2 + 1 = 3 /\ 4 + 1 = 5 /\ 6 + 1 = 7 /\ 8 + 1 = 9 /\ "shape" # "text"
      OBVIOUS
    <3> QED
      BY <1>5, <1>9, <3>2, <3>3, <3>4, MarksDiffer, ZenonT(60)
  <2>2. \A i \in (10 + 3)..(14 - 2) : v[i] # ":"
    OBVIOUS
  <2>3. 10 \in 1..10 /\ 14 \in (10 + 4)..Len(v) /\ 14 - 1 = 13
    BY <1>2
  <2> QED
    BY <1>9, <1>10, <2>1, <2>2, <2>3 DEF ValueAt
<1>13. ValueOf(v, "shape") = 6 /\ ValueOf(v, "text") = 14
  BY <1>2, <1>4, <1>11, <1>12, ValueFound
<1>14. QuotedAt(v, 14, badge.text)
  <2>1. 14 + Len(badge.text) + 1 = k + 15 /\ k + 15 <= Len(v)
    BY <1>2 DEF k
  <2> QED
    BY <1>9, <2>1 DEF QuotedAt
<1>15. QuotedAt(v, 6, word)
  <2>1. 6 + Len(word) + 1 = 8 /\ 8 <= Len(v) /\ 6 + 1 = 7 /\ 6 + Len(word) <= Len(v)
    BY <1>2, <1>6
  <2>2. \A i \in 1..Len(word) : i = 1
    BY <1>6
  <2>3. IsPlain(word)
    BY <1>5, <1>6, <2>2 DEF IsPlain
  <2>4. v[6 + 1] = word[1]
    BY <1>6, <1>9, <2>1
  <2>5. Part(v, 6, word)
    BY <2>1, <2>2, <2>4 DEF Part
  <2> QED
    BY <1>6, <1>9, <2>1, <2>3, <2>5 DEF QuotedAt
<1>16. StringField(v, "shape") = word /\ StringField(v, "text") = badge.text
  BY <1>2, <1>13, <1>14, <1>15, StringRead
<1> QED
  BY <1>16 DEF v, word

(***************************************************************************)
(* The arrival times.                                                      *)
(***************************************************************************)
\* Where each stands: the comma before it behind a[i - 1], or the bracket.
EtasAt(t, a, line, z, close) ==
    /\ t \in AnyText /\ line.etas \in Seq(AnyText) /\ z \in Nat /\ close \in Nat
    /\ close >= z + 27 /\ close + 1 = Len(t)
    /\ t[z + 26] = "[" /\ t[close] = "]" /\ t[close + 1] = CloseBrace
    /\ Len(line.etas) = 0 => close = z + 27
    /\ Len(line.etas) >= 1 => a[1] = z + 26 /\ a[Len(line.etas) + 1] = close
    /\ \A i \in 1..Len(line.etas) :
           /\ a[i] \in Nat /\ a[i] >= z + 26
           /\ t[a[i] + 1] = Quote /\ Part(t, a[i] + 1, line.etas[i])
           /\ t[a[i] + Len(line.etas[i]) + 2] = Quote
           /\ a[i + 1] = a[i] + Len(line.etas[i]) + 3
    /\ \A i \in 2..Len(line.etas) : t[a[i]] = Comma

\* The items of a list, by where each begins.
ListFollows(list, g, items) ==
    /\ list \in AnyText
    /\ Len(items) = 0 => Len(list) = 0
    /\ Len(items) >= 1 => g[1] = 0 /\ g[Len(items) + 1] = Len(list) + 1
    /\ \A i \in 1..Len(items) :
           g[i] \in Nat /\ Part(list, g[i], items[i]) /\ g[i + 1] = g[i] + Len(items[i]) + 1
    /\ \A i \in 2..Len(items) : list[g[i]] = Comma

\* The items of every list stand so.
LEMMA ItemsOfList ==
  ASSUME NEW items \in Seq(AnyText)
  PROVE  \E g : ListFollows(Listed(items), g, items)
<1> DEFINE list == Listed(items)
           n == Len(items)
<1>1. PICK f : LaidOut(list, f, items)
  BY ListedIsLaidOut
<1> DEFINE g == [i \in 1..(n + 1) |-> IF i = 1 THEN 0 ELSE Len(f[i - 1]) + 1]
<1> HIDE DEF list
<1>2. n \in Nat /\ \A i \in 1..n : items[i] \in AnyText /\ Len(items[i]) \in Nat
  BY DEF AnyText
<1>3. /\ list \in AnyText /\ list = f[n]
      /\ \A i \in 0..n : f[i] \in AnyText
      /\ f[0] = <<>>
      /\ n >= 1 => Part(list, 0, items[1]) /\ Len(f[1]) = Len(items[1])
      /\ \A i \in 2..n :
             /\ Len(f[i]) = Len(f[i - 1]) + 1 + Len(items[i])
             /\ list[Len(f[i - 1]) + 1] = Comma
             /\ Part(list, Len(f[i - 1]) + 1, items[i])
  BY <1>1 DEF LaidOut
<1> DEFINE F(i) == Len(f[i])
           L(i) == Len(items[i])
<1>4. /\ \A i \in 0..n : F(i) \in Nat
      /\ \A i \in 1..n : L(i) \in Nat
      /\ n >= 1 => F(1) = L(1)
      /\ \A i \in 2..n : F(i) = F(i - 1) + 1 + L(i)
      /\ Len(list) = F(n)
      /\ g = [i \in 1..(n + 1) |-> IF i = 1 THEN 0 ELSE F(i - 1) + 1]
  <2>1. \A i \in 0..n : F(i) \in Nat
    BY <1>3 DEF AnyText
  <2>2. \A i \in 1..n : L(i) \in Nat
    BY <1>2
  <2>3. Len(list) = F(n)
    BY <1>3
  <2>4. \A i \in 2..n : F(i) = F(i - 1) + 1 + L(i)
    BY <1>3
  <2>5. n >= 1 => F(1) = L(1)
    BY <1>3
  <2>6. g = [i \in 1..(n + 1) |-> IF i = 1 THEN 0 ELSE F(i - 1) + 1]
    OBVIOUS
  <2> QED
    BY <2>1, <2>2, <2>3, <2>4, <2>5, <2>6, Zenon
<1>5. n = 0 => Len(list) = 0
  BY <1>3
<1> HIDE DEF F, L, g
<1>6. ASSUME NEW i \in 1..n PROVE g[i] \in Nat /\ g[i + 1] = g[i] + L(i) + 1
  <2>1. g[i + 1] = F(i) + 1
    <3>1. i + 1 \in 1..(n + 1) /\ i + 1 # 1 /\ (i + 1) - 1 = i
      BY <1>2
    <3> QED
      BY <1>4, <3>1
  <2>2. CASE i = 1
    <3>1. g[i] = 0 /\ F(i) = L(i) /\ L(i) \in Nat
      BY <1>2, <1>4, <2>2
    <3> QED
      BY <2>1, <3>1
  <2>3. CASE i # 1
    <3>1. i \in 2..n /\ i - 1 \in 0..n /\ i \in 1..(n + 1)
      BY <1>2, <2>3
    <3>2. g[i] = F(i - 1) + 1
      BY <1>4, <2>3, <3>1
    <3>3. F(i) = F(i - 1) + 1 + L(i) /\ F(i - 1) \in Nat /\ L(i) \in Nat
      BY <1>4, <3>1
    <3> QED
      BY <2>1, <3>2, <3>3
  <2> QED
    BY <2>2, <2>3
<1>7. ASSUME NEW i \in 1..n PROVE Part(list, g[i], items[i])
  <2>1. CASE i = 1
    <3>1. g[i] = 0 /\ n >= 1
      BY <1>2, <1>4, <2>1
    <3> QED
      BY <1>3, <2>1, <3>1
  <2>2. CASE i # 1
    <3>1. i \in 2..n /\ i \in 1..(n + 1)
      BY <1>2, <2>2
    <3>2. g[i] = Len(f[i - 1]) + 1
      BY <1>4, <2>2, <3>1 DEF F
    <3>3. Part(list, Len(f[i - 1]) + 1, items[i])
      BY <1>3, <3>1
    <3> QED
      BY <3>2, <3>3, Zenon
  <2> QED
    BY <2>1, <2>2
<1>8. ASSUME NEW i \in 2..n PROVE list[g[i]] = Comma
  <2>1. i # 1 /\ i \in 1..(n + 1)
    BY <1>2
  <2>2. g[i] = Len(f[i - 1]) + 1
    BY <1>4, <2>1 DEF F
  <2>3. list[Len(f[i - 1]) + 1] = Comma
    BY <1>3
  <2> QED
    BY <2>2, <2>3, Zenon
<1>9. n >= 1 => g[1] = 0 /\ g[n + 1] = Len(list) + 1
  <2> SUFFICES ASSUME n >= 1 PROVE g[1] = 0 /\ g[n + 1] = Len(list) + 1
    OBVIOUS
  <2>1. 1 \in 1..(n + 1) /\ n + 1 \in 1..(n + 1) /\ n + 1 # 1 /\ (n + 1) - 1 = n
    BY <1>2
  <2>2. g[1] = 0 /\ g[n + 1] = F(n) + 1
    BY <1>4, <2>1
  <2> QED
    BY <1>4, <2>2
<1>10. ListFollows(list, g, items)
  BY <1>3, <1>5, <1>6, <1>7, <1>8, <1>9 DEF ListFollows, L
<1> QED
  BY <1>10 DEF list

\* In the line's text.
LEMMA EtasStand ==
  ASSUME NEW t, NEW line, NEW o, NEW z, LineShown(t, line, o, z), IsLine(line),
         LineLaid(t, line, Listed(EtaTexts(line)), o)
  PROVE  \E a, close : EtasAt(t, a, line, z, close)
<1> DEFINE items == EtaTexts(line)
           list == Listed(items)
           n == Len(line.etas)
           close == z + Len(list) + 27
<1>1. line.etas \in Seq(AnyText) /\ n \in Nat
  BY DEF IsLine
<1>2. /\ items \in Seq(AnyText) /\ Len(items) = n /\ list \in AnyText
      /\ \A i \in 1..n : items[i] = Str(line.etas[i])
  BY <1>1, EtaTextsAre
<1>3. PICK g : ListFollows(list, g, items)
  BY <1>2, ItemsOfList
<1> DEFINE a == [i \in 1..(n + 1) |-> z + 26 + g[i]]
<1> HIDE DEF items
<1>4. z = o + Len(line.label) /\ z \in Nat /\ t \in AnyText /\ t[z + 26] = "["
  BY DEF LineShown, LineSpelled
<1> HIDE DEF list
<1>5. /\ o \in Nat /\ line.label \in AnyText
      /\ Len(t) = o + Len(line.label) + Len(list) + 28 /\ t[Len(t)] = CloseBrace
      /\ WrappedFieldAt(t, o + Len(line.label) + 21, "etas", "[", list, "]")
  BY DEF LineLaid, list, items
<1>6. Len(list) \in Nat /\ Len(line.label) \in Nat
  BY <1>2, <1>5 DEF AnyText
<1>7. Part(t, (o + Len(line.label) + 21) + 5, list)
      /\ t[(o + Len(line.label) + 21) + Len(list) + 6] = "]"
  BY <1>5 DEF WrappedFieldAt
<1>8. /\ (o + Len(line.label) + 21) + 5 = z + 26
      /\ (o + Len(line.label) + 21) + Len(list) + 6 = close
      /\ close + 1 = Len(t) /\ close >= z + 27 /\ close \in Nat
  BY <1>4, <1>5, <1>6
<1>9. Part(t, z + 26, list) /\ t[close] = "]" /\ t[close + 1] = CloseBrace
  BY <1>5, <1>7, <1>8, Zenon
<1>10. n = 0 => close = z + 27
  <2> SUFFICES ASSUME n = 0 PROVE close = z + 27
    OBVIOUS
  <2>1. Len(list) = 0
    BY <1>2, <1>3 DEF ListFollows
  <2> QED
    BY <1>4, <2>1
<1>11. ASSUME NEW i \in 1..n
       PROVE  /\ g[i] \in Nat /\ Part(list, g[i], Str(line.etas[i]))
              /\ g[i + 1] = g[i] + (Len(line.etas[i]) + 2) + 1
              /\ Wrapped(Str(line.etas[i]), Quote, line.etas[i], Quote)
              /\ line.etas[i] \in AnyText /\ Len(line.etas[i]) \in Nat
  <2>1. line.etas[i] \in AnyText
    BY <1>1
  <2>2. Wrapped(Str(line.etas[i]), Quote, line.etas[i], Quote)
    BY <2>1, StrIsWrapped
  <2>3. Len(Str(line.etas[i])) = Len(line.etas[i]) + 2
    BY <2>2 DEF Wrapped
  <2>4. items[i] = Str(line.etas[i]) /\ i \in 1..Len(items)
    BY <1>2
  <2>5. g[i] \in Nat /\ Part(list, g[i], items[i]) /\ g[i + 1] = g[i] + Len(items[i]) + 1
    BY <1>3, <2>4 DEF ListFollows
  <2>6. Len(line.etas[i]) \in Nat
    BY <2>1 DEF AnyText
  <2> QED
    BY <2>1, <2>2, <2>3, <2>4, <2>5, <2>6
<1>12. ASSUME NEW i \in 1..(n + 1) PROVE a[i] = z + 26 + g[i]
  OBVIOUS
<1> HIDE DEF a
<1>13. ASSUME NEW i \in 1..n
       PROVE  /\ a[i] \in Nat /\ a[i] >= z + 26
              /\ t[a[i] + 1] = Quote /\ Part(t, a[i] + 1, line.etas[i])
              /\ t[a[i] + Len(line.etas[i]) + 2] = Quote
              /\ a[i + 1] = a[i] + Len(line.etas[i]) + 3
  <2> DEFINE eta == line.etas[i]
             m == Len(eta)
             b == g[i]
  <2>1. /\ b \in Nat /\ Part(list, b, Str(eta)) /\ g[i + 1] = b + (m + 2) + 1
        /\ Wrapped(Str(eta), Quote, eta, Quote) /\ eta \in AnyText /\ m \in Nat
    BY <1>11
  <2>2. a[i] = z + 26 + b /\ a[i + 1] = z + 26 + g[i + 1]
    <3>1. i \in 1..(n + 1) /\ i + 1 \in 1..(n + 1)
      BY <1>1
    <3> QED
      BY <1>12, <3>1
  <2> HIDE DEF m, b, eta
  <2>3. Str(eta) \in AnyText
    BY <2>1 DEF Wrapped
  <2>4. Part(t, z + 26 + b, Str(eta))
    <3>1. Part(t, (z + 26) + b, Str(eta))
      BY <1>2, <1>4, <1>9, <2>1, <2>3, PartOfPart
    <3> QED
      BY <3>1
  <2>5. WrappedAt(t, a[i], Quote, eta, Quote)
    <3>1. Part(t, a[i], Str(eta))
      BY <2>2, <2>4, Zenon
    <3> QED
      BY <1>4, <2>1, <3>1, WrappedPart
  <2>6. t[a[i] + 1] = Quote /\ Part(t, a[i] + 1, eta) /\ t[a[i] + m + 2] = Quote
    BY <2>5 DEF WrappedAt, m
  <2>7. a[i] \in Nat /\ a[i] >= z + 26 /\ a[i + 1] = a[i] + m + 3
    <3> DEFINE here == a[i]
               next == a[i + 1]
               there == g[i + 1]
    <3>1. here = z + 26 + b /\ next = z + 26 + there /\ there = b + (m + 2) + 1
      BY <2>1, <2>2
    <3>2. z \in Nat /\ b \in Nat /\ m \in Nat
      BY <1>4, <2>1
    <3> HIDE DEF here, next, there
    <3>3. here \in Nat /\ here >= z + 26 /\ next = here + m + 3
      BY <3>1, <3>2
    <3> QED
      BY <3>3 DEF here, next
  <2> QED
    BY <2>6, <2>7 DEF m, eta
<1>14. ASSUME NEW i \in 2..n PROVE t[a[i]] = Comma
  <2>1. i \in 1..(n + 1) /\ i \in 1..n /\ i \in 2..Len(items)
    BY <1>1, <1>2
  <2>2. a[i] = (z + 26) + g[i] /\ g[i] \in Nat
    BY <1>11, <1>12, <2>1
  <2>3. list[g[i]] = Comma
    BY <1>3, <2>1 DEF ListFollows
  <2>4. g[i] \in 1..Len(list)
    <3>1. i - 1 \in 1..n /\ (i - 1) + 1 = i
      BY <1>1
    <3>2. g[i] = g[i - 1] + (Len(line.etas[i - 1]) + 2) + 1 /\ g[i - 1] \in Nat
          /\ Len(line.etas[i - 1]) \in Nat
      BY <1>11, <3>1
    <3>3. g[i] >= 1
      BY <3>2
    <3>4. g[i] + Len(Str(line.etas[i])) <= Len(list)
      BY <1>11, <2>1 DEF Part
    <3>5. Len(Str(line.etas[i])) \in Nat
      BY <1>11, <2>1 DEF Wrapped, AnyText
    <3> QED
      BY <1>6, <2>2, <3>3, <3>4, <3>5
  <2>5. t[(z + 26) + g[i]] = Comma
    BY <1>9, <2>3, <2>4 DEF Part
  <2> QED
    BY <2>2, <2>5
<1>15. n >= 1 => a[1] = z + 26 /\ a[n + 1] = close
  <2> SUFFICES ASSUME n >= 1 PROVE a[1] = z + 26 /\ a[n + 1] = close
    OBVIOUS
  <2>1. g[1] = 0 /\ g[n + 1] = Len(list) + 1
    BY <1>2, <1>3 DEF ListFollows
  <2>2. a[1] = z + 26 + g[1] /\ a[n + 1] = z + 26 + g[n + 1]
    <3>1. 1 \in 1..(n + 1) /\ n + 1 \in 1..(n + 1)
      BY <1>1
    <3> QED
      BY <1>12, <3>1
  <2> DEFINE first == g[1]
             last == g[n + 1]
             m == Len(list)
  <2>3. z \in Nat /\ m \in Nat /\ first = 0 /\ last = m + 1
    BY <1>4, <1>6, <2>1
  <2>4. a[1] = z + 26 + first /\ a[n + 1] = z + 26 + last /\ close = z + m + 27
    BY <2>2
  <2> HIDE DEF first, last, m, close
  <2>5. z + 26 + first = z + 26 /\ z + 26 + last = z + m + 27
    BY <2>3
  <2> QED
    BY <2>4, <2>5, Zenon
<1> HIDE DEF close
<1>16. EtasAt(t, a, line, z, close)
  BY <1>1, <1>4, <1>8, <1>9, <1>10, <1>13, <1>14, <1>15 DEF EtasAt
<1> QED
  BY <1>16

\* Every position between the brackets is a comma's or within one of the strings.
EtaAround(a, i, j) == (i = a[j] /\ j >= 2) \/ (a[j] < i /\ i < a[j + 1])

\* No position between the brackets is outside all of them.
LEMMA EtaIsAround ==
  ASSUME NEW t, NEW a, NEW line, NEW z, NEW close, EtasAt(t, a, line, z, close),
         NEW i \in (z + 27)..(close - 1)
  PROVE  \E j \in 1..Len(line.etas) : EtaAround(a, i, j)
<1> DEFINE n == Len(line.etas)
           S == {j \in 1..n : i < a[j + 1]}
<1>1. /\ n \in Nat /\ z \in Nat /\ close \in Nat
      /\ n = 0 => close = z + 27
      /\ n >= 1 => a[1] = z + 26 /\ a[n + 1] = close
  BY DEF EtasAt
<1> HIDE DEF n
<1>2. n >= 1
  BY <1>1
<1>3. n \in S
  BY <1>1, <1>2
<1>4. PICK j \in S : \A l \in S : j <= l
  <2>1. S \in SUBSET Nat
    BY <1>1
  <2> HIDE DEF S
  <2> QED
    BY <1>3, <2>1, LeastExists
<1>5. j \in 1..n /\ i < a[j + 1]
  OBVIOUS
<1>6. CASE j = 1
  <2>1. a[j] = z + 26
    BY <1>1, <1>2, <1>6
  <2>2. a[j] < i
    BY <1>1, <2>1
  <2> QED
    BY <1>5, <2>2 DEF EtaAround, n
<1>7. CASE j # 1
  <2>1. j - 1 \in 1..n /\ (j - 1) + 1 = j /\ j >= 2 /\ j \in Nat
    BY <1>1, <1>5, <1>7
  <2>2. ~(i < a[j])
    <3>1. SUFFICES ASSUME i < a[j] PROVE FALSE
      OBVIOUS
    <3>2. i < a[(j - 1) + 1]
      BY <2>1, <3>1, Zenon
    <3>3. j - 1 \in S
      BY <2>1, <3>2
    <3>4. j <= j - 1
      BY <1>4, <3>3
    <3> QED
      BY <2>1, <3>4
  <2>3. a[j] \in Nat
    BY <1>5 DEF EtasAt, n
  <2>4. i = a[j] \/ a[j] < i
    <3>1. i \in Int
      BY <1>1
    <3> QED
      BY <2>2, <2>3, <3>1
  <2> QED
    BY <1>5, <2>1, <2>4 DEF EtaAround, n
<1> QED
  BY <1>6, <1>7

\* No time has a quote or an escape.
ArePlain(line) == \A j \in 1..Len(line.etas) : IsPlain(line.etas[j])

\* One of the strings, with what is behind it.
EtaStands(t, b, eta, next) ==
    /\ t \in AnyText /\ b \in Nat /\ eta \in AnyText /\ IsPlain(eta)
    /\ t[b + 1] = Quote /\ Part(t, b + 1, eta) /\ t[b + Len(eta) + 2] = Quote
    /\ t[b + Len(eta) + 3] = next

\* Each of the times stands so, and the next one behind it.
LEMMA EtaIsStanding ==
  ASSUME NEW t, NEW a, NEW line, NEW z, NEW close, EtasAt(t, a, line, z, close), ArePlain(line),
         NEW j \in 1..Len(line.etas)
  PROVE  /\ EtaStands(t, a[j], line.etas[j], IF j = Len(line.etas) THEN "]" ELSE Comma)
         /\ a[j + 1] = a[j] + Len(line.etas[j]) + 3
<1> DEFINE n == Len(line.etas)
           eta == line.etas[j]
           b == a[j]
<1>1. /\ t \in AnyText /\ line.etas \in Seq(AnyText) /\ b \in Nat
      /\ t[b + 1] = Quote /\ Part(t, b + 1, eta) /\ t[b + Len(eta) + 2] = Quote
      /\ a[j + 1] = b + Len(eta) + 3
  BY DEF EtasAt
<1>2. eta \in AnyText /\ IsPlain(eta) /\ n \in Nat
  BY <1>1 DEF ArePlain
<1>3. t[a[j + 1]] = IF j = n THEN "]" ELSE Comma
  <2>1. CASE j = n
    <3>1. n >= 1
      BY <1>2
    <3>2. a[n + 1] = close /\ t[close] = "]"
      BY <3>1 DEF EtasAt
    <3> QED
      BY <2>1, <3>2, Zenon
  <2>2. CASE j # n
    <3>1. j + 1 \in 2..n
      BY <1>2, <2>2
    <3>2. t[a[j + 1]] = Comma
      BY <3>1 DEF EtasAt
    <3> QED
      BY <2>2, <3>2
  <2> QED
    BY <2>1, <2>2
<1>4. t[b + Len(eta) + 3] = IF j = n THEN "]" ELSE Comma
  BY <1>1, <1>3, Zenon
<1> QED
  BY <1>1, <1>2, <1>4 DEF EtaStands

\* What is within a string.
LEMMA WithinEta ==
  ASSUME NEW t, NEW b, NEW eta, NEW next, EtaStands(t, b, eta, next),
         NEW i \in (b + 2)..(b + Len(eta) + 1)
  PROVE  t[i] = eta[i - (b + 1)] /\ t[i] # Quote /\ t[i] # Escape
<1>1. b \in Nat /\ eta \in AnyText /\ Len(eta) \in Nat /\ Part(t, b + 1, eta) /\ IsPlain(eta)
  BY DEF EtaStands, AnyText
<1>2. i - (b + 1) \in 1..Len(eta) /\ (b + 1) + (i - (b + 1)) = i
  BY <1>1
<1>3. t[(b + 1) + (i - (b + 1))] = eta[i - (b + 1)]
  BY <1>1, <1>2 DEF Part
<1>4. eta[i - (b + 1)] # Quote /\ eta[i - (b + 1)] # Escape
  BY <1>1, <1>2 DEF IsPlain
<1> QED
  BY <1>2, <1>3, <1>4, Zenon

\* A key in the list is a time of that one word.
LEMMA KeyInEta ==
  ASSUME NEW t, NEW b, NEW eta, NEW next, EtaStands(t, b, eta, next), next \in {"]", Comma},
         NEW w \in Words, NEW i \in (b + 1)..(b + Len(eta) + 2), KeyAt(t, i, w)
  PROVE  eta = <<w>>
<1> DEFINE m == Len(eta)
<1>1. b \in Nat /\ eta \in AnyText /\ m \in Nat
  BY DEF EtaStands, AnyText
<1>2. t[i] = Quote /\ t[i + 1] = w /\ t[i + 2] = Quote
  BY DEF KeyAt
<1>3. w # Quote /\ w # Comma /\ w # "]"
  BY WordIsNoMark
<1>4. t[b + m + 2] = Quote /\ t[b + m + 3] = next
  BY DEF EtaStands
<1>5. \A l \in (b + 2)..(b + m + 1) : t[l] = eta[l - (b + 1)] /\ t[l] # Quote
  BY WithinEta
<1> HIDE DEF m
<1>6. CASE i = b + m + 2
  <2>1. i + 1 = b + m + 3
    BY <1>1, <1>6
  <2> QED
    BY <1>2, <1>3, <1>4, <2>1, Zenon
<1>7. CASE i = b + 1
  <2>1. i + 1 = b + 2 /\ i + 2 = b + 3
    BY <1>1, <1>7
  <2>2. t[b + 2] = w /\ t[b + 3] = Quote
    BY <1>2, <2>1, Zenon
  <2>3. CASE m = 0
    <3>1. b + m + 2 = b + 2
      BY <1>1, <2>3
    <3> QED
      BY <1>3, <1>4, <2>2, <3>1, Zenon
  <2>4. CASE m = 1
    <3>1. b + 2 \in (b + 2)..(b + m + 1) /\ (b + 2) - (b + 1) = 1
      BY <1>1, <2>4
    <3>2. eta[1] = w
      BY <1>5, <2>2, <3>1
    <3>3. eta = <<eta[1]>>
      BY <1>1, <2>4, OneAtom DEF m
    <3> QED
      BY <3>2, <3>3, Zenon
  <2>5. CASE m >= 2
    <3>1. b + 3 \in (b + 2)..(b + m + 1)
      BY <1>1, <2>5
    <3> QED
      BY <1>5, <2>2, <3>1
  <2>6. m = 0 \/ m = 1 \/ m >= 2
    BY <1>1
  <2> QED
    BY <2>3, <2>4, <2>5, <2>6, Zenon
<1>8. CASE i \in (b + 2)..(b + m + 1)
  BY <1>2, <1>5, <1>8
<1>9. i = b + m + 2 \/ i = b + 1 \/ i \in (b + 2)..(b + m + 1)
  BY <1>1 DEF m
<1> QED
  BY <1>6, <1>7, <1>8, <1>9, Zenon

\* An arrival time of the line is this one word.
IsEta(line, w) == \E j \in 1..Len(line.etas) : line.etas[j] = <<w>>

\* No key is in the list but as a time of its own.
LEMMA KeyInEtas ==
  ASSUME NEW t, NEW a, NEW line, NEW z, NEW close, EtasAt(t, a, line, z, close), ArePlain(line),
         NEW w \in Words, NEW i \in (z + 26)..Len(t), KeyAt(t, i, w)
  PROVE  IsEta(line, w)
<1>1. /\ z \in Nat /\ close \in Nat /\ close + 1 = Len(t) /\ close >= z + 27
      /\ t[z + 26] = "[" /\ t[close] = "]" /\ t[close + 1] = CloseBrace
  BY DEF EtasAt
<1>2. t[i] = Quote
  BY DEF KeyAt
<1>3. i # z + 26 /\ i # close /\ i # close + 1
  BY <1>1, <1>2, MarksDiffer, Zenon
<1>4. i \in (z + 27)..(close - 1)
  BY <1>1, <1>3
<1>5. PICK j \in 1..Len(line.etas) : EtaAround(a, i, j)
  BY <1>4, EtaIsAround
<1> DEFINE next == IF j = Len(line.etas) THEN "]" ELSE Comma
<1>6. /\ EtaStands(t, a[j], line.etas[j], next)
      /\ a[j + 1] = a[j] + Len(line.etas[j]) + 3
  BY EtaIsStanding
<1>7. a[j] \in Nat /\ Len(line.etas[j]) \in Nat
  BY <1>6 DEF EtaStands, AnyText
<1>8. next \in {"]", Comma}
  OBVIOUS
<1> HIDE DEF next
<1>9. CASE i = a[j] /\ j >= 2
  <2>1. j \in 2..Len(line.etas)
    BY <1>9
  <2>2. t[a[j]] = Comma
    BY <2>1 DEF EtasAt
  <2> QED
    BY <1>2, <1>9, <2>2, MarksDiffer, Zenon
<1>10. CASE a[j] < i /\ i < a[j + 1]
  <2>1. i \in (a[j] + 1)..(a[j] + Len(line.etas[j]) + 2)
    <3> DEFINE b == a[j]
               c == a[j + 1]
               m == Len(line.etas[j])
    <3>1. b \in Nat /\ m \in Nat /\ c = b + m + 3 /\ b < i /\ i < c
      BY <1>6, <1>7, <1>10
    <3>2. i \in Int
      BY <1>1, <1>4
    <3> HIDE DEF b, c, m
    <3>3. i \in (b + 1)..(b + m + 2)
      BY <3>1, <3>2
    <3> QED
      BY <3>3 DEF b, m
  <2>2. line.etas[j] = <<w>>
    BY <1>6, <1>8, <2>1, KeyInEta
  <2> QED
    BY <2>2 DEF IsEta
<1> QED
  BY <1>5, <1>9, <1>10 DEF EtaAround

\* A line without a badge shows none.
LEMMA NoBadgeFound ==
  ASSUME NEW t, NEW line, NEW o, NEW z, LineShown(t, line, o, z), IsPlainLine(line),
         NEW a, NEW close, EtasAt(t, a, line, z, close), ArePlain(line),
         line.badge = NoBadge, \A j \in 1..Len(line.etas) : line.etas[j] # <<"badge">>
  PROVE  ObjectField(t, "badge") = <<>>
<1>0. ASSUME NEW w \in Words, NEW i \in (z + 26)..Len(t), KeyAt(t, i, w)
      PROVE  IsEta(line, w)
  BY <1>0, KeyInEtas
<1>1. /\ LineSpelled(t, line, o, z) /\ t \in AnyText /\ o \in Nat /\ o >= 1 /\ z \in Nat
      /\ z = o + Len(line.label) /\ z + 28 <= Len(t) /\ line.label \in AnyText
      /\ Len(line.label) \in Nat /\ Len(t) \in Nat
  BY LineIsMeasured DEF LineMeasures
<1>2. "badge" \in Words /\ "badge" \in Atoms /\ line.status \in {"ok", "delayed"}
  BY MarksAreAtoms DEF Words, IsPlainLine, IsLine
<1>3. ASSUME NEW i \in 1..(z + 25), KeyAt(t, i, "badge")
      PROVE  i = o + 5 /\ line.label = <<"badge">>
  <2>1. LineKey(line, o, z, i, "badge")
    BY <1>2, <1>3, KeysShown
  <2> QED
    BY <1>2, <2>1 DEF LineKey
<1>4. ObjectField(t, "badge") = <<>> \/ (ValueOf(t, "badge") # 0 /\ t[ValueOf(t, "badge")] = OpenBrace)
  <2> DEFINE start == ValueOf(t, "badge")
             end == First({i \in start..Len(t) : t[i] = CloseBrace
                               /\ Depth(t, {OpenBrace}, {CloseBrace}, start, i) = 0})
  <2>1. ObjectField(t, "badge") = IF start = 0 \/ t[start] # OpenBrace \/ end = 0 THEN <<>>
                                  ELSE SubSeq(t, start, end)
    BY Zenon DEF ObjectField
  <2> HIDE DEF start, end
  <2>2. ObjectField(t, "badge") = <<>> \/ (start # 0 /\ t[start] = OpenBrace)
    BY <2>1, Zenon
  <2> QED
    BY <2>2, Zenon DEF start
<1>5. CASE line.label = <<"badge">>
  <2>1. Len(line.label) = 1 /\ z = o + 1
    <3>1. Len(line.label) = 1
      BY <1>5
    <3> QED
      BY <1>1, <3>1
  <2>2. /\ t[o + 5] = Quote /\ Part(t, o + 5, line.label) /\ t[z + 6] = Quote
        /\ t[z + 11] = ":" /\ t[z + 12] = Quote
    BY <1>1 DEF LineSpelled
  <2>3. t[(o + 5) + 1] = "badge"
    <3>1. 1 \in 1..Len(line.label) /\ line.label[1] = "badge"
      BY <1>5
    <3> QED
      BY <2>2, <3>1 DEF Part
  <2>4. KeyAt(t, o + 5, "badge")
    <3>1. o + 5 \in 1..(Len(t) - 2)
      BY <1>1, <2>1
    <3>2. (o + 5) + 2 = z + 6
      BY <1>1, <2>1
    <3> QED
      BY <2>2, <2>3, <3>1, <3>2 DEF KeyAt
  <2>5. ValueAt(t, "badge", o + 5, o + 5, z + 12)
    <3>1. \A i \in 1..((o + 5) - 1) : ~KeyAt(t, i, "badge")
      <4>1. SUFFICES ASSUME NEW i \in 1..((o + 5) - 1), KeyAt(t, i, "badge") PROVE FALSE
        OBVIOUS
      <4>2. i \in 1..(z + 25) /\ i # o + 5
        BY <1>1, <2>1
      <4> QED
        BY <1>3, <4>1, <4>2
    <3>2. \A i \in ((o + 5) + 3)..((z + 12) - 2) : t[i] # ":"
      <4>1. (o + 5) + 3 = z + 7 /\ (z + 12) - 2 = z + 10
        BY <1>1, <2>1
      <4>2. \A i \in (z + 7)..(z + 10) : t[i] # ":"
        BY <1>1, NoColonBehindLabel
      <4> QED
        BY <4>1, <4>2, Zenon
    <3>3. o + 5 \in 1..(o + 5)
      BY <1>1
    <3>4. z + 12 \in ((o + 5) + 4)..Len(t) /\ (z + 12) - 1 = z + 11
      BY <1>1, <2>1
    <3> QED
      BY <2>2, <2>4, <3>1, <3>2, <3>3, <3>4 DEF ValueAt
  <2>6. ValueOf(t, "badge") = z + 12
    BY <1>1, <1>2, <2>5, ValueFound
  <2> QED
    BY <1>4, <2>2, <2>6, MarksDiffer, Zenon
<1>6. CASE line.label # <<"badge">>
  <2>1. NoKey(t, "badge")
    <3>1. SUFFICES ASSUME NEW i \in 1..Len(t), KeyAt(t, i, "badge") PROVE FALSE
      BY DEF NoKey
    <3>2. CASE i <= z + 25
      <4>1. i \in 1..(z + 25)
        BY <1>1, <3>2
      <4> QED
        BY <1>3, <1>6, <3>1, <4>1
    <3>3. CASE ~(i <= z + 25)
      <4>1. i \in (z + 26)..Len(t)
        <5> DEFINE n == Len(t)
        <5>1. z \in Nat /\ n \in Nat /\ i \in 1..n
          BY <1>1, <3>1
        <5> HIDE DEF n
        <5>2. i \in (z + 26)..n
          BY <3>3, <5>1
        <5> QED
          BY <5>2 DEF n
      <4> DEFINE word == "badge"
      <4>2. word \in Words /\ KeyAt(t, i, word)
        BY <1>2, <3>1
      <4> HIDE DEF word
      <4>3. IsEta(line, word)
        BY <4>1, <4>2, <1>0
      <4> QED
        BY <4>3 DEF word, IsEta
    <3> QED
      BY <3>2, <3>3
  <2>2. ValueOf(t, "badge") = 0
    BY <1>1, <1>2, <2>1, ValueMissing
  <2> QED
    BY <1>4, <2>2, Zenon
<1> QED
  BY <1>5, <1>6

\* Between the label and the array of times there is no bracket.
LEMMA NoBracketBehindLabel ==
  ASSUME NEW t, NEW line, NEW o, NEW z, LineSpelled(t, line, o, z), IsLine(line)
  PROVE  \A i \in (z + 6)..(z + 25) : t[i] # "["
<1> DEFINE tf == IF line.scroll THEN "true" ELSE "false"
<1>1. z \in Nat
  BY DEF LineSpelled
<1>2. /\ line.status # "[" /\ tf # "["
      /\ "status" # "[" /\ "scrolling" # "[" /\ "etas" # "["
  BY WordIsNoMark DEF Words, IsLine
<1> HIDE DEF tf
<1>3. /\ t[z + 6] = Quote /\ t[z + 7] = Comma
      /\ t[z + 8] = Quote /\ t[z + 9] = "status" /\ t[z + 10] = Quote /\ t[z + 11] = ":"
      /\ t[z + 12] = Quote /\ t[z + 13] = line.status /\ t[z + 14] = Quote /\ t[z + 15] = Comma
      /\ t[z + 16] = Quote /\ t[z + 17] = "scrolling" /\ t[z + 18] = Quote /\ t[z + 19] = ":"
      /\ t[z + 20] = tf /\ t[z + 21] = Comma
      /\ t[z + 22] = Quote /\ t[z + 23] = "etas" /\ t[z + 24] = Quote /\ t[z + 25] = ":"
  BY DEF LineSpelled, tf
<1>4. ASSUME NEW i \in (z + 6)..(z + 15) PROVE t[i] # "["
  <2>1. \/ i = z + 6 \/ i = z + 7 \/ i = z + 8 \/ i = z + 9 \/ i = z + 10
        \/ i = z + 11 \/ i = z + 12 \/ i = z + 13 \/ i = z + 14 \/ i = z + 15
    BY <1>1
  <2> QED
    BY <1>2, <1>3, <2>1, MarksDiffer, ZenonT(60)
<1>5. ASSUME NEW i \in (z + 16)..(z + 25) PROVE t[i] # "["
  <2>1. \/ i = z + 16 \/ i = z + 17 \/ i = z + 18 \/ i = z + 19 \/ i = z + 20
        \/ i = z + 21 \/ i = z + 22 \/ i = z + 23 \/ i = z + 24 \/ i = z + 25
    BY <1>1
  <2> QED
    BY <1>2, <1>3, <2>1, MarksDiffer, ZenonT(60)
<1>6. \A i \in (z + 6)..(z + 25) : i \in (z + 6)..(z + 15) \/ i \in (z + 16)..(z + 25)
  BY <1>1
<1> QED
  BY <1>4, <1>5, <1>6

\* The array is found, whichever string looks like its key.
LEMMA EtasFound ==
  ASSUME NEW t, NEW line, NEW o, NEW z, LineShown(t, line, o, z), IsPlainLine(line),
         line.badge # NoBadge /\ line.badge.text = <<"etas">> =>
             \A i \in 1..Len(line.label) : line.label[i] # "["
  PROVE  \E v \in Nat : v # 0 /\ ValueOf(t, "etas") = v /\ IndexOf(t, <<"[">>, v) = z + 26
<1>1. /\ LineSpelled(t, line, o, z) /\ t \in AnyText /\ o \in Nat /\ o >= 1 /\ z \in Nat
      /\ z = o + Len(line.label) /\ z + 28 <= Len(t) /\ line.label \in AnyText
      /\ Len(line.label) \in Nat /\ Len(t) \in Nat
  BY LineIsMeasured DEF LineMeasures
<1>2. /\ "etas" \in Words /\ "etas" \in Atoms /\ line.status \in {"ok", "delayed"} /\ "[" \in Atoms
      /\ IsLine(line)
  BY MarksAreAtoms DEF Words, IsPlainLine, IsLine
<1>3. \A i \in (z + 6)..(z + 25) : t[i] # "["
  BY <1>1, <1>2, NoBracketBehindLabel
<1>4. t[z + 26] = "["
  BY <1>1 DEF LineSpelled
<1>5. ASSUME NEW v \in Nat, v >= z + 6, v <= z + 26, ValueOf(t, "etas") = v
      PROVE  v # 0 /\ ValueOf(t, "etas") = v /\ IndexOf(t, <<"[">>, v) = z + 26
  <2>1. v # 0 /\ v \in 1..(z + 26) /\ z + 26 \in 1..Len(t)
    BY <1>1, <1>5
  <2>2. \A i \in v..((z + 26) - 1) : t[i] # "["
    <3>1. \A i \in v..((z + 26) - 1) : i \in (z + 6)..(z + 25)
      BY <1>1, <1>5
    <3> QED
      BY <1>3, <3>1
  <2>3. FoundAt(t, "[", v, z + 26)
    BY <1>4, <2>1, <2>2 DEF FoundAt
  <2> QED
    BY <1>1, <1>2, <1>5, <2>1, <2>3, AtomFound
<1>6. CASE line.badge # NoBadge /\ line.badge.text = <<"etas">>
  <2> DEFINE badge == line.badge
             k == Len(badge.text)
  <2>1. k = 1
    BY <1>6
  <2>2. o = 23 /\ \A i \in 22..26 : t[i] # ":"
    BY <1>6, <2>1, NoColonBehindBadge
  <2>3. BadgeSpelled(t, badge, k)
    BY <1>6 DEF LineShown
  <2>4. t[19] = Quote /\ Part(t, 19, badge.text) /\ t[1 + 20] = Quote
    BY <2>1, <2>3 DEF BadgeSpelled
  <2>5. t[19 + 1] = "etas"
    <3>1. 1 \in 1..Len(badge.text) /\ badge.text[1] = "etas"
      BY <1>6
    <3> QED
      BY <2>4, <3>1 DEF Part
  <2>6. KeyAt(t, 19, "etas")
    <3>1. 19 \in 1..(Len(t) - 2)
      BY <1>1, <2>2
    <3>2. 19 + 2 = 1 + 20
      OBVIOUS
    <3> QED
      BY <2>4, <2>5, <3>1, <3>2 DEF KeyAt
  <2>7. t[o + 4] = ":" /\ t[o + 5] = Quote
    BY <1>1 DEF LineSpelled
  <2>8. ValueAt(t, "etas", 19, 19, 28)
    <3>1. \A i \in 1..(19 - 1) : ~KeyAt(t, i, "etas")
      <4>1. SUFFICES ASSUME NEW i \in 1..18, KeyAt(t, i, "etas") PROVE FALSE
        OBVIOUS
      <4>2. i \in 1..(z + 25) /\ i <= o
        BY <1>1, <2>2
      <4>3. BadgeKey(line, i, "etas")
        BY <1>1, <1>2, <4>1, <4>2, KeysShown
      <4>4. line.badge.shape # "etas"
        BY <1>6 DEF IsPlainLine, IsLine
      <4> QED
        BY <4>3, <4>4 DEF BadgeKey
    <3>2. 19 + 3 = 22 /\ 28 - 2 = 26 /\ 23 + 4 = 27 /\ 28 - 1 = 27
      OBVIOUS
    <3>3. \A i \in (19 + 3)..(28 - 2) : t[i] # ":"
      BY <2>2, <3>2, Zenon
    <3>4. 19 \in 1..19 /\ 28 \in (19 + 4)..Len(t)
      BY <1>1, <2>2
    <3>5. t[28 - 1] = ":"
      BY <2>2, <2>7, <3>2, Zenon
    <3> QED
      BY <2>6, <3>1, <3>3, <3>4, <3>5 DEF ValueAt
  <2>9. ValueOf(t, "etas") = 28
    BY <1>1, <1>2, <2>8, ValueFound
  <2>10. \A i \in 28..((z + 26) - 1) : t[i] # "["
    <3>1. SUFFICES ASSUME NEW i \in 28..(z + 25) PROVE t[i] # "["
      BY <1>1
    <3>2. CASE i = 28
      <4>1. 23 + 5 = 28
        OBVIOUS
      <4> QED
        BY <2>2, <2>7, <3>2, <4>1, MarksDiffer, Zenon
    <3>3. CASE i \in 29..(z + 5)
      <4>1. i - 28 \in 1..Len(line.label) /\ (o + 5) + (i - 28) = i
        BY <1>1, <2>2, <3>3
      <4>2. Part(t, o + 5, line.label)
        BY <1>1 DEF LineSpelled
      <4>3. t[(o + 5) + (i - 28)] = line.label[i - 28]
        BY <4>1, <4>2 DEF Part
      <4>4. line.label[i - 28] # "["
        BY <1>6, <4>1
      <4> QED
        BY <4>1, <4>3, <4>4, Zenon
    <3>4. CASE i \in (z + 6)..(z + 25)
      BY <1>3, <3>4
    <3>5. i = 28 \/ i \in 29..(z + 5) \/ i \in (z + 6)..(z + 25)
      BY <1>1
    <3> QED
      BY <3>2, <3>3, <3>4, <3>5
  <2>11. FoundAt(t, "[", 28, z + 26)
    <3>1. 28 \in 1..(z + 26) /\ z + 26 \in 1..Len(t)
      BY <1>1, <2>2
    <3> QED
      BY <1>4, <2>10, <3>1 DEF FoundAt
  <2>12. IndexOf(t, <<"[">>, 28) = z + 26
    BY <1>1, <1>2, <2>11, AtomFound
  <2>13. 28 \in Nat /\ 28 # 0
    OBVIOUS
  <2> QED
    BY <2>9, <2>12, <2>13
<1>7. ASSUME ~(line.badge # NoBadge /\ line.badge.text = <<"etas">>),
             NEW i \in 1..(z + 25), KeyAt(t, i, "etas")
      PROVE  (i = o + 5 /\ line.label = <<"etas">>) \/ i = z + 22
  <2>1. CASE line.badge # NoBadge /\ BadgeKey(line, i, "etas")
    <3>1. line.badge.shape # "etas"
      BY <2>1 DEF IsPlainLine, IsLine
    <3> QED
      BY <1>7, <2>1, <3>1 DEF BadgeKey
  <2>2. CASE LineKey(line, o, z, i, "etas")
    BY <1>2, <2>2 DEF LineKey
  <2> QED
    BY <1>2, <1>7, <2>1, <2>2, KeysShown
<1>8. CASE ~(line.badge # NoBadge /\ line.badge.text = <<"etas">>) /\ line.label = <<"etas">>
  <2>1. Len(line.label) = 1 /\ z = o + 1
    <3>1. Len(line.label) = 1
      BY <1>8
    <3> QED
      BY <1>1, <3>1
  <2>2. /\ t[o + 5] = Quote /\ Part(t, o + 5, line.label) /\ t[z + 6] = Quote
        /\ t[z + 11] = ":" /\ t[z + 12] = Quote
    BY <1>1 DEF LineSpelled
  <2>3. t[(o + 5) + 1] = "etas"
    <3>1. 1 \in 1..Len(line.label) /\ line.label[1] = "etas"
      BY <1>8
    <3> QED
      BY <2>2, <3>1 DEF Part
  <2>4. KeyAt(t, o + 5, "etas")
    <3>1. o + 5 \in 1..(Len(t) - 2)
      BY <1>1, <2>1
    <3>2. (o + 5) + 2 = z + 6
      BY <1>1, <2>1
    <3> QED
      BY <2>2, <2>3, <3>1, <3>2 DEF KeyAt
  <2>5. ValueAt(t, "etas", o + 5, o + 5, z + 12)
    <3>1. \A i \in 1..((o + 5) - 1) : ~KeyAt(t, i, "etas")
      <4>1. SUFFICES ASSUME NEW i \in 1..((o + 5) - 1), KeyAt(t, i, "etas") PROVE FALSE
        OBVIOUS
      <4>2. i \in 1..(z + 25) /\ i # o + 5 /\ i # z + 22
        BY <1>1, <2>1
      <4> QED
        BY <1>7, <1>8, <4>1, <4>2
    <3>2. \A i \in ((o + 5) + 3)..((z + 12) - 2) : t[i] # ":"
      <4>1. (o + 5) + 3 = z + 7 /\ (z + 12) - 2 = z + 10
        BY <1>1, <2>1
      <4>2. \A i \in (z + 7)..(z + 10) : t[i] # ":"
        BY <1>1, NoColonBehindLabel
      <4> QED
        BY <4>1, <4>2, Zenon
    <3>3. o + 5 \in 1..(o + 5)
      BY <1>1
    <3>4. z + 12 \in ((o + 5) + 4)..Len(t) /\ (z + 12) - 1 = z + 11
      BY <1>1, <2>1
    <3> QED
      BY <2>2, <2>4, <3>1, <3>2, <3>3, <3>4 DEF ValueAt
  <2>6. ValueOf(t, "etas") = z + 12
    BY <1>1, <1>2, <2>5, ValueFound
  <2>7. z + 12 \in Nat /\ z + 12 >= z + 6 /\ z + 12 <= z + 26
    BY <1>1
  <2> QED
    BY <1>5, <2>6, <2>7
<1>9. CASE ~(line.badge # NoBadge /\ line.badge.text = <<"etas">>) /\ line.label # <<"etas">>
  <2>1. t[z + 22] = Quote /\ t[z + 23] = "etas" /\ t[z + 24] = Quote /\ t[z + 25] = ":"
    BY <1>1 DEF LineSpelled
  <2>2. KeyAt(t, z + 22, "etas")
    <3>1. z + 22 \in 1..(Len(t) - 2) /\ (z + 22) + 1 = z + 23 /\ (z + 22) + 2 = z + 24
      BY <1>1
    <3> QED
      BY <2>1, <3>1 DEF KeyAt
  <2>3. ValueAt(t, "etas", z + 22, z + 22, z + 26)
    <3>1. \A i \in 1..((z + 22) - 1) : ~KeyAt(t, i, "etas")
      <4>1. SUFFICES ASSUME NEW i \in 1..((z + 22) - 1), KeyAt(t, i, "etas") PROVE FALSE
        OBVIOUS
      <4>2. i \in 1..(z + 25) /\ i # z + 22
        BY <1>1
      <4> QED
        BY <1>7, <1>9, <4>1, <4>2
    <3>2. \A i \in ((z + 22) + 3)..((z + 26) - 2) : t[i] # ":"
      <4>1. SUFFICES ASSUME NEW i \in ((z + 22) + 3)..((z + 26) - 2) PROVE FALSE
        OBVIOUS
      <4>2. z \in Nat
        BY <1>1
      <4> QED
        BY <4>2
    <3>3. z + 22 \in 1..(z + 22)
      BY <1>1
    <3>4. z + 26 \in ((z + 22) + 4)..Len(t) /\ (z + 26) - 1 = z + 25
      BY <1>1
    <3> QED
      BY <2>1, <2>2, <3>1, <3>2, <3>3, <3>4 DEF ValueAt
  <2>4. ValueOf(t, "etas") = z + 26
    BY <1>1, <1>2, <2>3, ValueFound
  <2>5. z + 26 \in Nat /\ z + 26 >= z + 6 /\ z + 26 <= z + 26
    BY <1>1
  <2> QED
    BY <1>5, <2>4, <2>5
<1> QED
  BY <1>6, <1>8, <1>9

(***************************************************************************)
(* The bracket that ends the arrival times, by the scan that knows quotes. *)
(***************************************************************************)
Outside == [escaped |-> FALSE, quoted |-> FALSE, counts |-> FALSE]
ScanStates == [escaped : BOOLEAN, quoted : BOOLEAN, counts : BOOLEAN]

\* One atom further.
Scanned(x, before) ==
    LET escapes == ~before.escaped /\ x = Escape
        quotes == ~before.escaped /\ x = Quote
    IN  [escaped |-> escapes,
         quoted |-> IF quotes THEN ~before.quoted ELSE before.quoted,
         counts |-> ~before.escaped /\ ~escapes /\ ~quotes /\ ~before.quoted]

\* A scan of the text that begins at `from`.
IsScan(scan, text, from) ==
    /\ scan[from - 1] = Outside
    /\ \A i \in from..Len(text) : scan[i] = Scanned(text[i], scan[i - 1])

\* The scan that Structure() makes is one.
LEMMA StructureScans ==
  ASSUME NEW text \in AnyText, NEW from \in 1..Len(text)
  PROVE  \E scan : /\ IsScan(scan, text, from)
                   /\ Structure(text, from) = {i \in from..Len(text) : scan[i].counts}
<1> DEFINE n == Len(text)
           advance == [pair \in ScanStates \X Nat |->
                          IF pair[2] < from THEN Outside ELSE Scanned(text[pair[2]], pair[1])]
           IsUpTo(f) == f = [i \in 0..n |->
                                IF i < from THEN Outside ELSE Scanned(text[i], f[i - 1])]
           upTo == CHOOSE f : IsUpTo(f)
<1>1. n \in Nat /\ from \in Nat /\ from >= 1 /\ from <= n
  BY DEF AnyText
<1>2. Structure(text, from) = {i \in from..n : upTo[i].counts}
  BY DEF Structure, Scanned, Outside
<1>3. Outside \in ScanStates
  BY DEF Outside, ScanStates
<1>4. ASSUME NEW x, NEW before \in ScanStates PROVE Scanned(x, before) \in ScanStates
  <2>1. before.escaped \in BOOLEAN /\ before.quoted \in BOOLEAN
    BY DEF ScanStates
  <2> QED
    BY <2>1, Zenon DEF Scanned, ScanStates
<1> HIDE DEF n
<1>5. advance \in [ScanStates \X Nat -> ScanStates]
  BY <1>3, <1>4
<1>6. \A s \in ScanStates, i \in Nat :
          advance[<<s, i>>] = IF i < from THEN Outside ELSE Scanned(text[i], s)
  OBVIOUS
<1> HIDE DEF advance
<1>7. \E f : IsUpTo(f)
  <2>1. PICK f : Runs(f, ScanStates, Outside, advance, n)
    BY <1>1, <1>3, <1>5, StepByStep, Zenon
  <2>2. ASSUME NEW i \in 0..n
        PROVE  f[i] = IF i < from THEN Outside ELSE Scanned(text[i], f[i - 1])
    <3>1. CASE i = 0
      BY <1>1, <2>1, <3>1 DEF Runs
    <3>2. CASE i # 0
      <4>1. i \in 1..n /\ i - 1 \in 0..n /\ i \in Nat
        BY <1>1, <3>2
      <4>2. f[i] = advance[<<f[i - 1], i>>] /\ f[i - 1] \in ScanStates
        BY <2>1, <3>2, <4>1 DEF Runs
      <4> QED
        BY <1>6, <4>1, <4>2
    <3> QED
      BY <3>1, <3>2
  <2>3. f = [i \in 0..n |-> f[i]]
    BY <2>1 DEF Runs
  <2>4. IsUpTo(f)
    BY <2>2, <2>3
  <2> QED
    BY <2>4
<1>8. IsUpTo(upTo)
  <2> HIDE DEF IsUpTo
  <2> QED
    BY <1>7
<1> HIDE DEF upTo
<1>9. upTo[from - 1] = Outside
  <2>1. from - 1 \in 0..n /\ from - 1 < from
    BY <1>1
  <2> QED
    BY <1>8, <2>1
<1>10. ASSUME NEW i \in from..n PROVE upTo[i] = Scanned(text[i], upTo[i - 1])
  <2>1. i \in 0..n /\ ~(i < from)
    BY <1>1
  <2> QED
    BY <1>8, <2>1
<1> HIDE DEF IsUpTo
<1>11. IsScan(upTo, text, from)
  BY <1>9, <1>10 DEF IsScan, n
<1> QED
  BY <1>2, <1>11 DEF n

\* Outside of every string.
Clean(state) == ~state.escaped /\ ~state.quoted
\* Within a string.
Within(state) == ~state.escaped /\ state.quoted /\ ~state.counts

\* Outside of strings an atom that is neither quote nor escape.
LEMMA StaysClean ==
  ASSUME NEW x, NEW before, NEW now, now = Scanned(x, before), Clean(before), x # Quote, x # Escape
  PROVE  Clean(now) /\ now.counts
BY Zenon DEF Scanned, Clean

\* The quote that opens a string.
LEMMA StringOpens ==
  ASSUME NEW before, NEW now, NEW x, now = Scanned(x, before), x = Quote, Clean(before)
  PROVE  Within(now)
<1>1. Quote # Escape
  BY MarksDiffer, Zenon
<1> QED
  BY <1>1, Zenon DEF Scanned, Clean, Within

\* An atom of the string.
LEMMA StaysWithin ==
  ASSUME NEW x, NEW before, NEW now, now = Scanned(x, before), Within(before), x # Quote, x # Escape
  PROVE  Within(now)
BY Zenon DEF Scanned, Within

\* The quote that closes it.
LEMMA StringCloses ==
  ASSUME NEW before, NEW now, NEW x, now = Scanned(x, before), x = Quote, Within(before)
  PROVE  Clean(now) /\ ~now.counts
<1>1. Quote # Escape
  BY MarksDiffer, Zenon
<1> QED
  BY <1>1, Zenon DEF Scanned, Clean, Within

\* Over one of the strings the scan counts nothing.
StringScanned(scan, b, m) ==
    /\ \A i \in (b + 1)..(b + m + 2) : ~scan[i].counts
    /\ Clean(scan[b + m + 2])

\* The scan goes over every string so.
LEMMA ScanOfEta ==
  ASSUME NEW t, NEW b, NEW eta, NEW next, EtaStands(t, b, eta, next),
         NEW scan, NEW from \in Nat, IsScan(scan, t, from), from <= b, Clean(scan[b]),
         b + Len(eta) + 2 <= Len(t)
  PROVE  StringScanned(scan, b, Len(eta))
<1> DEFINE m == Len(eta)
           T == {k \in Nat : k <= m => Within(scan[b + 1 + k])}
<1>1. b \in Nat /\ eta \in AnyText /\ m \in Nat /\ Len(t) \in Nat /\ b + m + 2 <= Len(t)
  BY DEF EtaStands, AnyText
<1>2. t[b + 1] = Quote /\ t[b + m + 2] = Quote
  BY DEF EtaStands
<1>3. \A i \in (b + 2)..(b + m + 1) : t[i] # Quote /\ t[i] # Escape
  BY WithinEta
<1>4. \A i \in from..Len(t) : scan[i] = Scanned(t[i], scan[i - 1])
  BY DEF IsScan
<1> HIDE DEF m
<1>5. 0 \in T
  <2>1. b + 1 \in from..Len(t) /\ (b + 1) - 1 = b /\ b + 1 + 0 = b + 1
    BY <1>1
  <2>2. scan[b + 1] = Scanned(t[b + 1], scan[b])
    BY <1>4, <2>1
  <2>3. Within(scan[b + 1])
    BY <1>2, <2>2, StringOpens
  <2> QED
    BY <2>1, <2>3
<1>6. ASSUME NEW k \in Nat, k \in T PROVE k + 1 \in T
  <2> SUFFICES ASSUME k + 1 <= m PROVE Within(scan[b + 1 + (k + 1)])
    OBVIOUS
  <2> DEFINE i == b + k + 2
  <2>1. i \in from..Len(t) /\ i - 1 = b + 1 + k /\ i = b + 1 + (k + 1) /\ i \in (b + 2)..(b + m + 1)
    BY <1>1
  <2>2. k <= m
    BY <1>1
  <2>3. Within(scan[b + 1 + k])
    BY <1>6, <2>2
  <2> HIDE DEF i
  <2>4. scan[i] = Scanned(t[i], scan[i - 1]) /\ t[i] # Quote /\ t[i] # Escape
    BY <1>3, <1>4, <2>1
  <2>5. Within(scan[i - 1])
    BY <2>1, <2>3, Zenon
  <2>6. Within(scan[i])
    BY <2>4, <2>5, StaysWithin
  <2> QED
    BY <2>1, <2>6, Zenon
<1> HIDE DEF T
<1>7. Nat \subseteq T
  BY <1>5, <1>6, NumbersByInduction
<1>8. ASSUME NEW i \in (b + 1)..(b + m + 1) PROVE Within(scan[i])
  <2>1. i - (b + 1) \in Nat /\ i - (b + 1) <= m /\ b + 1 + (i - (b + 1)) = i
    BY <1>1
  <2> QED
    BY <1>7, <2>1 DEF T
<1>9. Clean(scan[b + m + 2]) /\ ~scan[b + m + 2].counts
  <2>1. b + m + 2 \in from..Len(t) /\ (b + m + 2) - 1 = b + m + 1
        /\ b + m + 1 \in (b + 1)..(b + m + 1)
    BY <1>1
  <2>2. scan[b + m + 2] = Scanned(t[b + m + 2], scan[b + m + 1])
    BY <1>4, <2>1
  <2>3. Within(scan[b + m + 1])
    BY <1>8, <2>1
  <2> QED
    BY <1>2, <2>2, <2>3, StringCloses
<1>10. ASSUME NEW i \in (b + 1)..(b + m + 2) PROVE ~scan[i].counts
  <2>1. CASE i = b + m + 2
    BY <1>9, <2>1
  <2>2. CASE i # b + m + 2
    <3>1. i \in (b + 1)..(b + m + 1)
      BY <1>1, <2>2
    <3> QED
      BY <1>8, <3>1 DEF Within
  <2> QED
    BY <2>1, <2>2
<1> QED
  BY <1>9, <1>10 DEF StringScanned, m

\* The scan of the times: clean where each begins, and where the list ends.
LEMMA ScanOfEtas ==
  ASSUME NEW t, NEW a, NEW line, NEW z, NEW close, EtasAt(t, a, line, z, close), ArePlain(line),
         NEW scan, IsScan(scan, t, z + 26)
  PROVE  /\ Clean(scan[close]) /\ scan[close].counts /\ scan[z + 26].counts
         /\ \A j \in 1..Len(line.etas) : StringScanned(scan, a[j], Len(line.etas[j]))
<1> DEFINE n == Len(line.etas)
           from == z + 26
           T == {k \in Nat : k + 1 <= n => Clean(scan[a[k + 1]])}
<1>1. /\ t \in AnyText /\ z \in Nat /\ close \in Nat /\ close >= z + 27 /\ close + 1 = Len(t)
      /\ t[z + 26] = "[" /\ t[close] = "]" /\ n \in Nat
      /\ n = 0 => close = z + 27
      /\ n >= 1 => a[1] = z + 26 /\ a[n + 1] = close
  BY DEF EtasAt
<1>2. from \in Nat /\ scan[from - 1] = Outside
      /\ \A i \in from..Len(t) : scan[i] = Scanned(t[i], scan[i - 1])
  BY <1>1 DEF IsScan
<1>3. Clean(scan[from]) /\ scan[from].counts
  <2>1. from \in from..Len(t)
    BY <1>1
  <2>2. scan[from] = Scanned(t[from], Outside)
    BY <1>2, <2>1
  <2>3. Clean(Outside)
    BY DEF Clean, Outside
  <2>4. t[from] # Quote /\ t[from] # Escape
    BY <1>1, MarksDiffer, Zenon
  <2> QED
    BY <2>2, <2>3, <2>4, StaysClean
<1> HIDE DEF n, from
<1>4. ASSUME NEW j \in 1..n, Clean(scan[a[j]])
      PROVE  /\ StringScanned(scan, a[j], Len(line.etas[j]))
             /\ Clean(scan[a[j + 1]]) /\ scan[a[j + 1]].counts
  <2> DEFINE eta == line.etas[j]
             b == a[j]
             m == Len(eta)
             c == a[j + 1]
             next == IF j = Len(line.etas) THEN "]" ELSE Comma
  <2>1. /\ EtaStands(t, b, eta, next) /\ c = b + m + 3
        /\ b \in Nat /\ b >= z + 26 /\ m \in Nat
    <3>1. EtaStands(t, b, eta, next) /\ c = b + m + 3
      BY EtaIsStanding DEF n
    <3>2. b \in Nat /\ b >= z + 26
      BY DEF EtasAt, n
    <3>3. m \in Nat
      BY <3>1 DEF EtaStands, AnyText
    <3> QED
      BY <3>1, <3>2, <3>3
  <2>2. c <= close
    <3>1. CASE j = n
      <4>1. n >= 1
        BY <1>1
      <4>2. c = close
        BY <1>1, <3>1, <4>1
      <4> QED
        BY <1>1, <4>2
    <3>2. CASE j # n
      <4>1. j + 1 \in 1..n
        BY <1>1, <3>2
      <4>2. a[j + 1] \in Nat /\ t[a[j + 1] + 1] = Quote /\ Part(t, a[j + 1] + 1, line.etas[j + 1])
            /\ Len(line.etas[j + 1]) \in Nat
        <5>1. line.etas[j + 1] \in AnyText
          BY <4>1 DEF EtasAt, n
        <5>2. a[j + 1] \in Nat /\ t[a[j + 1] + 1] = Quote
              /\ Part(t, a[j + 1] + 1, line.etas[j + 1])
          BY <4>1 DEF EtasAt, n
        <5>3. Len(line.etas[j + 1]) \in Nat
          BY <5>1 DEF AnyText
        <5> QED
          BY <5>2, <5>3
      <4>3. c + 1 + Len(line.etas[j + 1]) <= Len(t)
        BY <4>2 DEF Part
      <4>4. c + 1 <= Len(t) /\ c \in Nat
        <5> DEFINE l == Len(t)
                   k == Len(line.etas[j + 1])
        <5>1. c + 1 + k <= l /\ l \in Nat /\ k \in Nat /\ c \in Nat
          BY <1>1, <4>2, <4>3 DEF AnyText
        <5> HIDE DEF l, k, c
        <5>2. c + 1 <= l
          BY <5>1
        <5> QED
          BY <5>1, <5>2 DEF l
      <4> HIDE DEF c
      <4>5. c <= close
        BY <1>1, <4>4
      <4> QED
        BY <4>5
    <3> QED
      BY <3>1, <3>2
  <2> HIDE DEF b, eta, m, c
  <2>3. from \in Nat /\ from <= b /\ b + m + 2 <= Len(t) /\ c \in from..Len(t) /\ c - 1 = b + m + 2
    BY <1>1, <2>1, <2>2 DEF from
  <2>4. Clean(scan[b]) /\ IsScan(scan, t, from)
    BY <1>4 DEF b, from
  <2> HIDE DEF next
  <2>5. StringScanned(scan, b, m)
    BY <2>1, <2>3, <2>4, ScanOfEta DEF m
  <2>6. Clean(scan[c - 1])
    BY <2>3, <2>5 DEF StringScanned
  <2>7. scan[c] = Scanned(t[c], scan[c - 1])
    BY <1>2, <2>3
  <2>8. t[c] # Quote /\ t[c] # Escape
    <3>1. t[c] = next
      BY <2>1, Zenon DEF EtaStands, m
    <3>2. next = "]" \/ next = Comma
      BY DEF next
    <3> QED
      BY <3>1, <3>2, MarksDiffer, Zenon
  <2>9. Clean(scan[c]) /\ scan[c].counts
    BY <2>6, <2>7, <2>8, StaysClean
  <2> QED
    BY <2>5, <2>9 DEF b, c, m, eta
<1>5. 0 \in T
  <2>1. n >= 1 => Clean(scan[a[1]])
    BY <1>1, <1>3, Zenon DEF from
  <2> QED
    BY <1>1, <2>1
<1>6. ASSUME NEW k \in Nat, k \in T PROVE k + 1 \in T
  <2> SUFFICES ASSUME (k + 1) + 1 <= n PROVE Clean(scan[a[(k + 1) + 1]])
    OBVIOUS
  <2>1. k + 1 \in 1..n
    BY <1>1
  <2>2. Clean(scan[a[k + 1]])
    BY <1>6, <2>1
  <2> QED
    BY <1>4, <2>1, <2>2
<1> HIDE DEF T
<1>7. Nat \subseteq T
  BY <1>5, <1>6, NumbersByInduction
<1>8. ASSUME NEW j \in 1..n PROVE Clean(scan[a[j]])
  <2>1. j - 1 \in Nat /\ (j - 1) + 1 = j /\ j <= n
    BY <1>1
  <2>2. (j - 1) + 1 <= n => Clean(scan[a[(j - 1) + 1]])
    BY <1>7, <2>1 DEF T
  <2> QED
    BY <2>1, <2>2
<1>9. Clean(scan[close]) /\ scan[close].counts
  <2>1. CASE n = 0
    <3>1. close = from + 1
      BY <1>1, <2>1 DEF from
    <3>2. close \in from..Len(t) /\ close - 1 = from
      BY <1>1, <3>1 DEF from
    <3>3. scan[close] = Scanned(t[close], scan[from])
      BY <1>2, <3>2
    <3>4. t[close] # Quote /\ t[close] # Escape
      BY <1>1, MarksDiffer, Zenon
    <3> QED
      BY <1>3, <3>3, <3>4, StaysClean
  <2>2. CASE n # 0
    <3>1. n \in 1..n /\ n >= 1
      BY <1>1, <2>2
    <3>2. Clean(scan[a[n + 1]]) /\ scan[a[n + 1]].counts
      BY <1>4, <1>8, <3>1
    <3>3. a[n + 1] = close
      BY <1>1, <3>1
    <3> QED
      BY <3>2, <3>3, Zenon
  <2> QED
    BY <2>1, <2>2
<1>10. \A j \in 1..n : StringScanned(scan, a[j], Len(line.etas[j]))
  BY <1>4, <1>8
<1> QED
  BY <1>3, <1>9, <1>10 DEF n, from

\* find_matching_bracket() finds the end of the list.
LEMMA CloseFound ==
  ASSUME NEW t, NEW a, NEW line, NEW z, NEW close, EtasAt(t, a, line, z, close), ArePlain(line)
  PROVE  MatchingBracket(t, z + 26) = close
<1> DEFINE from == z + 26
           counted == Structure(t, from)
           Count(i, x) == {j \in counted : j <= i /\ t[j] = x}
           Ends == {i \in counted : t[i] = "]" /\ Cardinality(Count(i, "[")) - Cardinality(Count(i, "]")) = 0}
<1>1. /\ t \in AnyText /\ z \in Nat /\ close \in Nat /\ close >= z + 27 /\ close + 1 = Len(t)
      /\ t[z + 26] = "[" /\ t[close] = "]"
  BY DEF EtasAt
<1>2. MatchingBracket(t, from) = First(Ends)
  BY DEF MatchingBracket
<1>3. from \in 1..Len(t)
  BY <1>1
<1>4. PICK scan : IsScan(scan, t, from) /\ counted = {i \in from..Len(t) : scan[i].counts}
  BY <1>1, <1>3, StructureScans
<1>5. /\ scan[close].counts /\ scan[from].counts
      /\ \A j \in 1..Len(line.etas) : StringScanned(scan, a[j], Len(line.etas[j]))
  BY <1>4, ScanOfEtas
<1> HIDE DEF counted
<1>6. from \in counted /\ close \in counted
  BY <1>1, <1>3, <1>4, <1>5
<1>7. ASSUME NEW i \in counted, i < close PROVE i = from \/ t[i] = Comma
  <2>1. i \in from..Len(t) /\ scan[i].counts
    BY <1>4
  <2>2. SUFFICES ASSUME i # from PROVE t[i] = Comma
    OBVIOUS
  <2>3. i \in (z + 27)..(close - 1)
    BY <1>1, <1>7, <2>1, <2>2
  <2>4. PICK j \in 1..Len(line.etas) : EtaAround(a, i, j)
    BY <2>3, EtaIsAround
  <2>5. CASE i = a[j] /\ j >= 2
    <3>1. j \in 2..Len(line.etas)
      BY <2>5
    <3>2. t[a[j]] = Comma
      BY <3>1 DEF EtasAt
    <3> QED
      BY <2>5, <3>2, Zenon
  <2>6. CASE a[j] < i /\ i < a[j + 1]
    <3> DEFINE b == a[j]
               m == Len(line.etas[j])
               c == a[j + 1]
    <3>1. c = b + m + 3 /\ b \in Nat /\ m \in Nat
      <4>1. EtaStands(t, b, line.etas[j], IF j = Len(line.etas) THEN "]" ELSE Comma) /\ c = b + m + 3
        BY EtaIsStanding
      <4> QED
        BY <4>1 DEF EtaStands, AnyText
    <3>2. StringScanned(scan, b, m)
      BY <1>5
    <3>3. b < i /\ i < c /\ i \in Int
      BY <1>1, <2>3, <2>6
    <3> HIDE DEF b, m, c
    <3>4. i \in (b + 1)..(b + m + 2)
      BY <3>1, <3>3
    <3> QED
      BY <2>1, <3>2, <3>4 DEF StringScanned
  <2> QED
    BY <2>4, <2>5, <2>6 DEF EtaAround
<1>8. counted \subseteq Int
  <2>1. from \in Int /\ Len(t) \in Int
    BY <1>1
  <2> QED
    BY <1>4, <2>1
<1> HIDE DEF from
<1>9. t[from] = "["
  BY <1>1 DEF from
<1>10. \A i \in counted : i < close => t[i] # "]"
  BY <1>7, <1>9, MarksDiffer, Zenon
<1>11. Count(close, "[") = {from}
  <2>1. ASSUME NEW j \in counted, j <= close, t[j] = "[" PROVE j = from
    <3>1. j < close
      <4>1. j # close
        BY <1>1, <2>1, MarksDiffer, Zenon
      <4>2. j \in Int
        BY <1>8
      <4> QED
        BY <1>1, <2>1, <4>1, <4>2
    <3>2. t[j] # Comma
      BY <2>1, MarksDiffer, Zenon
    <3> QED
      BY <1>7, <3>1, <3>2
  <2>2. from <= close
    BY <1>1 DEF from
  <2> QED
    BY <1>6, <1>9, <2>1, <2>2
<1>12. Count(close, "]") = {close}
  <2>1. ASSUME NEW j \in counted, j <= close, t[j] = "]" PROVE j = close
    <3>1. ~(j < close)
      BY <1>10, <2>1
    <3>2. j \in Int
      BY <1>8
    <3> QED
      BY <1>1, <2>1, <3>1, <3>2
  <2>2. close <= close
    BY <1>1
  <2> QED
    BY <1>1, <1>6, <2>1, <2>2
<1>13. close \in Ends
  <2>1. Cardinality({from}) = 1 /\ Cardinality({close}) = 1
    BY FS_Singleton
  <2>2. Cardinality(Count(close, "[")) - Cardinality(Count(close, "]")) = 1 - 1
    BY <1>11, <1>12, <2>1
  <2> HIDE DEF Count
  <2>3. Cardinality(Count(close, "[")) - Cardinality(Count(close, "]")) = 0
    BY <2>2
  <2> QED
    BY <1>1, <1>6, <2>3
<1>14. \A i \in Ends : close <= i
  <2> SUFFICES ASSUME NEW i \in Ends PROVE close <= i
    OBVIOUS
  <2>1. i \in counted /\ t[i] = "]"
    OBVIOUS
  <2>2. ~(i < close) /\ i \in Int
    BY <1>8, <1>10, <2>1
  <2> QED
    BY <1>1, <2>2
<1>15. Ends \in SUBSET Int
  BY <1>8
<1> HIDE DEF Ends
<1> QED
  BY <1>2, <1>13, <1>14, <1>15, FirstIs DEF from

(***************************************************************************)
(* The loop that reads the strings of the list.                            *)
(***************************************************************************)
\* One round of it.
ReadOn(t, close, before) ==
    LET start == First({i \in before.at..(close - 1) : t[i] # Comma})
        end == IF start = 0 THEN 0 ELSE IndexOf(t, <<Quote>>, start + 1)
    IN  IF start = 0 \/ t[start] # Quote \/ end = 0 \/ end > close
        THEN before
        ELSE [at |-> end + 1, values |-> Append(before.values, SubSeq(t, start + 1, end - 1))]

\* At a string's quote, or at the comma before it.
StringAt(t, b, pos) == pos = b + 1 \/ (pos = b /\ t[b] = Comma)

\* From there the round reads the string.
LEMMA ReadsString ==
  ASSUME NEW t, NEW b, NEW eta, NEW next, EtaStands(t, b, eta, next), NEW close \in Nat,
         b + Len(eta) + 3 <= close, close <= Len(t), NEW pos, NEW values,
         StringAt(t, b, pos)
  PROVE  ReadOn(t, close, [at |-> pos, values |-> values]) =
             [at |-> b + Len(eta) + 3, values |-> Append(values, eta)]
<1> DEFINE m == Len(eta)
           S == {i \in pos..(close - 1) : t[i] # Comma}
           start == First(S)
           end == IndexOf(t, <<Quote>>, start + 1)
           cut == SubSeq(t, start + 1, end - 1)
<1>1. /\ t \in AnyText /\ b \in Nat /\ eta \in AnyText /\ m \in Nat /\ Len(t) \in Nat /\ IsPlain(eta)
      /\ t[b + 1] = Quote /\ Part(t, b + 1, eta) /\ t[b + m + 2] = Quote
      /\ (pos = b + 1 \/ (pos = b /\ t[b] = Comma))
  BY DEF EtaStands, AnyText, StringAt
<1> HIDE DEF m
<1>2. b + m + 3 <= close
  BY DEF m
<1>3. b + 1 \in S
  <2>1. b + 1 \in pos..(close - 1)
    BY <1>1, <1>2
  <2>2. t[b + 1] # Comma
    BY <1>1, MarksDiffer, Zenon
  <2> QED
    BY <2>1, <2>2
<1>4. \A i \in S : b + 1 <= i
  <2> SUFFICES ASSUME NEW i \in pos..(close - 1), t[i] # Comma, i < b + 1 PROVE FALSE
    BY <1>1
  <2>1. i = b /\ pos = b
    BY <1>1
  <2> QED
    BY <1>1, <2>1
<1>5. S \in SUBSET Int
  BY <1>1
<1> HIDE DEF S
<1>6. start = b + 1
  BY <1>3, <1>4, <1>5, FirstIs
<1>7. EndsAtQuote(t, b + 1, eta)
  <2>1. (b + 1) + m + 1 = b + m + 2 /\ b + m + 2 <= Len(t) /\ b + 1 \in Nat /\ b + 1 >= 1
    BY <1>1, <1>2
  <2>2. t[(b + 1) + m + 1] = Quote
    BY <1>1, <2>1, Zenon
  <2>3. (b + 1) + m + 1 <= Len(t)
    BY <2>1
  <2>4. QuotedAt(t, b + 1, eta)
    BY <1>1, <2>1, <2>2, <2>3 DEF QuotedAt, m
  <2> QED
    BY <1>1, <2>4, QuoteFound
<1>8. end = b + m + 2 /\ cut = eta
  <2>1. IndexOf(t, <<Quote>>, (b + 1) + 1) = (b + 1) + m + 1
    BY <1>7 DEF EndsAtQuote, m
  <2>2. SubSeq(t, (b + 1) + 1, (b + 1) + m) = eta
    BY <1>7 DEF EndsAtQuote, m
  <2> HIDE DEF start
  <2>3. end = (b + 1) + m + 1
    BY <1>6, <2>1
  <2> HIDE DEF end
  <2>4. end = b + m + 2 /\ end - 1 = (b + 1) + m
    BY <1>1, <2>3
  <2>5. cut = SubSeq(t, (b + 1) + 1, (b + 1) + m)
    BY <1>6, <2>4, Zenon
  <2> QED
    BY <2>2, <2>4, <2>5, Zenon
<1>9. ReadOn(t, close, [at |-> pos, values |-> values]) =
          LET finish == IF start = 0 THEN 0 ELSE end
          IN  IF start = 0 \/ t[start] # Quote \/ finish = 0 \/ finish > close
              THEN [at |-> pos, values |-> values]
              ELSE [at |-> finish + 1, values |-> Append(values, SubSeq(t, start + 1, finish - 1))]
  BY DEF ReadOn, S
<1> HIDE DEF start, end
<1>10. start # 0 /\ t[start] = Quote /\ end # 0 /\ ~(end > close) /\ end + 1 = b + m + 3
  BY <1>1, <1>2, <1>6, <1>8
<1>11. ReadOn(t, close, [at |-> pos, values |-> values]) =
          [at |-> end + 1, values |-> Append(values, cut)]
  BY <1>9, <1>10
<1> HIDE DEF cut
<1> QED
  BY <1>8, <1>10, <1>11, Zenon DEF m

\* At the end of the list it reads nothing.
LEMMA ReadsNothing ==
  ASSUME NEW t, NEW close \in Nat, NEW before, before.at = close
  PROVE  ReadOn(t, close, before) = before
<1>1. {i \in before.at..(close - 1) : t[i] # Comma} = {}
  BY before.at = close
<1> QED
  BY <1>1, FirstOfNothing DEF ReadOn

\* What the first k strings come to.
ReadTo(a, etas, z, k) ==
    LET n == IF k < Len(etas) THEN k ELSE Len(etas)
    IN  [at |-> IF n = 0 THEN z + 27 ELSE a[n + 1], values |-> SubSeq(etas, 1, n)]

\* Every round reads one string more, as long as there is one.
LEMMA ReadsOn ==
  ASSUME NEW t, NEW a, NEW line, NEW z, NEW close, EtasAt(t, a, line, z, close), ArePlain(line),
         NEW k \in Nat
  PROVE  ReadOn(t, close, ReadTo(a, line.etas, z, k)) = ReadTo(a, line.etas, z, k + 1)
<1> DEFINE etas == line.etas
           n == Len(etas)
<1>1. /\ t \in AnyText /\ z \in Nat /\ close \in Nat /\ close + 1 = Len(t)
      /\ etas \in Seq(AnyText) /\ n \in Nat
      /\ n = 0 => close = z + 27
      /\ n >= 1 => a[1] = z + 26 /\ a[n + 1] = close
  BY DEF EtasAt
<1> HIDE DEF n
<1>2. CASE k >= n
  <2> DEFINE before == ReadTo(a, etas, z, k)
  <2>1. before.at = (IF n = 0 THEN z + 27 ELSE a[n + 1]) /\ ReadTo(a, etas, z, k + 1) = before
    <3>1. (IF k < n THEN k ELSE n) = n /\ (IF k + 1 < n THEN k + 1 ELSE n) = n
      BY <1>1, <1>2
    <3> QED
      BY <3>1 DEF ReadTo, n
  <2>2. before.at = close
    <3>1. CASE n = 0
      BY <1>1, <2>1, <3>1
    <3>2. CASE n # 0
      <4>1. n >= 1
        BY <1>1, <3>2
      <4> QED
        BY <1>1, <2>1, <3>2, <4>1
    <3> QED
      BY <3>1, <3>2
  <2> HIDE DEF before
  <2>3. ReadOn(t, close, before) = before
    BY <1>1, <2>2, ReadsNothing
  <2> QED
    BY <2>1, <2>3 DEF before
<1>3. CASE ~(k >= n)
  <2> DEFINE j == k + 1
             b == a[j]
             eta == etas[j]
             c == a[j + 1]
             pos == IF k = 0 THEN z + 27 ELSE b
             values == SubSeq(etas, 1, k)
             next == IF j = Len(line.etas) THEN "]" ELSE Comma
  <2>1. j \in 1..n /\ k < n
    BY <1>1, <1>3
  <2>2. /\ ReadTo(a, etas, z, k) = [at |-> pos, values |-> values]
        /\ ReadTo(a, etas, z, k + 1) = [at |-> c, values |-> SubSeq(etas, 1, j)]
    <3>1. (IF k < n THEN k ELSE n) = k /\ (IF k + 1 < n THEN k + 1 ELSE n) = j /\ j # 0
      BY <1>1, <2>1
    <3> QED
      BY <3>1 DEF ReadTo, n
  <2>3. SubSeq(etas, 1, j) = Append(values, eta)
    <3>1. SubSeq(etas, 1, j) = SubSeq(etas, 1, j - 1) \o <<etas[j]>>
      BY <1>1, <2>1, SubSeqRecursiveSecond DEF n
    <3>2. j - 1 = k
      OBVIOUS
    <3>3. values \in Seq(AnyText) /\ eta \in AnyText
      <4>1. eta \in AnyText
        BY <1>1, <2>1 DEF n
      <4>2. \A i \in 1..k : etas[i] \in AnyText
        BY <1>1, <2>1 DEF n
      <4>3. values \in Seq(AnyText)
        BY <4>2, SubSeqProperties
      <4> QED
        BY <4>1, <4>3
    <3>4. Append(values, eta) = values \o <<eta>>
      BY <3>3, AppendIsConcat
    <3> QED
      BY <3>1, <3>2, <3>4
  <2>4. EtaStands(t, b, eta, next) /\ c = b + Len(eta) + 3
    BY <2>1, EtaIsStanding DEF n
  <2>5. b \in Nat /\ Len(eta) \in Nat
    BY <2>4 DEF EtaStands, AnyText
  <2>6. StringAt(t, b, pos)
    <3>1. CASE k = 0
      <4>1. j = 1 /\ n >= 1 /\ pos = z + 27
        BY <1>1, <2>1, <3>1
      <4>2. b = z + 26
        BY <1>1, <4>1, Zenon
      <4> HIDE DEF b, pos
      <4>3. z + 27 = (z + 26) + 1
        BY <1>1
      <4>4. pos = b + 1
        BY <4>1, <4>2, <4>3, Zenon
      <4> QED
        BY <4>4 DEF StringAt
    <3>2. CASE k # 0
      <4>1. j \in 2..Len(line.etas)
        BY <1>1, <2>1, <3>2 DEF n
      <4>2. t[a[j]] = Comma
        BY <4>1 DEF EtasAt
      <4> QED
        BY <3>2, <4>2 DEF StringAt
    <3> QED
      BY <3>1, <3>2
  <2>7. c <= close
    <3>1. CASE j = n
      BY <1>1, <2>1, <3>1
    <3>2. CASE j # n
      <4>1. j + 1 \in 1..n
        BY <1>1, <2>1, <3>2
      <4>2. EtaStands(t, c, etas[j + 1], IF j + 1 = Len(line.etas) THEN "]" ELSE Comma)
        BY <4>1, EtaIsStanding DEF n
      <4>3. c \in Nat /\ Len(etas[j + 1]) \in Nat /\ Part(t, c + 1, etas[j + 1])
        BY <4>2 DEF EtaStands, AnyText
      <4> DEFINE m == Len(etas[j + 1])
      <4>4. c + 1 + m <= Len(t) /\ c \in Nat /\ m \in Nat
        BY <4>3 DEF Part
      <4> HIDE DEF c, m
      <4>5. c <= close
        BY <1>1, <4>4
      <4> QED
        BY <4>5
    <3> QED
      BY <3>1, <3>2
  <2> HIDE DEF pos, values, next, b, eta, c, etas
  <2>8. b + Len(eta) + 3 <= close /\ close <= Len(t)
    BY <1>1, <2>4, <2>7
  <2>9. ReadOn(t, close, [at |-> pos, values |-> values]) =
            [at |-> b + Len(eta) + 3, values |-> Append(values, eta)]
    BY <1>1, <2>4, <2>6, <2>8, ReadsString
  <2> QED
    BY <2>2, <2>3, <2>4, <2>9, Zenon DEF etas
<1> QED
  BY <1>2, <1>3

\* extract_json_string_array_field() reads the first `max` strings.
LEMMA EtasRead ==
  ASSUME NEW t, NEW a, NEW line, NEW z, NEW close, EtasAt(t, a, line, z, close), ArePlain(line),
         NEW v \in Nat, v # 0, ValueOf(t, "etas") = v, IndexOf(t, <<"[">>, v) = z + 26,
         NEW max \in Nat
  PROVE  StringArray(t, "etas", max) =
             SubSeq(line.etas, 1, IF max < Len(line.etas) THEN max ELSE Len(line.etas))
<1> DEFINE to(k) == ReadTo(a, line.etas, z, k)
           IsReading(f) == f = [k \in 0..max |-> IF k = 0 THEN [at |-> (z + 26) + 1, values |-> <<>>]
                                                 ELSE ReadOn(t, close, f[k - 1])]
           reading == CHOOSE f : IsReading(f)
           T == {k \in Nat : k <= max => reading[k] = to(k)}
<1>1. z \in Nat /\ close \in Nat /\ close # 0 /\ z + 26 # 0 /\ line.etas \in Seq(AnyText)
  BY DEF EtasAt
<1>2. StringArray(t, "etas", max) = reading[max].values
  <2> DEFINE value == ValueOf(t, "etas")
             open == IF value = 0 THEN 0 ELSE IndexOf(t, <<"[">>, value)
             end == IF open = 0 THEN 0 ELSE MatchingBracket(t, open)
             Loop(from, upto) ==
                 CHOOSE f : f = [k \in 0..max |-> IF k = 0 THEN [at |-> from + 1, values |-> <<>>]
                                                   ELSE ReadOn(t, upto, f[k - 1])]
  <2>1. StringArray(t, "etas", max) = IF end = 0 THEN <<>> ELSE Loop(open, end)[max].values
    BY DEF StringArray, ReadOn
  <2>2. reading = Loop(z + 26, close)
    OBVIOUS
  <2> HIDE DEF Loop, reading
  <2>3. open = z + 26
    OBVIOUS
  <2> HIDE DEF open
  <2>4. end = close
    BY <1>1, <2>3, CloseFound
  <2> HIDE DEF end
  <2> QED
    BY <1>1, <2>1, <2>2, <2>3, <2>4
<1>3. to(0) = [at |-> (z + 26) + 1, values |-> <<>>]
  <2>1. (IF 0 < Len(line.etas) THEN 0 ELSE Len(line.etas)) = 0
    BY <1>1
  <2>2. SubSeq(line.etas, 1, 0) = <<>>
    BY <1>1, SubSeqEmpty
  <2>3. z + 27 = (z + 26) + 1
    BY <1>1
  <2> QED
    BY <2>1, <2>2, <2>3 DEF ReadTo
<1>4. \A k \in Nat : ReadOn(t, close, to(k)) = to(k + 1)
  BY ReadsOn
<1> HIDE DEF to
<1>5. IsReading([k \in 0..max |-> to(k)])
  <2>1. ASSUME NEW k \in 0..max, k # 0
        PROVE  to(k) = ReadOn(t, close, [i \in 0..max |-> to(i)][k - 1])
    <3>1. k - 1 \in 0..max /\ k - 1 \in Nat /\ (k - 1) + 1 = k
      BY <2>1
    <3> QED
      BY <1>4, <3>1
  <2> QED
    BY <1>3, <2>1
<1>6. IsReading(reading)
  <2> HIDE DEF IsReading
  <2> QED
    BY <1>5
<1> HIDE DEF reading
<1>7. 0 \in T
  BY <1>3, <1>6
<1>8. ASSUME NEW k \in Nat, k \in T PROVE k + 1 \in T
  <2> SUFFICES ASSUME k + 1 <= max PROVE reading[k + 1] = to(k + 1)
    OBVIOUS
  <2>1. k + 1 \in 0..max /\ k + 1 # 0 /\ (k + 1) - 1 = k /\ k <= max
    OBVIOUS
  <2>2. reading[k + 1] = ReadOn(t, close, reading[k])
    BY <1>6, <2>1
  <2>3. reading[k] = to(k)
    BY <1>8, <2>1
  <2> QED
    BY <1>4, <2>2, <2>3
<1> HIDE DEF T
<1>9. Nat \subseteq T
  BY <1>7, <1>8, NumbersByInduction
<1>10. reading[max] = to(max)
  BY <1>9 DEF T
<1> QED
  BY <1>2, <1>10 DEF to, ReadTo

(***************************************************************************)
(* A harmless line is read as what it says.                                *)
(***************************************************************************)
\* None of its strings holds a quote or an escape.
LEMMA HarmlessIsPlain ==
  ASSUME NEW line, IsLine(line), \A content \in Strings(line) : Harmless(content)
  PROVE  IsPlainLine(line) /\ ArePlain(line)
<1>1. line.label \in Strings(line) /\ line.badge.text \in Strings(line)
  BY DEF Strings
<1>2. IsPlain(line.label)
  BY <1>1, HarmlessIsQuiet DEF IsLine
<1>3. line.badge # NoBadge => IsPlain(line.badge.text)
  BY <1>1, HarmlessIsQuiet DEF IsLine
<1>4. ASSUME NEW j \in 1..Len(line.etas) PROVE IsPlain(line.etas[j])
  <2>1. line.etas[j] \in AnyText
    BY DEF IsLine
  <2>2. line.etas[j] \in Strings(line)
    <3>1. DOMAIN line.etas = 1..Len(line.etas)
      BY DEF IsLine
    <3> QED
      BY <3>1 DEF Strings
  <2> QED
    BY <2>1, <2>2, HarmlessIsQuiet
<1> QED
  BY <1>2, <1>3, <1>4 DEF IsPlainLine, ArePlain

\* The first time and the others, up to the eighth.
EtasKept(etas, first, all) ==
    /\ (IF first = <<>> THEN <<"--">> ELSE first[1]) = (IF etas = <<>> THEN <<"--">> ELSE etas[1])
    /\ (IF all = <<>> THEN <<>> ELSE Tail(all)) =
           SubSeq(etas, 2, IF Len(etas) < 8 THEN Len(etas) ELSE 8)

\* They come of the first string and of the first eight.
LEMMA EtasAreKept ==
  ASSUME NEW etas \in Seq(AnyText)
  PROVE  EtasKept(etas, SubSeq(etas, 1, IF 1 < Len(etas) THEN 1 ELSE Len(etas)),
                  SubSeq(etas, 1, IF 8 < Len(etas) THEN 8 ELSE Len(etas)))
<1> DEFINE n == Len(etas)
           last == IF n < 8 THEN n ELSE 8
           first == SubSeq(etas, 1, IF 1 < n THEN 1 ELSE n)
           all == SubSeq(etas, 1, IF 8 < n THEN 8 ELSE n)
<1>1. n \in Nat
  OBVIOUS
<1>2. CASE n = 0
  <2>1. etas = <<>>
    BY <1>2
  <2>2. /\ (IF 1 < n THEN 1 ELSE n) = 0 /\ (IF 8 < n THEN 8 ELSE n) = 0
        /\ last = 0
    BY <1>2
  <2>3. SubSeq(etas, 1, 0) = <<>> /\ SubSeq(etas, 2, 0) = <<>>
    BY SubSeqEmpty
  <2>4. first = <<>> /\ all = <<>> /\ SubSeq(etas, 2, last) = <<>>
    BY <2>2, <2>3, Zenon
  <2> HIDE DEF first, all
  <2> QED
    BY <2>1, <2>4 DEF EtasKept, first, all
<1>3. CASE n # 0
  <2>1. /\ (IF 1 < n THEN 1 ELSE n) = 1 /\ (IF 8 < n THEN 8 ELSE n) = last
        /\ last \in 1..n /\ 1 \in 1..n
    <3> HIDE DEF n
    <3> QED
      BY <1>1, <1>3
  <2>2. first = SubSeq(etas, 1, 1) /\ all = SubSeq(etas, 1, last)
    BY <2>1, Zenon
  <2>3. first # <<>> /\ first[1] = etas[1]
    <3>1. \A i \in 1..1 : etas[i] \in AnyText
      BY <1>1, <1>3
    <3>2. Len(SubSeq(etas, 1, 1)) = 1 /\ SubSeq(etas, 1, 1)[1] = etas[1]
      BY <3>1, SubSeqProperties
    <3>3. SubSeq(etas, 1, 1) # <<>>
      <4>1. Len(<<>>) = 0 /\ 1 # 0
        OBVIOUS
      <4> QED
        BY <3>2, <4>1, Zenon
    <3> QED
      BY <2>2, <3>2, <3>3, Zenon
  <2>4. all # <<>> /\ Tail(all) = SubSeq(etas, 2, last)
    <3> HIDE DEF last
    <3>1. \A i \in 1..last : etas[i] \in AnyText
      BY <1>1, <2>1
    <3>2. Len(SubSeq(etas, 1, last)) = last
      BY <1>1, <2>1, <3>1, SubSeqProperties
    <3>3. SubSeq(etas, 1, last) # <<>>
      <4>1. Len(<<>>) = 0 /\ last # 0
        BY <1>1, <2>1
      <4> QED
        BY <3>2, <4>1
    <3>4. Tail(SubSeq(etas, 1, last)) = SubSeq(etas, 1 + 1, last) /\ 1 + 1 = 2
      BY <2>1, HeadTailOfSubSeq
    <3> QED
      BY <2>2, <3>3, <3>4, Zenon
  <2>5. etas # <<>>
    BY <1>3
  <2> HIDE DEF first, all, last
  <2>6. EtasKept(etas, first, all)
    BY <2>3, <2>4, <2>5 DEF EtasKept, last
  <2> QED
    BY <2>6 DEF first, all
<1> QED
  BY <1>2, <1>3

\* The fields of a line's text.
FieldsRead(t, line) ==
    /\ StringField(t, "label") = line.label
    /\ StringField(t, "status") = <<line.status>>
    /\ BoolField(t, "scrolling", FALSE) = line.scroll
    /\ EtasKept(line.etas, StringArray(t, "etas", 1), StringArray(t, "etas", 8))
    /\ line.badge = NoBadge => ObjectField(t, "badge") = <<>>
    /\ line.badge # NoBadge => ObjectField(t, "badge") = BadgeValue(line.badge)

\* All are found, whatever the strings say.
LEMMA FieldsAreRead ==
  ASSUME NEW line, IsLine(line), HarmlessLine(line)
  PROVE  FieldsRead(LineText(line), line)
<1> DEFINE t == LineText(line)
<1>1. IsPlainLine(line) /\ ArePlain(line)
  BY HarmlessIsPlain DEF HarmlessLine
<1>2. PICK o, z : LineShown(t, line, o, z) /\ LineLaid(t, line, Listed(EtaTexts(line)), o)
  BY LineIsShown
<1> HIDE DEF t
<1>3. PICK a, close : EtasAt(t, a, line, z, close)
  BY <1>2, EtasStand
<1>4. line.etas \in Seq(AnyText) /\ line.label \in AnyText
  BY DEF IsLine
<1>5. StringField(t, "label") = line.label
  BY <1>1, <1>2, LabelRead
<1>6. StringField(t, "status") = <<line.status>>
  <2>1. line.badge # NoBadge => line.badge.text # <<"status">>
    BY DEF HarmlessLine
  <2> QED
    BY <1>1, <1>2, <2>1, StatusRead
<1>7. BoolField(t, "scrolling", FALSE) = line.scroll
  <2>1. line.badge # NoBadge => line.badge.text # <<"scrolling">>
    BY DEF HarmlessLine
  <2>2. line.label # <<"scrolling">>
    BY DEF HarmlessLine
  <2> QED
    BY <1>1, <1>2, <2>1, <2>2, ScrollRead
<1>8. EtasKept(line.etas, StringArray(t, "etas", 1), StringArray(t, "etas", 8))
  <2>1. line.badge # NoBadge /\ line.badge.text = <<"etas">> =>
            \A i \in 1..Len(line.label) : line.label[i] # "["
    <3>1. DOMAIN line.label = 1..Len(line.label)
      BY <1>4 DEF AnyText
    <3> QED
      BY <3>1 DEF HarmlessLine
  <2>2. PICK v \in Nat : v # 0 /\ ValueOf(t, "etas") = v /\ IndexOf(t, <<"[">>, v) = z + 26
    BY <1>1, <1>2, <2>1, EtasFound
  <2>3. ASSUME NEW max \in Nat
        PROVE  StringArray(t, "etas", max) =
                   SubSeq(line.etas, 1, IF max < Len(line.etas) THEN max ELSE Len(line.etas))
    BY <1>1, <1>3, <2>2, EtasRead
  <2>4. /\ StringArray(t, "etas", 1) = SubSeq(line.etas, 1, IF 1 < Len(line.etas) THEN 1 ELSE Len(line.etas))
        /\ StringArray(t, "etas", 8) = SubSeq(line.etas, 1, IF 8 < Len(line.etas) THEN 8 ELSE Len(line.etas))
    BY <2>3
  <2>5. EtasKept(line.etas, SubSeq(line.etas, 1, IF 1 < Len(line.etas) THEN 1 ELSE Len(line.etas)),
                 SubSeq(line.etas, 1, IF 8 < Len(line.etas) THEN 8 ELSE Len(line.etas)))
    BY <1>4, EtasAreKept
  <2> QED
    BY <2>4, <2>5, Zenon
<1>9. line.badge = NoBadge => ObjectField(t, "badge") = <<>>
  <2> SUFFICES ASSUME line.badge = NoBadge PROVE ObjectField(t, "badge") = <<>>
    OBVIOUS
  <2>1. DOMAIN line.etas = 1..Len(line.etas)
    BY <1>4
  <2>2. \A j \in 1..Len(line.etas) : line.etas[j] # <<"badge">>
    BY <2>1 DEF HarmlessLine
  <2> QED
    BY <1>1, <1>2, <1>3, <2>2, NoBadgeFound
<1>10. line.badge # NoBadge => ObjectField(t, "badge") = BadgeValue(line.badge)
  <2>1. PairsUp(line.badge.text, {OpenBrace}, {CloseBrace})
    BY DEF HarmlessLine
  <2> QED
    BY <1>1, <1>2, <2>1, BadgeFound
<1> QED
  BY <1>5, <1>6, <1>7, <1>8, <1>9, <1>10 DEF FieldsRead, t

\* parse_line_into_row() makes the row of them.
LEMMA RowRead ==
  ASSUME NEW line \in PossibleLines, HarmlessLine(line)
  PROVE  RowOf(LineText(line)) = RowMeant(line)
<1> DEFINE t == LineText(line)
           badge == ObjectField(t, "badge")
           first == StringArray(t, "etas", 1)
           all == StringArray(t, "etas", 8)
           kept == IF badge = <<>> THEN NoBadge
                   ELSE [shape |-> IF StringField(badge, "shape") = <<"circle">> THEN "circle" ELSE "pill",
                         text |-> StringField(badge, "text")]
           delayed == StringField(t, "status") = <<"delayed">>
           eta == IF first = <<>> THEN <<"--">> ELSE first[1]
           extra == IF all = <<>> THEN <<>> ELSE Tail(all)
           label == StringField(t, "label")
           scroll == BoolField(t, "scrolling", FALSE)
<1>1. IsLine(line) /\ FieldsRead(t, line)
  BY PossibleIsLine, FieldsAreRead
<1>2. RowOf(t) = [label |-> label, delayed |-> delayed, scroll |-> scroll,
                  eta |-> eta, extra |-> extra, badge |-> kept]
  BY DEF RowOf
<1> HIDE DEF t
<1>3. label = line.label /\ scroll = line.scroll
  BY <1>1 DEF FieldsRead
<1>4. delayed = (line.status = "delayed")
  <2>1. StringField(t, "status") = <<line.status>>
    BY <1>1 DEF FieldsRead
  <2>2. <<line.status>> = <<"delayed">> <=> line.status = "delayed"
    OBVIOUS
  <2> QED
    BY <2>1, <2>2
<1>5. /\ eta = (IF line.etas = <<>> THEN <<"--">> ELSE line.etas[1])
      /\ extra = SubSeq(line.etas, 2, IF Len(line.etas) < 8 THEN Len(line.etas) ELSE 8)
  BY <1>1 DEF FieldsRead, EtasKept
<1>6. kept = line.badge
  <2>1. CASE line.badge = NoBadge
    <3>1. badge = <<>>
      BY <1>1, <2>1 DEF FieldsRead
    <3> QED
      BY <2>1, <3>1
  <2>2. CASE line.badge # NoBadge
    <3> DEFINE meant == line.badge
    <3>1. badge = BadgeValue(meant)
      BY <1>1, <2>2 DEF FieldsRead
    <3>2. meant \in [shape : {"circle", "pill"}, text : Seq(STRING)]
      BY <2>2 DEF PossibleLines
    <3>3. meant.shape \in {"circle", "pill"} /\ meant.text \in AnyText /\ IsPlain(meant.text)
      <4>1. meant.shape \in {"circle", "pill"} /\ meant.text \in AnyText
        BY <1>1, <2>2 DEF IsLine
      <4>2. IsPlain(meant.text)
        BY <1>1, <2>2, HarmlessIsPlain DEF HarmlessLine, IsPlainLine
      <4> QED
        BY <4>1, <4>2
    <3> HIDE DEF meant
    <3>4. StringField(BadgeValue(meant), "shape") = <<meant.shape>>
          /\ StringField(BadgeValue(meant), "text") = meant.text
      BY <3>3, BadgeRead
    <3>5. BadgeValue(meant) # <<>>
      <4>1. BadgeBody(BadgeValue(meant), meant)
        BY <3>3, BadgeIsWritten
      <4>2. Len(BadgeValue(meant)) = Len(meant.text) + 16 /\ Len(meant.text) \in Nat
        BY <4>1 DEF BadgeBody, AnyText
      <4> QED
        BY <4>2
    <3> HIDE DEF badge
    <3>6. kept = [shape |-> IF <<meant.shape>> = <<"circle">> THEN "circle" ELSE "pill",
                  text |-> meant.text]
      BY <3>1, <3>4, <3>5
    <3>7. (IF <<meant.shape>> = <<"circle">> THEN "circle" ELSE "pill") = meant.shape
      BY <3>3
    <3>8. meant = [shape |-> meant.shape, text |-> meant.text]
      BY <3>2
    <3> QED
      BY <3>6, <3>7, <3>8 DEF meant
  <2> QED
    BY <2>1, <2>2
<1> HIDE DEF badge, first, all, kept, delayed, eta, extra, label, scroll
<1> QED
  BY <1>2, <1>3, <1>4, <1>5, <1>6, Zenon DEF RowMeant, t

(***************************************************************************)
(* The rows of a payload.                                                  *)
(***************************************************************************)
LineTexts(lines) == [i \in 1..Len(lines) |-> LineText(lines[i])]

\* Each of its lines is a text.
LEMMA LineTextsAre ==
  ASSUME NEW lines \in Seq(PossibleLines)
  PROVE  /\ LineTexts(lines) \in Seq(AnyText)
         /\ Len(LineTexts(lines)) = Len(lines)
         /\ \A i \in 1..Len(lines) : LineTexts(lines)[i] = LineText(lines[i])
<1> DEFINE n == Len(lines)
           texts == LineTexts(lines)
<1>1. n \in Nat
  OBVIOUS
<1>2. ASSUME NEW i \in 1..n PROVE LineText(lines[i]) \in AnyText
  <2>1. lines[i] \in PossibleLines
    OBVIOUS
  <2>2. IsLine(lines[i])
    BY <2>1, PossibleIsLine
  <2>3. \E o : LineLaid(LineText(lines[i]), lines[i], Listed(EtaTexts(lines[i])), o)
    BY <2>2, LineIsShown
  <2> QED
    BY <2>3 DEF LineLaid
<1>3. texts = [i \in 1..n |-> LineText(lines[i])]
  BY DEF LineTexts
<1> HIDE DEF texts, n
<1>4. texts \in Seq(AnyText) /\ Len(texts) = n
  BY <1>1, <1>2, <1>3
<1>5. \A i \in 1..n : texts[i] = LineText(lines[i])
  BY <1>3
<1> QED
  BY <1>4, <1>5 DEF texts, n

\* An item is not empty.
LEMMA ItemIsSome == ASSUME NEW t, IsItem(t) PROVE t # <<>>
<1>1. Len(t) >= 2 /\ Len(<<>>) = 0
  BY DEF IsItem, Enclosed
<1> QED
  BY <1>1

\* parse_generic_v2_payload() reads the first two lines, when those are harmless.
LEMMA RowsRead ==
  ASSUME NEW lines \in Seq(PossibleLines),
         \A i \in DOMAIN lines : i <= 2 => HarmlessLine(lines[i])
  PROVE  RowsOf(MessageText(lines)) = RowsMeant(lines)
<1> DEFINE n == Len(lines)
           texts == LineTexts(lines)
           list == Listed(texts)
           m == MessageText(lines)
           line1 == LineAt(m, 1)
           line2 == LineAt(m, 2)
<1>1. n \in Nat /\ DOMAIN lines = 1..n
  OBVIOUS
<1>2. texts \in Seq(AnyText) /\ Len(texts) = n /\ \A i \in 1..n : texts[i] = LineText(lines[i])
  BY LineTextsAre
<1>3. m = Object(Field("lines", Array(texts)))
  BY DEF MessageText, LineTexts
<1> HIDE DEF texts
<1>4. PICK g : ListFollows(list, g, texts)
  BY <1>2, ItemsOfList
<1>5. MessageLaid(m, list)
  <2>1. list \in AnyText
    BY <1>4 DEF ListFollows
  <2> QED
    BY <1>3, <2>1, MessageIsLaid
<1>6. ASSUME NEW i \in 1..n, i <= 2
      PROVE  IsItem(texts[i]) /\ RowOf(texts[i]) = RowMeant(lines[i])
  <2>1. lines[i] \in PossibleLines /\ HarmlessLine(lines[i])
    BY <1>1, <1>6
  <2>2. texts[i] = LineText(lines[i])
    BY <1>2
  <2>3. IsItem(LineText(lines[i]))
    BY <2>1, PossibleIsLine, LineIsItem DEF HarmlessLine
  <2>4. RowOf(LineText(lines[i])) = RowMeant(lines[i])
    BY <2>1, RowRead
  <2> QED
    BY <2>2, <2>3, <2>4
<1>7. RowsOf(m) = CASE line1 = <<>> -> <<>>
                    [] line1 # <<>> /\ line2 = <<>> -> <<RowOf(line1)>>
                    [] OTHER -> <<RowOf(line1), RowOf(line2)>>
  BY DEF RowsOf
<1>8. RowsMeant(lines) = [i \in 1..(IF n < 2 THEN n ELSE 2) |-> RowMeant(lines[i])]
  BY DEF RowsMeant
<1> HIDE DEF n, list, m
<1>9. CASE n = 0
  <2>1. Len(list) = 0
    BY <1>2, <1>4, <1>9 DEF ListFollows
  <2>2. list = <<>>
    <3>1. list \in AnyText
      BY <1>4 DEF ListFollows
    <3> QED
      BY <2>1, <3>1 DEF AnyText
  <2>3. line1 = <<>>
    BY <1>5, <2>2, NoLine
  <2>4. RowsMeant(lines) = <<>>
    <3>1. (IF n < 2 THEN n ELSE 2) = 0
      BY <1>9
    <3>2. RowsMeant(lines) = [i \in 1..0 |-> RowMeant(lines[i])]
      BY <1>8, <3>1, Zenon
    <3>3. [i \in 1..0 |-> RowMeant(lines[i])] = <<>>
      OBVIOUS
    <3> QED
      BY <3>2, <3>3, Zenon
  <2> QED
    BY <1>7, <2>3, <2>4 DEF m
<1>10. CASE n >= 1
  <2> DEFINE t == texts[1]
  <2>1. 1 \in 1..n /\ 1 <= 2
    BY <1>1, <1>10
  <2>2. IsItem(t) /\ RowOf(t) = RowMeant(lines[1])
    BY <1>6, <2>1
  <2>3. g[1] = 0 /\ Part(list, g[1], t) /\ g[1 + 1] = g[1] + Len(t) + 1 /\ g[n + 1] = Len(list) + 1
    BY <1>2, <1>4, <1>10, <2>1 DEF ListFollows
  <2>4. Len(t) \in Nat /\ Len(list) \in Nat
    <3>1. t \in AnyText /\ list \in AnyText
      BY <1>2, <1>4, <2>1 DEF ListFollows
    <3> QED
      BY <3>1 DEF AnyText
  <2> HIDE DEF t
  <2>5. StartsWith(m, list, t)
    BY <1>5, <2>2, <2>3 DEF StartsWith
  <2>6. line1 = t /\ t # <<>>
    BY <2>2, <2>5, FirstLine, ItemIsSome
  <2>7. CASE n = 1
    <3>1. Len(list) = Len(t)
      <4> DEFINE l == Len(list)
                 k == Len(t)
      <4>1. g[1] = 0 /\ g[2] = g[1] + k + 1 /\ g[2] = l + 1 /\ k \in Nat /\ l \in Nat
        BY <2>3, <2>4, <2>7
      <4> HIDE DEF l, k
      <4>2. l = k
        BY <4>1
      <4> QED
        BY <4>2 DEF l, k
    <3>2. line2 = <<>>
      BY <2>5, <3>1, OnlyLine
    <3>3. RowsMeant(lines) = <<RowMeant(lines[1])>>
      <4>1. (IF n < 2 THEN n ELSE 2) = 1
        BY <2>7
      <4> QED
        BY <1>8, <4>1
    <3> HIDE DEF line1, line2
    <3>4. RowsOf(m) = <<RowOf(t)>>
      BY <1>7, <2>6, <3>2
    <3> QED
      BY <2>2, <3>3, <3>4 DEF m
  <2>8. CASE n >= 2
    <3> DEFINE u == texts[2]
    <3>1. 2 \in 1..n /\ 2 <= 2 /\ 2 \in 2..n
      BY <1>1, <2>8
    <3>2. IsItem(u) /\ RowOf(u) = RowMeant(lines[2])
      BY <1>6, <3>1
    <3>3. list[g[2]] = Comma /\ Part(list, g[2], u)
      BY <1>2, <1>4, <3>1 DEF ListFollows
    <3>4. g[2] = Len(t) + 1
      BY <2>3, <2>4
    <3> HIDE DEF u
    <3>5. list[Len(t) + 1] = Comma /\ Part(list, Len(t) + 1, u)
      BY <3>3, <3>4, Zenon
    <3>6. line2 = u /\ u # <<>>
      BY <2>5, <3>2, <3>5, SecondLine, ItemIsSome
    <3>7. RowsMeant(lines) = <<RowMeant(lines[1]), RowMeant(lines[2])>>
      <4>1. (IF n < 2 THEN n ELSE 2) = 2
        BY <1>1, <2>8
      <4> QED
        BY <1>8, <4>1
    <3> HIDE DEF line1, line2
    <3>8. RowsOf(m) = <<RowOf(t), RowOf(u)>>
      BY <1>7, <2>6, <3>6
    <3> QED
      BY <2>2, <3>2, <3>7, <3>8 DEF m
  <2>9. n = 1 \/ n >= 2
    BY <1>1, <1>10
  <2> QED
    BY <2>7, <2>8, <2>9
<1>11. n = 0 \/ n >= 1
  BY <1>1
<1> QED
  BY <1>9, <1>10, <1>11

\* While a command is handled, its rows are those of its payload.
ReadingInv == message # NoMessage => message \in Messages /\ read = RowsOf(MessageText(message))

\* parse_generic_v2_payload(): whatever payloads come, lines whose strings are
\* harmless are read as what they say.
THEOREM LinesReadAsMeant == CommandsSpec => []ReadAsMeant
<1>1. CommandsInit => ReadingInv
  BY DEF CommandsInit, ReadingInv
<1>2. ReadingInv /\ [CommandsNext]_commandsVars => ReadingInv'
  <2> SUFFICES ASSUME ReadingInv, [CommandsNext]_commandsVars PROVE ReadingInv'
    OBVIOUS
  <2>1. ASSUME NEW lines \in Messages, ReadsMessage(lines) PROVE ReadingInv'
    BY <2>1 DEF ReadsMessage, Readings, ReadingInv
  <2>2. CASE message' = NoMessage
    BY <2>2 DEF ReadingInv
  <2>3. CASE UNCHANGED <<message, read>>
    BY <2>3 DEF ReadingInv
  <2> QED
    BY <2>1, <2>2, <2>3
    DEF CommandsNext, commandsVars, AppliesMessage, Interrupts, HandlesAnother
<1>3. ReadingInv => ReadAsMeant
  <2> SUFFICES ASSUME message \in Messages, read = RowsOf(MessageText(message)),
                      \A i \in DOMAIN message : i <= 2 => HarmlessLine(message[i])
               PROVE  read = RowsMeant(message)
    BY DEF ReadingInv, ReadAsMeant
  <2>1. message \in Seq(PossibleLines)
    BY MessagesAssumption
  <2> QED
    BY <2>1, RowsRead
<1> QED
  BY <1>1, <1>2, <1>3, PTL DEF CommandsSpec

===============================================================================
