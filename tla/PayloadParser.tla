----------------------------- MODULE PayloadParser -----------------------------
(***************************************************************************)
(* parse_generic_v2_payload() and the field extraction it rests on.  The   *)
(* code builds no tree: it searches the text for a key in quotes and for   *)
(* brackets, so what a string contains may be taken for structure.         *)
(*                                                                         *)
(* A text is a sequence of atoms: quotes, brackets, colons, commas, and    *)
(* words.  Blanks are left out.  Positions start at 1; 0 is "not found".   *)
(***************************************************************************)
EXTENDS Integers, Sequences, FiniteSets

Quote == "\""
Escape == "\\"
OpenBrace == "{"
CloseBrace == "}"
Comma == ","
Punctuation == {Quote, Escape, OpenBrace, CloseBrace, "[", "]", ":", Comma}

Opens == {OpenBrace, "["}
Closes == {CloseBrace, "]"}

(***************************************************************************)
(* The text of a payload, as the server writes it.                         *)
(***************************************************************************)
Str(content) == <<Quote>> \o content \o <<Quote>>
Field(name, value) == Str(<<name>>) \o <<":">> \o value
Object(fields) == <<OpenBrace>> \o fields \o <<CloseBrace>>

Listed(items) ==
    LET upTo[i \in 0..Len(items)] ==
            CASE i = 0 -> <<>>
              [] i = 1 -> items[1]
              [] OTHER -> upTo[i - 1] \o <<Comma>> \o items[i]
    IN  upTo[Len(items)]

Array(items) == <<"[">> \o Listed(items) \o <<"]">>

NoBadge == [shape |-> "none", text |-> <<>>]

BadgeText(badge) ==
    IF badge = NoBadge THEN <<>>
    ELSE <<Field("badge", Object(Listed(<<Field("shape", Str(<<badge.shape>>)),
                                          Field("text", Str(badge.text))>>)))>>

LineText(line) ==
    Object(Listed(BadgeText(line.badge) \o
                  <<Field("label", Str(line.label)),
                    Field("status", Str(<<line.status>>)),
                    Field("scrolling", <<IF line.scroll THEN "true" ELSE "false">>),
                    Field("etas", Array([i \in 1..Len(line.etas) |-> Str(line.etas[i])]))>>))

MessageText(lines) ==
    Object(Field("lines", Array([i \in 1..Len(lines) |-> LineText(lines[i])])))

(***************************************************************************)
(* Extraction.                                                             *)
(***************************************************************************)
First(positions) == IF positions = {} THEN 0 ELSE CHOOSE i \in positions : \A j \in positions : i <= j

IndexOf(text, part, from) ==
    First({i \in from..(Len(text) - Len(part) + 1) : SubSeq(text, i, i + Len(part) - 1) = part})

\* Where the value of a field starts, as far as the code can tell.
ValueOf(text, field) ==
    LET key == IndexOf(text, Str(<<field>>), 1)
        colon == IF key = 0 THEN 0 ELSE IndexOf(text, <<":">>, key + 3)
    IN  IF colon = 0 \/ colon = Len(text) THEN 0 ELSE colon + 1

\* extract_json_string_field(): a string, or a bare word.
StringField(text, field) ==
    LET value == ValueOf(text, field)
        end == IF value = 0 THEN 0 ELSE IndexOf(text, <<Quote>>, value + 1)
    IN  CASE value = 0 -> <<>>
          [] value # 0 /\ text[value] = Quote /\ end # 0 -> SubSeq(text, value + 1, end - 1)
          [] value # 0 /\ text[value] \notin Punctuation -> <<text[value]>>
          [] OTHER -> <<>>

\* extract_json_bool_field()
BoolField(text, field, fallback) ==
    CASE StringField(text, field) \in {<<"true">>, <<"1">>} -> TRUE
      [] StringField(text, field) \in {<<"false">>, <<"0">>} -> FALSE
      [] OTHER -> fallback

\* Brackets that are open behind position i, counted from `from`.
Depth(text, opens, closes, from, i) ==
    Cardinality({j \in from..i : text[j] \in opens}) - Cardinality({j \in from..i : text[j] \in closes})

\* extract_json_object_field(), which counts braces inside strings too.
ObjectField(text, field) ==
    LET start == ValueOf(text, field)
        end == First({i \in start..Len(text) : text[i] = CloseBrace /\ Depth(text, {OpenBrace}, {CloseBrace}, start, i) = 0})
    IN  IF start = 0 \/ text[start] # OpenBrace \/ end = 0 THEN <<>> ELSE SubSeq(text, start, end)

\* Slip: an object inside an item counts as one.
LineStartsNested(text, array) == {i \in array..Len(text) : text[i] = OpenBrace}

\* extract_line_at(): where items start, and the end of the index-th.
LineStarts(text, array) ==
    {i \in array..Len(text) : text[i] = OpenBrace /\ Depth(text, Opens, Closes, array, i) = 2}

LineAt(text, index) ==
    LET value == ValueOf(text, "lines")
        array == IF value = 0 THEN 0 ELSE IndexOf(text, <<"[">>, value)
        starts == LineStarts(text, array)
        end == First({i \in array..Len(text) :
                        /\ text[i] = CloseBrace
                        /\ Depth(text, Opens, Closes, array, i) = 1
                        /\ Cardinality({j \in starts : j <= i}) = index})
    IN  IF array = 0 \/ end = 0 THEN <<>>
        ELSE SubSeq(text, CHOOSE s \in starts : s <= end /\ \A t \in starts : t <= end => t <= s, end)

(***************************************************************************)
(* extract_json_string_array_field().  find_matching_bracket() knows about *)
(* quotes and escapes; the loop over the strings knows about quotes only.  *)
(***************************************************************************)
Structure(text, from) ==
    LET scan[i \in 0..Len(text)] ==
            IF i < from THEN [escaped |-> FALSE, quoted |-> FALSE, counts |-> FALSE]
            ELSE LET before == scan[i - 1]
                     escapes == ~before.escaped /\ text[i] = Escape
                     quotes == ~before.escaped /\ text[i] = Quote
                 IN  [escaped |-> escapes,
                      quoted |-> IF quotes THEN ~before.quoted ELSE before.quoted,
                      counts |-> ~before.escaped /\ ~escapes /\ ~quotes /\ ~before.quoted]
    IN  {i \in from..Len(text) : scan[i].counts}

MatchingBracket(text, open) ==
    LET counted == Structure(text, open)
        DepthAt(i) == Cardinality({j \in counted : j <= i /\ text[j] = "["})
                      - Cardinality({j \in counted : j <= i /\ text[j] = "]"})
    IN  First({i \in counted : text[i] = "]" /\ DepthAt(i) = 0})

StringArray(text, field, max) ==
    LET value == ValueOf(text, field)
        open == IF value = 0 THEN 0 ELSE IndexOf(text, <<"[">>, value)
        close == IF open = 0 THEN 0 ELSE MatchingBracket(text, open)
        read[n \in 0..max] ==
            IF n = 0 THEN [at |-> open + 1, values |-> <<>>]
            ELSE LET before == read[n - 1]
                     start == First({i \in before.at..(close - 1) : text[i] # Comma})
                     end == IF start = 0 THEN 0 ELSE IndexOf(text, <<Quote>>, start + 1)
                 IN  IF start = 0 \/ text[start] # Quote \/ end = 0 \/ end > close
                     THEN before
                     ELSE [at |-> end + 1,
                           values |-> Append(before.values, SubSeq(text, start + 1, end - 1))]
    IN  IF close = 0 THEN <<>> ELSE read[max].values

(***************************************************************************)
(* Rows.                                                                   *)
(***************************************************************************)
\* parse_line_into_row() and build_eta_extra()
RowOf(text) ==
    LET badge == ObjectField(text, "badge")
        first == StringArray(text, "etas", 1)
        all == StringArray(text, "etas", 8)
    IN  [label |-> StringField(text, "label"),
         delayed |-> StringField(text, "status") = <<"delayed">>,
         scroll |-> BoolField(text, "scrolling", FALSE),
         eta |-> IF first = <<>> THEN <<"--">> ELSE first[1],
         extra |-> IF all = <<>> THEN <<>> ELSE Tail(all),
         badge |-> IF badge = <<>> THEN NoBadge
                   ELSE [shape |-> IF StringField(badge, "shape") = <<"circle">> THEN "circle" ELSE "pill",
                         text |-> StringField(badge, "text")]]

\* parse_generic_v2_payload(): the first two lines, or nothing.
RowsOf(text) ==
    LET line1 == LineAt(text, 1)
        line2 == LineAt(text, 2)
    IN  CASE line1 = <<>> -> <<>>
          [] line1 # <<>> /\ line2 = <<>> -> <<RowOf(line1)>>
          [] OTHER -> <<RowOf(line1), RowOf(line2)>>

(***************************************************************************)
(* The reference: what the lines say.                                      *)
(***************************************************************************)
\* Of the arrival times, as many as build_eta_extra() has room for.
RowMeant(line) ==
    [label |-> line.label,
     delayed |-> line.status = "delayed",
     scroll |-> line.scroll,
     eta |-> IF line.etas = <<>> THEN <<"--">> ELSE line.etas[1],
     extra |-> SubSeq(line.etas, 2, IF Len(line.etas) < 8 THEN Len(line.etas) ELSE 8),
     badge |-> line.badge]

RowsMeant(lines) == [i \in 1..(IF Len(lines) < 2 THEN Len(lines) ELSE 2) |-> RowMeant(lines[i])]

Strings(line) == {line.label, line.badge.text} \cup {line.etas[i] : i \in DOMAIN line.etas}

\* Every bracket that is closed was opened, and all are closed in the end.
PairsUp(content, opens, closes) ==
    /\ \A i \in DOMAIN content : Depth(content, opens, closes, 1, i) >= 0
    /\ Depth(content, opens, closes, 1, Len(content)) = 0

\* Brackets of a string that pair up go unnoticed; a quote in it does not.
Harmless(content) ==
    /\ \A i \in DOMAIN content : content[i] \notin {Quote, Escape}
    /\ PairsUp(content, Opens, Closes)

\* The badge is cut out by counting braces alone.  A string that is the name of a
\* key hides the key if the code searches for it behind the string.
HarmlessLine(line) ==
    /\ \A content \in Strings(line) : Harmless(content)
    /\ PairsUp(line.badge.text, {OpenBrace}, {CloseBrace})
    /\ line.badge.text \notin {<<"status">>, <<"scrolling">>}
    /\ line.badge.text = <<"etas">> => \A i \in DOMAIN line.label : line.label[i] # "["
    /\ line.label # <<"scrolling">>
    /\ line.badge = NoBadge => \A i \in DOMAIN line.etas : line.etas[i] # <<"badge">>

=============================================================================
