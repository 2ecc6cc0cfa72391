------------------------------ MODULE MCCommands ------------------------------
(***************************************************************************)
(* The data command, with one label beside the empty one, and payloads     *)
(* whose strings hold brackets, quotes and the names of keys.              *)
(***************************************************************************)
EXTENDS Commands

Texts == {<<>>, <<"A">>, <<"{">>, <<"}">>, <<"{", "}">>, <<"[", "]">>, <<"[", "}">>, <<"etas">>,
          <<"label">>, <<"scrolling">>, <<Escape, Quote>>}

PlainLine == [label |-> <<"A">>, status |-> "ok", scroll |-> TRUE, etas |-> <<<<"5m">>>>,
              badge |-> NoBadge]

Etas == {<<>>, <<<<"5m">>>>, <<<<"5m">>, <<"9m">>>>, <<<<"[">>>>, <<<<"label">>, <<"]">>>>,
         <<<<"badge">>, <<":", "{", "}">>>>, [i \in 1..9 |-> <<"5m">>]}
Badges == {NoBadge, [shape |-> "pill", text |-> <<"A">>]} \cup [shape : {"circle"}, text : Texts]

Lines ==
    {[PlainLine EXCEPT !.label = label, !.badge = badge] : label \in Texts, badge \in Badges}
    \cup {[PlainLine EXCEPT !.badge = badge, !.etas = etas] : badge \in Badges, etas \in Etas}
    \cup {[PlainLine EXCEPT !.status = status, !.scroll = scroll] :
        status \in {"ok", "delayed"}, scroll \in BOOLEAN}

LabelledLines ==
    {[PlainLine EXCEPT !.label = label] : label \in {<<>>, <<"A">>, <<"{">>, <<"}">>, <<"[", "]">>}}

BoundedMessages ==
    {<<>>, <<PlainLine, PlainLine, PlainLine>>}
    \cup {<<line>> : line \in Lines}
    \cup {<<line1, line2>> : line1 \in LabelledLines, line2 \in LabelledLines}
=============================================================================
