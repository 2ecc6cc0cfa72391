----------------------------- MODULE MCDisplay -----------------------------
(* The panel of main.cpp; two rows whose labels fit beside a short arrival *)
(* time and not beside a long one, and a single row with later arrivals.   *)
EXTENDS Display

Row(letters, spaces, text, chars, scrolls) ==
    [label |-> [letters |-> letters, spaces |-> spaces], badge |-> "pill",
     eta |-> [text |-> text, chars |-> chars], scroll |-> scrolls,
     stacked |-> FALSE, extra |-> FALSE, late |-> FALSE]

MCEmptyRow == Row(0, 0, "", 0, FALSE)
MCWaitingRow == Row(11, 1, "--", 2, FALSE)
MCFrames == {[text |-> ".", chars |-> 3], [text |-> "..", chars |-> 3]}

One(row) == [n |-> 1, rows |-> <<row, MCEmptyRow>>]
Two(first, second) == [n |-> 2, rows |-> <<first, second>>]

MCPayloads ==
    { Two(Row(14, 0, "9m", 2, TRUE), Row(13, 1, "5m", 2, TRUE)),
      Two(Row(14, 0, "99m", 3, TRUE), [Row(13, 1, "120m", 4, TRUE) EXCEPT !.late = TRUE]),
      One([Row(14, 0, "9m", 2, FALSE) EXCEPT !.stacked = TRUE, !.extra = TRUE]) }

=============================================================================
