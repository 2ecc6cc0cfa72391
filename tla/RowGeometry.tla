----------------------------- MODULE RowGeometry -----------------------------
(***************************************************************************)
(* Where core::LayoutEngine puts the parts of a transit row, in columns of *)
(* the panel.  A row is a record with a label (how many letters and spaces *)
(* its destination has), a badge, an eta (how many characters it has) and  *)
(* whether it is stacked: display type 4, with later arrivals below.       *)
(* Vertical positions are left out: every part of a row stays in its frame.*)
(***************************************************************************)
EXTENDS Integers

CONSTANTS PanelWidth, PanelHeight

ASSUME PanelAssumption ==
    /\ PanelWidth \in Nat \ {0}
    /\ PanelHeight \in Nat \ {0}

OuterMargin == 1
InnerGap == 2
PillWidth == 21         \* kVisualPillW
GroupGap == 4           \* kSingleRowGroupGap
RowShift == -1          \* kPreset1Config.rowXShift
EtaNudge == 2           \* kPreset1Config.etaRightNudgePx
EtaChars == 3           \* kEtaChars
ScrollGap == 4          \* kScrollEtaSafetyGapPx

AtMost(a, b) == IF a < b THEN a ELSE b
AtLeast(a, b) == IF a > b THEN a ELSE b

(***************************************************************************)
(* compute_transit_row_frames(): margins of two pixels around and between  *)
(* the rows, badge and font sizes from the height that leaves.             *)
(***************************************************************************)
BlockHeight(n) == (PanelHeight - 4 - 2 * (n - 1)) \div n
BadgeSize(n) == AtLeast(5, 2 * (AtLeast(1, (BlockHeight(n) - 1) \div 2) + 1))
RowFont(n) == AtMost(2, AtLeast(1, ((BadgeSize(n) * 3) \div 5 + 4) \div 8))
PlainFont(n) == AtLeast(1, RowFont(n) - 1)

BadgeWidth(n, row) == IF row.badge = "pill" THEN AtLeast(22, BadgeSize(n)) ELSE BadgeSize(n)
VisualBadgeWidth(n, row) == IF row.badge = "pill" THEN PillWidth ELSE BadgeWidth(n, row)

\* estimate_compact_line_width(), and the same sum in tick_scroll()
LabelWidth(label, font) == label.letters * 6 * font + label.spaces * (6 * font - 2)

(***************************************************************************)
(* compute_row_layout() and compute_transit_row_geometry(): badge left,    *)
(* eta right, the destination in between.  The shift is left out of the    *)
(* code for columns at or below 0, which the panel is too wide to have.    *)
(***************************************************************************)
EtaFont(n, row) == IF row.stacked THEN PlainFont(n) ELSE RowFont(n)
EtaDrawWidth(n, row) == row.eta.chars * 6 * EtaFont(n, row)
EtaWidth(n, row) == AtMost(EtaChars, row.eta.chars) * 6 * RowFont(n)
EtaColumn(n, row) == PanelWidth - OuterMargin - EtaWidth(n, row)
LabelColumn(n, row) == OuterMargin + BadgeWidth(n, row) + InnerGap
RoomForLabel(n, row) == AtLeast(0, EtaColumn(n, row) - LabelColumn(n, row) - InnerGap)

\* Slip: the eta is nudged to the left.
InColumnsNudgedLeft(n, row) ==
    [ font       |-> PlainFont(n),
      label      |-> LabelColumn(n, row) + RowShift,
      room       |-> RoomForLabel(n, row) + EtaNudge,
      eta        |-> EtaColumn(n, row) + RowShift + EtaWidth(n, row) - EtaDrawWidth(n, row) - EtaNudge,
      clear      |-> EtaColumn(n, row) + RowShift,
      clearWidth |-> EtaWidth(n, row) + EtaNudge ]

InColumns(n, row) ==
    [ font       |-> PlainFont(n),
      label      |-> LabelColumn(n, row) + RowShift,
      room       |-> RoomForLabel(n, row) + EtaNudge,
      eta        |-> EtaColumn(n, row) + RowShift + EtaWidth(n, row) - EtaDrawWidth(n, row) + EtaNudge,
      clear      |-> EtaColumn(n, row) + RowShift,
      clearWidth |-> EtaWidth(n, row) + EtaNudge ]

(***************************************************************************)
(* A single row that fits is centred as a group, in the larger font when   *)
(* that leaves two columns at each side.                                   *)
(***************************************************************************)
GroupWidth(n, row, font) ==
    VisualBadgeWidth(n, row) + GroupGap + LabelWidth(row.label, font) + GroupGap + EtaDrawWidth(n, row)
CentredFont(n, row) ==
    IF GroupWidth(n, row, RowFont(n)) <= PanelWidth - 4 THEN RowFont(n) ELSE PlainFont(n)
IsCentred(n, row) ==
    /\ n = 1
    /\ ~row.stacked
    /\ GroupWidth(n, row, CentredFont(n, row)) <= PanelWidth

Centred(n, row) ==
    LET font == CentredFont(n, row)
        width == LabelWidth(row.label, font)
        label == (PanelWidth - GroupWidth(n, row, font)) \div 2 + VisualBadgeWidth(n, row) + GroupGap
        eta == label + width + GroupGap
    IN  [ font       |-> font,
          label      |-> label,
          room       |-> width,
          eta        |-> eta,
          clear      |-> eta - 1,
          clearWidth |-> PanelWidth - (eta - 1) ]

Geometry(n, row) == IF IsCentred(n, row) THEN Centred(n, row) ELSE InColumns(n, row)

(***************************************************************************)
(* Columns: the cells an eta is drawn in, each opaque; those it lights,    *)
(* one font column less at the right; those an eta update blanks first;    *)
(* the width a scrolled label may use, and the last column it then reaches:*)
(* a letter is drawn whole when it begins before the clip's right edge.    *)
(***************************************************************************)
EtaCells(n, row) ==
    LET x == Geometry(n, row).eta
    IN  x .. (x + AtMost(EtaChars, row.eta.chars) * 6 * EtaFont(n, row) - 1)
EtaMarks(n, row) ==
    LET x == Geometry(n, row).eta
        font == EtaFont(n, row)
    IN  x .. (x + AtMost(EtaChars, row.eta.chars) * 6 * font - font - 1)

\* Slip: the cleared area is as wide as the reserved column, without the nudge.
EtaClearsWithoutNudge(n, row) ==
    LET g == Geometry(n, row) IN g.clear .. (g.clear + g.clearWidth - EtaNudge - 1)

EtaClears(n, row) ==
    LET g == Geometry(n, row) IN g.clear .. (g.clear + g.clearWidth - 1)

ScrollRoom(g) == IF g.room > ScrollGap THEN g.room - ScrollGap ELSE g.room
ScrollReach(g, label, offset) ==
    g.label + AtMost(offset + LabelWidth(label, g.font) - 1, ScrollRoom(g) - 1 + 6 * g.font - 1)

=============================================================================
