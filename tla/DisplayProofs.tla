----------------------------- MODULE DisplayProofs -----------------------------
(***************************************************************************)
(* Proofs about Display, for every panel, every set of payloads and every  *)
(* order of commands, sessions and drawing: with nothing owed the panel    *)
(* shows the render model, no label is left displaced, rows that scroll    *)
(* move together and belong to their labels, and an arrival time leaves    *)
(* columns behind only below the longer one it replaces.                   *)
(***************************************************************************)
EXTENDS Display, TLAPS

(***************************************************************************)
(* Where the parts of a row are.                                           *)
(***************************************************************************)
\* A row's letters are in one of two sizes, the smaller one where the larger does
\* not fit.
LEMMA FontsAre ==
  ASSUME NEW n \in RowIds
  PROVE  /\ BadgeSize(n) \in Int
         /\ RowFont(n) \in {1, 2}
         /\ PlainFont(n) = 1
<1>1. BlockHeight(n) \in Int
  <2>1. CASE n = 1
    BY <2>1, PanelAssumption DEF BlockHeight
  <2>2. CASE n = 2
    BY <2>2, PanelAssumption DEF BlockHeight
  <2> QED
    BY <2>1, <2>2 DEF RowIds
<1>2. BadgeSize(n) \in Int
  BY <1>1 DEF BadgeSize, AtLeast
<1>3. RowFont(n) \in {1, 2}
  BY <1>2 DEF RowFont, AtLeast, AtMost
<1> QED
  BY <1>2, <1>3 DEF PlainFont, AtLeast

\* How wide a badge is, laid out and drawn.
LEMMA BadgesAre ==
  ASSUME NEW n \in RowIds, NEW row, IsRow(row)
  PROVE  BadgeWidth(n, row) \in Int /\ VisualBadgeWidth(n, row) \in Int
BY FontsAre DEF BadgeWidth, VisualBadgeWidth, PillWidth, AtLeast, IsRow

\* How wide a label is, in either font.
LEMMA LabelsAre ==
  ASSUME NEW row, IsRow(row)
  PROVE  /\ LabelWidth(row.label, 1) = 6 * row.label.letters + 4 * row.label.spaces
         /\ LabelWidth(row.label, 2) = 12 * row.label.letters + 10 * row.label.spaces
         /\ row.label.letters \in Nat
         /\ row.label.spaces \in Nat
BY DEF LabelWidth, IsRow

\* An arrival time is drawn with all its characters; the layout reserves three.
LEMMA EtasAre ==
  ASSUME NEW n \in RowIds, NEW row, IsRow(row)
  PROVE  /\ row.eta.chars \in Nat
         /\ EtaFont(n, row) \in {1, 2}
         /\ EtaFont(n, row) <= RowFont(n)
         /\ EtaDrawWidth(n, row) = 6 * row.eta.chars * EtaFont(n, row)
         /\ EtaWidth(n, row) = 6 * AtMost(3, row.eta.chars) * RowFont(n)
<1>1. row.eta.chars \in Nat
  BY DEF IsRow
<1>2. EtaFont(n, row) \in {1, 2} /\ EtaFont(n, row) <= RowFont(n)
  BY FontsAre DEF EtaFont
<1>3. EtaDrawWidth(n, row) = 6 * row.eta.chars * EtaFont(n, row)
  BY <1>1, <1>2 DEF EtaDrawWidth
<1>4. EtaWidth(n, row) = 6 * AtMost(3, row.eta.chars) * RowFont(n)
  BY <1>1, FontsAre DEF EtaWidth, EtaChars, AtMost
<1> QED
  BY <1>1, <1>2, <1>3, <1>4

\* In columns, an arrival time ends at the panel's right edge.
LEMMA ColumnsAre ==
  ASSUME NEW n \in RowIds, NEW row, IsRow(row)
  PROVE  /\ InColumns(n, row).eta = PanelWidth - EtaDrawWidth(n, row)
         /\ InColumns(n, row).clear = PanelWidth - 2 - EtaWidth(n, row)
         /\ InColumns(n, row).clearWidth = EtaWidth(n, row) + 2
<1>1. EtaWidth(n, row) \in Int /\ EtaDrawWidth(n, row) \in Int
  BY EtasAre, FontsAre DEF AtMost
<1> QED
  BY <1>1, PanelAssumption DEF InColumns, EtaColumn, OuterMargin, RowShift, EtaNudge

\* Centred, an arrival time follows the label, and all to its right is blanked.
LEMMA CentreIs ==
  ASSUME NEW n \in RowIds, NEW row, IsRow(row)
  PROVE  LET font == CentredFont(n, row)
             left == (PanelWidth - GroupWidth(n, row, font)) \div 2
         IN  /\ font \in {1, RowFont(n)}
             /\ Centred(n, row).eta = left + VisualBadgeWidth(n, row) + 8 + LabelWidth(row.label, font)
             /\ Centred(n, row).clear = Centred(n, row).eta - 1
             /\ Centred(n, row).clearWidth = PanelWidth - (Centred(n, row).eta - 1)
<1> DEFINE font == CentredFont(n, row)
           left == (PanelWidth - GroupWidth(n, row, font)) \div 2
<1>1. font \in {1, RowFont(n)}
  BY FontsAre DEF CentredFont
<1>2. LabelWidth(row.label, font) \in Int
  BY <1>1, FontsAre, LabelsAre
<1>3. EtaDrawWidth(n, row) \in Int
  BY EtasAre
<1>4. GroupWidth(n, row, font) \in Int
  BY <1>2, <1>3, BadgesAre DEF GroupWidth, GroupGap
<1>5. left \in Int
  BY <1>4, PanelAssumption
<1> HIDE DEF font, left
<1>6. Centred(n, row).eta = left + VisualBadgeWidth(n, row) + 4 + LabelWidth(row.label, font) + 4
  BY DEF Centred, GroupGap, font, left
<1>7. /\ Centred(n, row).clear = Centred(n, row).eta - 1
      /\ Centred(n, row).clearWidth = PanelWidth - (Centred(n, row).eta - 1)
  BY DEF Centred
<1>8. Centred(n, row).eta = left + VisualBadgeWidth(n, row) + 8 + LabelWidth(row.label, font)
  BY <1>2, <1>5, <1>6, BadgesAre
<1> QED
  BY <1>1, <1>7, <1>8 DEF font, left

\* Where the parts of a row are depends on its layout and on how many characters
\* its arrival time has, on nothing else.
LEMMA SameGeometry ==
  ASSUME NEW n, NEW one, NEW other,
         Layout(one) = Layout(other), one.eta.chars = other.eta.chars
  PROVE  /\ Geometry(n, one) = Geometry(n, other)
         /\ EtaFont(n, one) = EtaFont(n, other)
         /\ EtaMarks(n, one) = EtaMarks(n, other)
<1>1. /\ one.label = other.label
      /\ one.badge = other.badge
      /\ one.stacked = other.stacked
  BY DEF Layout
<1>2. EtaFont(n, one) = EtaFont(n, other)
  BY <1>1 DEF EtaFont
<1>3. /\ EtaDrawWidth(n, one) = EtaDrawWidth(n, other)
      /\ EtaWidth(n, one) = EtaWidth(n, other)
      /\ BadgeWidth(n, one) = BadgeWidth(n, other)
  BY <1>1, <1>2 DEF EtaDrawWidth, EtaWidth, BadgeWidth
<1>4. /\ EtaColumn(n, one) = EtaColumn(n, other)
      /\ LabelColumn(n, one) = LabelColumn(n, other)
      /\ VisualBadgeWidth(n, one) = VisualBadgeWidth(n, other)
  BY <1>1, <1>3 DEF EtaColumn, LabelColumn, VisualBadgeWidth
<1>5. RoomForLabel(n, one) = RoomForLabel(n, other)
  BY <1>4 DEF RoomForLabel
<1>6. InColumns(n, one) = InColumns(n, other)
  BY <1>3, <1>4, <1>5 DEF InColumns
<1>7. \A font : GroupWidth(n, one, font) = GroupWidth(n, other, font)
  BY <1>1, <1>3, <1>4 DEF GroupWidth
<1>8. CentredFont(n, one) = CentredFont(n, other)
  BY <1>7 DEF CentredFont
<1>9. /\ IsCentred(n, one) = IsCentred(n, other)
      /\ Centred(n, one) = Centred(n, other)
  BY <1>1, <1>4, <1>7, <1>8 DEF IsCentred, Centred
<1>10. Geometry(n, one) = Geometry(n, other)
  BY <1>6, <1>9 DEF Geometry
<1> QED
  BY <1>1, <1>2, <1>10 DEF EtaMarks

\* What an arrival time of at most six characters blanks and draws over covers
\* every column that one with fewer characters, in the same row, has lit.
LEMMA Covers ==
  ASSUME NEW n \in RowIds, NEW older, NEW newer, IsRow(older), IsRow(newer),
         Layout(older) = Layout(newer),
         older.eta.chars <= newer.eta.chars,
         newer.eta.chars <= 2 * EtaChars
  PROVE  EtaMarks(n, older) \subseteq EtaClears(n, newer) \cup EtaCells(n, newer)
<1> DEFINE f == EtaFont(n, newer)
           r == RowFont(n)
           c == older.eta.chars
           d == newer.eta.chars
           v == VisualBadgeWidth(n, newer)
           one == LabelWidth(newer.label, 1)
           two == LabelWidth(newer.label, 2)
           x == Geometry(n, older).eta
           y == Geometry(n, newer).eta
           clear == Geometry(n, newer).clear
           w == PanelWidth
           GW(chars, label) == v + 8 + label + 6 * chars * f
<1>1. /\ older.label = newer.label
      /\ older.badge = newer.badge
      /\ older.stacked = newer.stacked
  BY DEF Layout
<1>2. EtaFont(n, older) = f /\ VisualBadgeWidth(n, older) = v
  BY <1>1 DEF EtaFont, VisualBadgeWidth, BadgeWidth
<1>3. /\ c \in Nat /\ d \in Nat /\ c <= d /\ d <= 6
      /\ f \in {1, 2} /\ r \in {1, 2} /\ f <= r
      /\ w \in Nat /\ v \in Int
      /\ one \in Nat /\ two \in Nat /\ one <= two
  BY FontsAre, EtasAre, BadgesAre, LabelsAre, PanelAssumption DEF EtaChars
<1>4. /\ EtaDrawWidth(n, older) = 6 * c * f
      /\ EtaDrawWidth(n, newer) = 6 * d * f
      /\ EtaWidth(n, newer) = 6 * AtMost(3, d) * r
  BY <1>2, EtasAre
<1>5. \A font : /\ GroupWidth(n, older, font) = v + 4 + LabelWidth(newer.label, font) + 4 + 6 * c * f
                /\ GroupWidth(n, newer, font) = v + 4 + LabelWidth(newer.label, font) + 4 + 6 * d * f
  BY <1>1, <1>2, <1>4 DEF GroupWidth, GroupGap
<1>6. /\ GroupWidth(n, older, 1) = GW(c, one) /\ GroupWidth(n, older, 2) = GW(c, two)
      /\ GroupWidth(n, newer, 1) = GW(d, one) /\ GroupWidth(n, newer, 2) = GW(d, two)
  BY <1>3, <1>5
<1> HIDE DEF f, r, c, d, v, one, two, x, y, clear, w
<1>7. EtaMarks(n, older) = x .. (x + 6 * AtMost(3, c) * f - f - 1)
  BY <1>2, <1>3 DEF EtaMarks, EtaChars, AtMost, f, c, x
<1>8. EtaCells(n, newer) = y .. (y + 6 * AtMost(3, d) * f - 1)
  BY <1>3 DEF EtaCells, EtaChars, AtMost, f, d, y
<1>9. ASSUME IsCentred(n, older)
      PROVE  \E label \in {one, two} :
                /\ GW(c, label) <= w
                /\ x = (w - GW(c, label)) \div 2 + v + 8 + label
                /\ \/ r = 1 /\ label = one
                   \/ r = 2 /\ label = two /\ GW(c, two) <= w - 4
                   \/ r = 2 /\ label = one /\ ~(GW(c, two) <= w - 4)
  <2>1. /\ GroupWidth(n, older, CentredFont(n, older)) <= w
        /\ x = Centred(n, older).eta
    BY <1>9 DEF IsCentred, Geometry, w, x
  <2>2. CentredFont(n, older) = IF GroupWidth(n, older, r) <= w - 4 THEN r ELSE 1
    BY FontsAre DEF CentredFont, r, w
  <2>3. x = (w - GroupWidth(n, older, CentredFont(n, older))) \div 2 + v + 8
              + LabelWidth(newer.label, CentredFont(n, older))
    BY <1>1, <1>2, <2>1, CentreIs DEF w
  <2> QED
    BY <1>3, <1>6, <2>1, <2>2, <2>3 DEF one, two
<1>10. CASE IsCentred(n, newer)
  <2>1. n = 1 /\ ~newer.stacked /\ GroupWidth(n, newer, CentredFont(n, newer)) <= w
    BY <1>10 DEF IsCentred, w
  <2>2. CentredFont(n, newer) = IF GroupWidth(n, newer, r) <= w - 4 THEN r ELSE 1
    BY FontsAre DEF CentredFont, r, w
  <2>3. /\ y = (w - GroupWidth(n, newer, CentredFont(n, newer))) \div 2 + v + 8
                 + LabelWidth(newer.label, CentredFont(n, newer))
        /\ EtaClears(n, newer) = (y - 1) .. (y - 1 + (w - (y - 1)) - 1)
    BY <1>10, CentreIs DEF Geometry, EtaClears, w, v, y
  <2>4. PICK label \in {one, two} :
           /\ GW(d, label) <= w
           /\ y = (w - GW(d, label)) \div 2 + v + 8 + label
           /\ \/ r = 1 /\ label = one
              \/ r = 2 /\ label = two /\ GW(d, two) <= w - 4
              \/ r = 2 /\ label = one /\ ~(GW(d, two) <= w - 4)
    BY <1>3, <1>6, <2>1, <2>2, <2>3 DEF one, two
  <2>5. GW(c, one) <= GW(d, one) /\ GW(c, two) <= GW(d, two)
    BY <1>3
  <2>6. IsCentred(n, older)
    <3>1. CentredFont(n, older) = IF GroupWidth(n, older, r) <= w - 4 THEN r ELSE 1
      BY FontsAre DEF CentredFont, r, w
    <3>2. GroupWidth(n, older, CentredFont(n, older)) <= w
      BY <1>3, <1>6, <2>4, <2>5, <3>1
    <3> QED
      BY <1>1, <2>1, <3>2 DEF IsCentred, w
  <2>7. PICK wide \in {one, two} :
           /\ GW(c, wide) <= w
           /\ x = (w - GW(c, wide)) \div 2 + v + 8 + wide
           /\ \/ r = 1 /\ wide = one
              \/ r = 2 /\ wide = two /\ GW(c, two) <= w - 4
              \/ r = 2 /\ wide = one /\ ~(GW(c, two) <= w - 4)
    BY <1>9, <2>6
  <2>8. label <= wide
    BY <1>3, <2>4, <2>5, <2>7
  <2>9. /\ y \in Int /\ x \in Int
        /\ y - 1 <= x
        /\ x + 6 * c * f <= w
    BY <1>3, <2>4, <2>7, <2>8
  <2>10. EtaClears(n, newer) = (y - 1) .. (w - 1)
    BY <1>3, <2>3, <2>9
  <2>11. x + 6 * AtMost(3, c) * f - f - 1 <= w - 1
    BY <1>3, <2>9 DEF AtMost
  <2>12. AtMost(3, c) \in Nat
    BY <1>3 DEF AtMost
  <2>13. x + 6 * AtMost(3, c) * f - f - 1 \in Int
    BY <1>3, <2>9, <2>12
  <2> QED
    BY <1>3, <1>7, <2>9, <2>10, <2>11, <2>13
<1>11. CASE ~IsCentred(n, newer)
  <2>1. /\ y = w - 6 * d * f
        /\ EtaClears(n, newer) = (w - 2 - 6 * AtMost(3, d) * r) .. (w - 1)
    <3>1. /\ y = w - 6 * d * f
          /\ Geometry(n, newer).clear = w - 2 - 6 * AtMost(3, d) * r
          /\ Geometry(n, newer).clearWidth = 6 * AtMost(3, d) * r + 2
      BY <1>4, <1>11, ColumnsAre DEF Geometry, w, y
    <3> QED
      BY <1>3, <3>1 DEF EtaClears, AtMost
  <2>2. x \in Int /\ y <= x /\ x + 6 * c * f <= w
    <3>1. CASE ~IsCentred(n, older)
      <4>1. x = w - 6 * c * f
        BY <1>4, <3>1, ColumnsAre DEF Geometry, w, x
      <4> QED
        BY <1>3, <2>1, <4>1
    <3>2. CASE IsCentred(n, older)
      <4>1. PICK label \in {one, two} :
               GW(c, label) <= w /\ x = (w - GW(c, label)) \div 2 + v + 8 + label
        BY <1>9, <3>2
      <4>2. ~(GroupWidth(n, newer, CentredFont(n, newer)) <= w)
        BY <1>1, <1>11, <3>2 DEF IsCentred, w
      <4>3. CentredFont(n, newer) = IF GroupWidth(n, newer, r) <= w - 4 THEN r ELSE 1
        BY FontsAre DEF CentredFont, r, w
      <4>4. ~(GW(d, one) <= w)
        BY <1>3, <1>6, <4>2, <4>3
      <4> QED
        BY <1>3, <2>1, <4>1, <4>4
    <3> QED
      BY <3>1, <3>2
  <2>3. y + 6 * AtMost(3, d) * f - 1 >= w - 2 - 6 * AtMost(3, d) * r - 1
    BY <1>3, <2>1 DEF AtMost
  <2>4. x + 6 * AtMost(3, c) * f - f - 1 <= w - 1
    BY <1>3, <2>2 DEF AtMost
  <2> QED
    BY <1>3, <1>7, <1>8, <2>1, <2>2, <2>3, <2>4 DEF AtMost
<1> QED
  BY <1>10, <1>11

\* The layout has room for a badge, three characters in the larger font and some
\* of the label between them.  main.cpp's two panels of 64x32 side by side have; a
\* single one has not: there a row alone has its label drawn into the arrival time.
WidePanel == PanelWidth >= AtLeast(22, PanelHeight) + 45

\* A badge is no wider than a pill or than the panel is high.
LEMMA BadgeIsSmall ==
  ASSUME NEW n \in RowIds, NEW row
  PROVE  BadgeWidth(n, row) <= AtLeast(22, PanelHeight) /\ BadgeWidth(n, row) \in Int
<1>1. BlockHeight(n) \in Int /\ BlockHeight(n) <= PanelHeight - 3
  <2>1. CASE n = 1
    BY <2>1, PanelAssumption DEF BlockHeight
  <2>2. CASE n = 2
    BY <2>2, PanelAssumption DEF BlockHeight
  <2> QED
    BY <2>1, <2>2 DEF RowIds
<1>2. BadgeSize(n) \in Int /\ BadgeSize(n) <= AtLeast(5, PanelHeight)
  BY <1>1, PanelAssumption DEF BadgeSize, AtLeast
<1> QED
  BY <1>2, PanelAssumption DEF BadgeWidth, AtLeast

\* A label that is scrolled to the left ends before the arrival time.
LEMMA ScrollStopsShort ==
  ASSUME WidePanel, NEW n \in RowIds, NEW row, IsRow(row),
         row.eta.chars <= EtaChars, NEW offset \in Int, offset <= 0
  PROVE  LET g == Geometry(n, row)
         IN  ScrollReach(g, row.label, offset) < g.eta
<1> DEFINE g == Geometry(n, row)
           f == EtaFont(n, row)
           r == RowFont(n)
           c == row.eta.chars
<1>1. /\ c \in 0..3 /\ r \in {1, 2} /\ f \in {1, 2} /\ f <= r /\ PlainFont(n) = 1
      /\ EtaDrawWidth(n, row) = 6 * c * f
      /\ EtaWidth(n, row) = 6 * c * r
  BY FontsAre, EtasAre DEF EtaChars, AtMost
<1>2. LabelWidth(row.label, 1) \in Nat /\ LabelWidth(row.label, 2) \in Nat
  BY LabelsAre
<1> HIDE DEF f, r, c
<1>3. CASE IsCentred(n, row)
  <2> DEFINE font == CentredFont(n, row)
             width == LabelWidth(row.label, font)
             label == (PanelWidth - GroupWidth(n, row, font)) \div 2 + VisualBadgeWidth(n, row) + GroupGap
  <2>1. font \in {1, 2}
    BY <1>1, CentreIs DEF r
  <2>2. width \in Nat
    BY <1>2, <2>1
  <2>3. label \in Int
    BY <1>1, <2>2, BadgesAre, PanelAssumption DEF GroupWidth, GroupGap
  <2>4. /\ g.font = font /\ g.label = label /\ g.room = width
        /\ g.eta = label + width + GroupGap
    BY <1>3 DEF Geometry, Centred
  <2> HIDE DEF font, width, label, g
  <2>5. LabelWidth(row.label, g.font) = width
    BY <2>4 DEF width
  <2>6. ScrollReach(g, row.label, offset) <= label + width - 1
    BY <2>1, <2>2, <2>3, <2>4, <2>5 DEF ScrollReach, ScrollRoom, ScrollGap, AtMost
  <2> QED
    <3>1. g.eta \in Int /\ label + width - 1 < g.eta
      BY <2>2, <2>3, <2>4 DEF GroupGap
    <3>2. ScrollReach(g, row.label, offset) \in Int
      BY <2>1, <2>2, <2>3, <2>4, <2>5 DEF ScrollReach, ScrollRoom, ScrollGap, AtMost
    <3> QED
      BY <2>2, <2>3, <2>6, <3>1, <3>2 DEF g
<1>4. CASE ~IsCentred(n, row)
  <2> DEFINE column == EtaColumn(n, row)
             label == LabelColumn(n, row)
  <2>1. column = PanelWidth - 1 - 6 * c * r
    BY <1>1 DEF EtaColumn, OuterMargin
  <2>2. label \in Int /\ label <= AtLeast(22, PanelHeight) + 3
    BY BadgeIsSmall, PanelAssumption DEF LabelColumn, OuterMargin, InnerGap, AtLeast
  <2>3. column \in Int /\ column - label - 2 > 2
    BY <1>1, <2>1, <2>2, PanelAssumption DEF WidePanel, AtLeast
  <2>4. RoomForLabel(n, row) = column - label - 2
    BY <2>2, <2>3 DEF RoomForLabel, InnerGap, AtLeast
  <2>5. /\ g.font = 1 /\ g.label = label - 1 /\ g.room = column - label
        /\ g.eta = column - 1 + 6 * c * r - 6 * c * f + 2
    BY <1>1, <1>4, <2>2, <2>3, <2>4 DEF Geometry, InColumns, RowShift, EtaNudge
  <2> HIDE DEF column, label, g
  <2>6. LabelWidth(row.label, g.font) \in Nat
    BY <1>2, <2>5
  <2>7. ScrollRoom(g) = column - label - 4
    BY <2>2, <2>3, <2>5 DEF ScrollRoom, ScrollGap
  <2>8. ScrollReach(g, row.label, offset) <= column - 1
    BY <2>2, <2>3, <2>5, <2>6, <2>7 DEF ScrollReach, AtMost
  <2>9. ScrollReach(g, row.label, offset) \in Int
    BY <2>2, <2>3, <2>5, <2>6, <2>7 DEF ScrollReach, AtMost
  <2>10. g.eta > column - 1 /\ g.eta \in Int
    BY <1>1, <2>3, <2>5
  <2> QED
    BY <2>3, <2>8, <2>9, <2>10 DEF g
<1> QED
  BY <1>3, <1>4

(***************************************************************************)
(* The inductive invariant.                                                *)
(***************************************************************************)
\* A row that a data command filled; set_default_rows() and clear_row() leave
\* others.
Named(row) == row.label \notin {EmptyRow.label, WaitingRow.label}

\* The render model: as many rows named as are active, and only with data.
ModelOK(m) ==
    /\ DOMAIN m = {"ui", "status", "hasData", "n", "rows"}
    /\ m.hasData \in BOOLEAN
    /\ m.n \in 0..2
    /\ m.hasData => m.n > 0
    /\ m.ui \in {"transit", "stale"} => m.hasData
    /\ \A i \in RowIds :
        /\ IsRow(m.rows[i])
        /\ Named(m.rows[i]) <=> m.hasData /\ i <= m.n

\* The pending render: only an update of arrival times owes single rows.
RenderOK(r) ==
    /\ r \in [dirty : BOOLEAN, mode : {"none", "scroll", "eta", "full"}, mask : SUBSET RowIds]
    /\ r.dirty <=> r.mode # "none"
    /\ r.mode \in {"none", "scroll"} => r.mask = {}

\* The panel's rows, whatever they show.
ScreenOK(s) ==
    /\ DOMAIN s = {"kind", "n", "text", "rows"}
    /\ \A i \in RowIds :
        /\ DOMAIN s.rows[i] = {"layout", "part", "white", "offset", "marks", "widest"}
        /\ s.rows[i].widest \in Nat

\* What the panel shows already, but for what the pending render owes.
PanelShows(m, r, s) ==
    /\ r.mode = "none" /\ ~InView(m) => s = DrawnFull(m)
    /\ r.mode \in {"scroll", "eta"} => InView(m)
    /\ r.mode = "scroll" => m.ui = "transit"
    /\ r.mode # "full" /\ InView(m) =>
        /\ s.kind = "rows"
        /\ s.n = m.n
        /\ \A i \in 1..m.n :
            /\ s.rows[i].layout = Layout(m.rows[i])
            /\ s.rows[i].white = (m.ui = "stale")
            /\ i \notin r.mask => s.rows[i].part = EtaPart(m.rows[i])

\* A label is displaced on the panel only while its row scrolls.
OffsetsLive(m, r, rows, s) ==
    r.mode # "full" =>
        \A i \in RowIds : s.rows[i].offset # 0 =>
            m.ui = "transit" /\ i <= m.n /\ m.rows[i].scroll /\ rows[i].active

\* The row with an arrival time of another length.
WithChars(row, chars) == [row EXCEPT !.eta = [chars |-> chars]]

\* Every column an arrival time lit is one of a time no longer than the widest
\* since the last full render; without a longer one, exactly its own are lit.
MarksKnown(m, r, s) ==
    r.mode # "full" /\ InView(m) =>
        \A i \in 1..m.n :
            /\ \A x \in s.rows[i].marks : \E c \in 0..s.rows[i].widest :
                   x \in EtaMarks(m.n, WithChars(m.rows[i], c))
            /\ i \notin r.mask /\ m.rows[i].eta.chars <= 2 * EtaChars =>
                   \/ s.rows[i].marks = EtaMarks(m.n, m.rows[i])
                   \/ s.rows[i].widest > m.rows[i].eta.chars

\* RowScrollState.
ScrollState == [offset : Int, width : Int, room : Int, returning : BOOLEAN, active : BOOLEAN]

\* A row not measured does not move; one that moves has a label too wide, and was
\* measured with the label it has.
ScrollsOK(rows, s) ==
    /\ s \in [RowIds -> ScrollState]
    /\ \A i \in RowIds :
        /\ s[i].width = 0 => ~s[i].active /\ s[i].offset = 0 /\ ~s[i].returning
        /\ s[i].active => s[i].room < s[i].width
        /\ s[i].width # 0 /\ Named(rows[i]) =>
               /\ rows[i].scroll
               /\ s[i].width \in {LabelWidth(rows[i].label, font) : font \in 1..2}

\* The rows of a data command that move; others keep a state nobody reads.
ActiveRows(rows, s) == {i \in RowIds : Named(rows[i]) /\ s[i].active}

\* One lead moves all rows: each follows it up to its own end, and turns with it.
Together(rows, s) ==
    \E lead \in Int, back \in BOOLEAN :
        \A i \in ActiveRows(rows, s) :
            /\ s[i].offset = AtMost(0, AtLeast(lead, s[i].room - s[i].width))
            /\ s[i].returning = back
            /\ back => lead <= s[i].room - s[i].width

\* The panel against the render model.
Drawing(m, r, rows, s) == PanelShows(m, r, s) /\ OffsetsLive(m, r, rows, s) /\ MarksKnown(m, r, s)

\* The scroll states against the rows.
Scrolling(rows, s) == ScrollsOK(rows, s) /\ Together(rows, s)

\* The inductive invariant.
DisplayInv ==
    /\ ModelOK(model)
    /\ RenderOK(render)
    /\ ScreenOK(screen)
    /\ Drawing(model, render, scroll, screen)
    /\ Scrolling(model.rows, scroll)

(***************************************************************************)
(* Rows and requests.                                                      *)
(***************************************************************************)
\* A full render owes everything, so that nothing need be known of the panel.
LEMMA FullOwesAll ==
  ASSUME NEW m, NEW rows, NEW s
  PROVE  Drawing(m, FullRender, rows, s) /\ RenderOK(FullRender)
BY DEF Drawing, PanelShows, OffsetsLive, MarksKnown, FullRender, RenderOK, RowIds

\* A change of arrival times leaves the scroll states right.
LEMMA RestyledScrolling ==
  ASSUME NEW rows, NEW other, NEW s, Scrolling(rows, s),
         \A i \in RowIds : other[i].label = rows[i].label /\ other[i].scroll = rows[i].scroll
  PROVE  Scrolling(other, s)
<1>1. \A i \in RowIds : Named(other[i]) = Named(rows[i])
  BY DEF Named
<1>2. ScrollsOK(other, s)
  BY <1>1 DEF Scrolling, ScrollsOK
<1>3. ActiveRows(other, s) = ActiveRows(rows, s)
  BY <1>1 DEF ActiveRows
<1> QED
  BY <1>2, <1>3 DEF Scrolling, Together

\* Another look of the same rows: the layout of each is kept.
Restyles(m, other) ==
    /\ DOMAIN other = DOMAIN m
    /\ other.hasData = m.hasData
    /\ other.n = m.n
    /\ other.ui \in {"transit", "stale"} => m.hasData
    /\ \A i \in RowIds :
        /\ IsRow(other.rows[i])
        /\ Layout(other.rows[i]) = Layout(m.rows[i])
        /\ other.rows[i].scroll = m.rows[i].scroll

\* Another look keeps the invariant of the render model and the labels.
LEMMA RestyledOK ==
  ASSUME NEW m, NEW other, ModelOK(m), Restyles(m, other)
  PROVE  /\ ModelOK(other)
         /\ \A i \in RowIds : other.rows[i].label = m.rows[i].label
<1>1. \A i \in RowIds : other.rows[i].label = m.rows[i].label
  BY DEF Restyles, Layout
<1>2. \A i \in RowIds : Named(other.rows[i]) = Named(m.rows[i])
  BY <1>1 DEF Named
<1> QED
  BY <1>1, <1>2 DEF ModelOK, Restyles

\* Dots for an arrival time change nothing of a row's layout.
LEMMA RowsOf ==
  ASSUME NEW row, IsRow(row), NEW frame \in Frames
  PROVE  LET dots == [row EXCEPT !.eta = frame, !.extra = FALSE]
         IN  IsRow(dots) /\ Layout(dots) = Layout(row) /\ dots.scroll = row.scroll
<1>1. frame.chars = 3
  BY DisplayAssumption
<1> QED
  BY <1>1 DEF IsRow, Layout

\* sync_stale_eta_animation() gives the rows another look only.
LEMMA DottedRestyles ==
  ASSUME NEW m, NEW shown, Restyles(m, shown), ModelOK(m), NEW frame \in Frames
  PROVE  Restyles(m, Dotted(shown, frame))
<1> DEFINE d == Dotted(shown, frame)
<1>1. DOMAIN shown = {"ui", "status", "hasData", "n", "rows"}
  BY DEF Restyles, ModelOK
<1>2. /\ DOMAIN d = DOMAIN shown
      /\ d.hasData = shown.hasData
      /\ d.n = shown.n
      /\ d.ui = shown.ui
      /\ d.rows = [i \in RowIds |->
             IF i <= shown.n THEN [shown.rows[i] EXCEPT !.eta = frame, !.extra = FALSE] ELSE shown.rows[i]]
  BY <1>1 DEF Dotted
<1> HIDE DEF d
<1>3. ASSUME NEW i \in RowIds
      PROVE  IsRow(d.rows[i]) /\ Layout(d.rows[i]) = Layout(shown.rows[i])
             /\ d.rows[i].scroll = shown.rows[i].scroll
  <2>1. IsRow(shown.rows[i])
    BY DEF Restyles
  <2>2. \/ d.rows[i] = shown.rows[i]
        \/ d.rows[i] = [shown.rows[i] EXCEPT !.eta = frame, !.extra = FALSE]
    BY <1>2
  <2>3. CASE d.rows[i] = shown.rows[i]
    BY <2>1, <2>3
  <2>4. CASE d.rows[i] = [shown.rows[i] EXCEPT !.eta = frame, !.extra = FALSE]
    <3>1. LET dots == [shown.rows[i] EXCEPT !.eta = frame, !.extra = FALSE]
          IN  IsRow(dots) /\ Layout(dots) = Layout(shown.rows[i]) /\ dots.scroll = shown.rows[i].scroll
      BY <2>1, RowsOf
    <3> QED
      BY <2>4, <3>1, Zenon
  <2> QED
    BY <2>2, <2>3, <2>4
<1> QED
  BY <1>2, <1>3 DEF Restyles, d

\* update_ui_state() gives the rows another look only, and shows rows only when
\* there are some.
LEMMA ShowingRestyles ==
  ASSUME NEW m, ModelOK(m), NEW shown \in Showing(m)
  PROVE  Restyles(m, shown)
<1>1. PICK look \in Looks(m) : shown = [m EXCEPT !.ui = look[1], !.status = look[2]]
  BY DEF Showing
<1>2. look[1] \in {"transit", "stale"} => m.hasData
  BY DEF Looks, ModelOK
<1>3. /\ DOMAIN shown = DOMAIN m
      /\ shown.hasData = m.hasData
      /\ shown.n = m.n
      /\ shown.ui = look[1]
      /\ shown.rows = m.rows
  BY <1>1 DEF ModelOK
<1> QED
  BY <1>2, <1>3 DEF Restyles, ModelOK

\* update_ui_state() keeps the invariant: a change of what is shown owes a full
\* render.
LEMMA UpdateKeepsInv ==
  ASSUME DisplayInv, UpdatesUi(render), UNCHANGED <<scroll, screen>>
  PROVE  DisplayInv'
<1>1. PICK shown \in Showing(model) :
        IF shown = model
        THEN model' = model /\ render' = render
        ELSE /\ model' \in IF shown.ui = "stale" THEN {Dotted(shown, frame) : frame \in Frames}
                           ELSE {shown}
             /\ render' = FullRender
  BY DEF UpdatesUi
<1>2. CASE shown = model
  BY <1>1, <1>2 DEF DisplayInv
<1>3. CASE shown # model
  <2>1. Restyles(model, shown)
    BY ShowingRestyles DEF DisplayInv
  <2>2. Restyles(model, model')
    BY <1>1, <1>3, <2>1, DottedRestyles DEF DisplayInv
  <2>3. ModelOK(model')
    BY <2>2, RestyledOK DEF DisplayInv
  <2>4. Scrolling(model'.rows, scroll)
    BY <2>2, RestyledOK, RestyledScrolling DEF DisplayInv, Restyles
  <2>5. ScreenOK(screen') /\ scroll' = scroll
    BY DEF DisplayInv
  <2> QED
    BY <1>1, <1>3, <2>3, <2>4, <2>5, FullOwesAll DEF DisplayInv
<1> QED
  BY <1>2, <1>3

(***************************************************************************)
(* Drawing.                                                                *)
(***************************************************************************)
\* Another length of the arrival time changes that length only.
LEMMA CharsAre ==
  ASSUME NEW row, IsRow(row), NEW c
  PROVE  Layout(WithChars(row, c)) = Layout(row) /\ WithChars(row, c).eta.chars = c
BY DEF IsRow, WithChars, Layout

\* Giving a row the length it has changes no column.
LEMMA WithCharsIs ==
  ASSUME NEW n, NEW row, IsRow(row)
  PROVE  EtaMarks(n, WithChars(row, row.eta.chars)) = EtaMarks(n, row)
BY CharsAre, SameGeometry

\* Rows with one layout light the same columns for times of the same length.
LEMMA SameMarks ==
  ASSUME NEW n, NEW one, NEW other, IsRow(one), IsRow(other), Layout(one) = Layout(other), NEW c
  PROVE  EtaMarks(n, WithChars(one, c)) = EtaMarks(n, WithChars(other, c))
BY CharsAre, SameGeometry

\* A full render shows the render model and leaves nothing displaced or lit
\* before.
LEMMA FullFrame ==
  ASSUME NEW m, ModelOK(m), NEW rows
  PROVE  ScreenOK(DrawnFull(m)) /\ Drawing(m, Drawn, rows, DrawnFull(m)) /\ RenderOK(Drawn)
<1> DEFINE s == DrawnFull(m)
<1>1. CASE InView(m)
  <2>1. s = [kind |-> "rows", n |-> m.n, text |-> "", rows |-> [i \in RowIds |-> DrawnRow(m, i)]]
    BY <1>1 DEF DrawnFull
  <2> HIDE DEF s
  <2>2. ASSUME NEW i \in RowIds
        PROVE  /\ DOMAIN s.rows[i] = {"layout", "part", "white", "offset", "marks", "widest"}
               /\ s.rows[i].widest \in Nat
               /\ s.rows[i].offset = 0
    <3>1. s.rows[i] = DrawnRow(m, i)
      BY <2>1
    <3>2. m.rows[i].eta.chars \in Nat
      BY DEF ModelOK, IsRow
    <3> QED
      BY <3>1, <3>2 DEF DrawnRow, NothingShown
  <2>3. m.n \in 1..2 /\ 1..m.n \subseteq RowIds
    BY <1>1 DEF ModelOK, InView, RowIds
  <2>4. ASSUME NEW i \in 1..m.n
        PROVE  /\ s.rows[i].layout = Layout(m.rows[i])
               /\ s.rows[i].part = EtaPart(m.rows[i])
               /\ s.rows[i].white = (m.ui = "stale")
               /\ s.rows[i].marks = EtaMarks(m.n, m.rows[i])
               /\ s.rows[i].widest = m.rows[i].eta.chars
    <3>1. i \in RowIds /\ ~(i > m.n)
      BY <2>3
    <3>2. s.rows[i] = DrawnRow(m, i)
      BY <2>1, <3>1
    <3> QED
      BY <3>1, <3>2 DEF DrawnRow
  <2>5. ASSUME NEW i \in 1..m.n
        PROVE  /\ s.rows[i].widest \in 0..s.rows[i].widest
               /\ EtaMarks(m.n, WithChars(m.rows[i], s.rows[i].widest)) = s.rows[i].marks
    BY <2>2, <2>3, <2>4, WithCharsIs DEF ModelOK
  <2>6. ScreenOK(s)
    BY <2>1, <2>2 DEF ScreenOK
  <2>7. PanelShows(m, Drawn, s)
    BY <1>1, <2>1, <2>4 DEF PanelShows, Drawn
  <2>8. OffsetsLive(m, Drawn, rows, s)
    BY <2>2 DEF OffsetsLive
  <2>9. MarksKnown(m, Drawn, s)
    BY <2>4, <2>5 DEF MarksKnown
  <2> QED
    BY <2>6, <2>7, <2>8, <2>9 DEF Drawing, RenderOK, Drawn, s
<1>2. CASE ~InView(m)
  <2>1. DOMAIN s = {"kind", "n", "text", "rows"} /\ s.rows = [i \in RowIds |-> NothingShown]
    BY <1>2 DEF DrawnFull, DarkScreen
  <2>2. ScreenOK(s)
    BY <2>1 DEF ScreenOK, NothingShown
  <2>3. PanelShows(m, Drawn, s)
    BY <1>2 DEF PanelShows, Drawn
  <2>4. OffsetsLive(m, Drawn, rows, s)
    BY <2>1 DEF OffsetsLive, NothingShown
  <2>5. MarksKnown(m, Drawn, s)
    BY <1>2 DEF MarksKnown
  <2> QED
    BY <2>2, <2>3, <2>4, <2>5 DEF Drawing, RenderOK, Drawn
<1> QED
  BY <1>1, <1>2

\* An update of arrival times shows those it owes: what stays lit of the old ones
\* belongs to longer ones.
LEMMA EtaFrame ==
  ASSUME NEW m, ModelOK(m), InView(m), NEW r, RenderOK(r), r.mode = "eta",
         ScreenOK(screen), NEW rows, Drawing(m, r, rows, screen)
  PROVE  ScreenOK(DrawnEta(m, r.mask)) /\ Drawing(m, Drawn, rows, DrawnEta(m, r.mask))
<1> DEFINE s == DrawnEta(m, r.mask)
           Redrawn(i) == i <= m.n /\ i \in r.mask
           Swept(i) == EtaClears(m.n, m.rows[i]) \cup EtaCells(m.n, m.rows[i])
<1>1. /\ DOMAIN s = {"kind", "n", "text", "rows"}
      /\ s.kind = screen.kind
      /\ s.n = screen.n
  BY DEF DrawnEta, ScreenOK
<1>2. m.n \in RowIds /\ \A i \in 1..m.n : i \in RowIds /\ IsRow(m.rows[i])
  BY DEF ModelOK, InView, RowIds
<1>3. ASSUME NEW i \in RowIds, ~Redrawn(i)
      PROVE  s.rows[i] = screen.rows[i]
  BY <1>2, <1>3 DEF DrawnEta, ScreenOK, RowIds
<1>4. ASSUME NEW i \in RowIds, Redrawn(i)
      PROVE  /\ DOMAIN s.rows[i] = DOMAIN screen.rows[i]
             /\ s.rows[i].layout = screen.rows[i].layout
             /\ s.rows[i].offset = screen.rows[i].offset
             /\ s.rows[i].part = EtaPart(m.rows[i])
             /\ s.rows[i].white = (m.ui = "stale")
             /\ s.rows[i].marks = (screen.rows[i].marks \ Swept(i)) \cup EtaMarks(m.n, m.rows[i])
             /\ s.rows[i].widest = AtLeast(screen.rows[i].widest, m.rows[i].eta.chars)
  <2>1. s.rows[i] = [screen.rows[i] EXCEPT
                        !.part = EtaPart(m.rows[i]),
                        !.white = (m.ui = "stale"),
                        !.marks = (screen.rows[i].marks \ Swept(i)) \cup EtaMarks(m.n, m.rows[i]),
                        !.widest = AtLeast(screen.rows[i].widest, m.rows[i].eta.chars)]
    BY <1>2, <1>4 DEF DrawnEta, ScreenOK, RowIds
  <2> QED
    BY <2>1 DEF ScreenOK
<1> HIDE DEF s
<1>5. ASSUME NEW i \in RowIds
      PROVE  /\ DOMAIN s.rows[i] = {"layout", "part", "white", "offset", "marks", "widest"}
             /\ s.rows[i].widest \in Nat
             /\ s.rows[i].offset = screen.rows[i].offset
  BY <1>3, <1>4, <1>5 DEF ScreenOK, ModelOK, IsRow, AtLeast
<1>6. ScreenOK(s)
  BY <1>1, <1>5 DEF ScreenOK
<1>7. PanelShows(m, Drawn, s)
  <2>1. ASSUME NEW i \in 1..m.n
        PROVE  /\ s.rows[i].layout = Layout(m.rows[i])
               /\ s.rows[i].white = (m.ui = "stale")
               /\ s.rows[i].part = EtaPart(m.rows[i])
    <3>1. i \in RowIds /\ i <= m.n
      BY <1>2
    <3>2. /\ screen.rows[i].layout = Layout(m.rows[i])
          /\ screen.rows[i].white = (m.ui = "stale")
          /\ i \notin r.mask => screen.rows[i].part = EtaPart(m.rows[i])
      BY DEF Drawing, PanelShows
    <3> QED
      BY <1>3, <1>4, <3>1, <3>2
  <2>2. s.kind = "rows" /\ s.n = m.n
    BY <1>1 DEF Drawing, PanelShows
  <2> QED
    BY <2>1, <2>2 DEF PanelShows, Drawn
<1>8. OffsetsLive(m, Drawn, rows, s)
  BY <1>5 DEF Drawing, OffsetsLive
<1>9. MarksKnown(m, Drawn, s)
  <2> SUFFICES ASSUME NEW i \in 1..m.n
               PROVE  /\ \A x \in s.rows[i].marks : \E c \in 0..s.rows[i].widest :
                             x \in EtaMarks(m.n, WithChars(m.rows[i], c))
                      /\ m.rows[i].eta.chars <= 2 * EtaChars =>
                             \/ s.rows[i].marks = EtaMarks(m.n, m.rows[i])
                             \/ s.rows[i].widest > m.rows[i].eta.chars
    BY DEF MarksKnown, Drawn
  <2>1. i \in RowIds /\ i <= m.n /\ IsRow(m.rows[i])
    BY <1>2
  <2>2. /\ \A x \in screen.rows[i].marks : \E c \in 0..screen.rows[i].widest :
               x \in EtaMarks(m.n, WithChars(m.rows[i], c))
        /\ i \notin r.mask /\ m.rows[i].eta.chars <= 2 * EtaChars =>
               \/ screen.rows[i].marks = EtaMarks(m.n, m.rows[i])
               \/ screen.rows[i].widest > m.rows[i].eta.chars
    BY DEF Drawing, MarksKnown
  <2>3. CASE i \notin r.mask
    BY <1>3, <2>1, <2>2, <2>3
  <2>4. CASE i \in r.mask
    <3> DEFINE chars == m.rows[i].eta.chars
               before == screen.rows[i].widest
    <3>1. /\ s.rows[i].marks = (screen.rows[i].marks \ Swept(i)) \cup EtaMarks(m.n, m.rows[i])
          /\ s.rows[i].widest = AtLeast(before, chars)
      BY <1>4, <2>1, <2>4
    <3>2. chars \in Nat /\ before \in Nat
      BY <2>1 DEF IsRow, ScreenOK
    <3>3. /\ 0..before \subseteq 0..s.rows[i].widest
          /\ chars \in 0..s.rows[i].widest
      BY <3>1, <3>2 DEF AtLeast
    <3>4. EtaMarks(m.n, WithChars(m.rows[i], chars)) = EtaMarks(m.n, m.rows[i])
      BY <2>1, WithCharsIs
    <3>5. \A x \in s.rows[i].marks : \E c \in 0..s.rows[i].widest :
              x \in EtaMarks(m.n, WithChars(m.rows[i], c))
      BY <2>2, <3>1, <3>3, <3>4
    <3>6. ASSUME chars <= 2 * EtaChars, ~(s.rows[i].widest > chars)
          PROVE  s.rows[i].marks = EtaMarks(m.n, m.rows[i])
      <4>1. before <= chars
        BY <3>1, <3>2, <3>6 DEF AtLeast
      <4>2. ASSUME NEW x \in screen.rows[i].marks
            PROVE  x \in Swept(i)
        <5>1. PICK c \in 0..before : x \in EtaMarks(m.n, WithChars(m.rows[i], c))
          BY <2>2
        <5>2. c \in Nat /\ c <= chars
          BY <3>2, <4>1, <5>1
        <5>3. /\ IsRow(WithChars(m.rows[i], c))
              /\ Layout(WithChars(m.rows[i], c)) = Layout(m.rows[i])
              /\ WithChars(m.rows[i], c).eta.chars = c
          BY <2>1, <5>2, CharsAre DEF IsRow, WithChars
        <5> QED
          BY <1>2, <2>1, <3>6, <5>1, <5>2, <5>3, Covers
      <4> QED
        BY <3>1, <4>2
    <3> QED
      BY <3>5, <3>6
  <2> QED
    BY <2>3, <2>4
<1> QED
  BY <1>6, <1>7, <1>8, <1>9 DEF Drawing, s

\* A step of scrolling redraws the labels of the moving rows, nothing else.
LEMMA ScrollFrame ==
  ASSUME NEW m, ModelOK(m), InView(m), NEW r, RenderOK(r), r.mode = "scroll",
         ScreenOK(screen), NEW rows, ScrollsOK(m.rows, rows), Drawing(m, r, rows, screen)
  PROVE  ScreenOK(DrawnScroll(m, rows)) /\ Drawing(m, Drawn, rows, DrawnScroll(m, rows))
<1> DEFINE s == DrawnScroll(m, rows)
<1>1. /\ DOMAIN s = {"kind", "n", "text", "rows"}
      /\ s.kind = screen.kind
      /\ s.n = screen.n
  BY DEF DrawnScroll, ScreenOK
<1>2. m.n \in RowIds /\ \A i \in 1..m.n : i \in RowIds /\ IsRow(m.rows[i])
  BY DEF ModelOK, InView, RowIds
<1>3. ASSUME NEW i \in RowIds, ~(i <= m.n /\ rows[i].active)
      PROVE  s.rows[i] = screen.rows[i]
  BY <1>3 DEF DrawnScroll, ScreenOK
<1>4. ASSUME NEW i \in RowIds, i <= m.n, rows[i].active
      PROVE  /\ DOMAIN s.rows[i] = DOMAIN screen.rows[i]
             /\ s.rows[i].layout = screen.rows[i].layout
             /\ s.rows[i].offset = rows[i].offset
             /\ s.rows[i].part = screen.rows[i].part
             /\ s.rows[i].white = screen.rows[i].white
             /\ s.rows[i].marks = screen.rows[i].marks
             /\ s.rows[i].widest = screen.rows[i].widest
  <2>1. s.rows[i] = [screen.rows[i] EXCEPT !.layout.label = m.rows[i].label, !.offset = rows[i].offset]
    BY <1>4 DEF DrawnScroll, ScreenOK
  <2>2. screen.rows[i].layout = Layout(m.rows[i])
    BY <1>2, <1>4 DEF Drawing, PanelShows, RowIds
  <2>3. [screen.rows[i].layout EXCEPT !.label = m.rows[i].label] = screen.rows[i].layout
    BY <2>2 DEF Layout
  <2> QED
    BY <2>1, <2>3 DEF ScreenOK
<1> HIDE DEF s
<1>5. ASSUME NEW i \in RowIds
      PROVE  /\ DOMAIN s.rows[i] = DOMAIN screen.rows[i]
             /\ s.rows[i].layout = screen.rows[i].layout
             /\ s.rows[i].part = screen.rows[i].part
             /\ s.rows[i].white = screen.rows[i].white
             /\ s.rows[i].marks = screen.rows[i].marks
             /\ s.rows[i].widest = screen.rows[i].widest
  BY <1>3, <1>4, <1>5
<1>6. ScreenOK(s)
  BY <1>1, <1>5 DEF ScreenOK
<1>7. PanelShows(m, Drawn, s)
  BY <1>1, <1>2, <1>5 DEF Drawing, PanelShows, Drawn, RenderOK
<1>8. OffsetsLive(m, Drawn, rows, s)
  <2> SUFFICES ASSUME NEW i \in RowIds, s.rows[i].offset # 0
               PROVE  m.ui = "transit" /\ i <= m.n /\ m.rows[i].scroll /\ rows[i].active
    BY DEF OffsetsLive
  <2>1. CASE i <= m.n /\ rows[i].active
    <3>1. m.ui = "transit"
      BY DEF Drawing, PanelShows
    <3>2. Named(m.rows[i])
      BY <2>1 DEF ModelOK, InView
    <3> QED
      BY <2>1, <3>1, <3>2 DEF ScrollsOK
  <2>2. CASE ~(i <= m.n /\ rows[i].active)
    BY <1>3, <2>2 DEF Drawing, OffsetsLive
  <2> QED
    BY <2>1, <2>2
<1>9. MarksKnown(m, Drawn, s)
  BY <1>2, <1>5 DEF Drawing, MarksKnown, Drawn, RenderOK
<1> QED
  BY <1>6, <1>7, <1>8, <1>9 DEF Drawing, s

\* render_frame() leaves the panel right, whichever render was pending.
LEMMA FrameKeeps ==
  ASSUME NEW m, ModelOK(m), NEW r, RenderOK(r), r.dirty,
         ScreenOK(screen), NEW rows, ScrollsOK(m.rows, rows), Drawing(m, r, rows, screen),
         DrawsFrame(m, r, rows)
  PROVE  RenderOK(render') /\ ScreenOK(screen') /\ Drawing(m, render', rows, screen')
<1>1. RenderOK(Drawn)
  BY FullFrame
<1>2. CASE r.mode \in {"full", "none"}
  BY <1>1, <1>2, FullFrame DEF DrawsFrame
<1>3. CASE r.mode = "eta"
  <2>1. InView(m)
    BY <1>3 DEF Drawing, PanelShows
  <2> QED
    BY <1>1, <1>3, <2>1, EtaFrame DEF DrawsFrame
<1>4. CASE r.mode = "scroll"
  <2>1. InView(m)
    BY <1>4 DEF Drawing, PanelShows
  <2> QED
    BY <1>1, <1>4, <2>1, ScrollFrame DEF DrawsFrame
<1> QED
  BY <1>2, <1>3, <1>4 DEF RenderOK

(***************************************************************************)
(* Scrolling.                                                              *)
(***************************************************************************)
\* Fonts and widths of the layout are numbers.
LEMMA GeometryIsTyped ==
  ASSUME NEW n \in RowIds, NEW row, IsRow(row)
  PROVE  /\ Geometry(n, row).font \in 1..2
         /\ ScrollRoom(Geometry(n, row)) \in Nat
         /\ LabelWidth(row.label, Geometry(n, row).font) \in Int
<1> DEFINE g == Geometry(n, row)
<1>1. g.font \in 1..2 /\ g.room \in Nat
  <2>1. CASE IsCentred(n, row)
    <3>1. /\ g.font = CentredFont(n, row)
          /\ g.room = LabelWidth(row.label, CentredFont(n, row))
      BY <2>1 DEF Geometry, Centred
    <3>2. CentredFont(n, row) \in {1, 2}
      BY FontsAre, CentreIs
    <3> QED
      BY <3>1, <3>2, LabelsAre
  <2>2. CASE ~IsCentred(n, row)
    <3>1. g.font = PlainFont(n) /\ g.room = RoomForLabel(n, row) + EtaNudge
      BY <2>2 DEF Geometry, InColumns
    <3>2. EtaWidth(n, row) \in Int /\ BadgeWidth(n, row) \in Int
      BY FontsAre, EtasAre, BadgesAre DEF AtMost
    <3>3. RoomForLabel(n, row) \in Nat
      BY <3>2, PanelAssumption
      DEF RoomForLabel, EtaColumn, LabelColumn, OuterMargin, InnerGap, AtLeast
    <3> QED
      BY <3>1, <3>3, FontsAre DEF EtaNudge
  <2> QED
    BY <2>1, <2>2
<1> HIDE DEF g
<1>2. ScrollRoom(g) \in Nat
  BY <1>1 DEF ScrollRoom, ScrollGap
<1>3. LabelWidth(row.label, g.font) \in Int
  BY <1>1, LabelsAre
<1> QED
  BY <1>1, <1>2, <1>3 DEF g

\* tick_scroll() measures the rows not measured yet; a row that moves was.
LEMMA MeasuringKeeps ==
  ASSUME ModelOK(model), ScrollsOK(model.rows, scroll)
  PROVE  /\ ScrollsOK(model.rows, Measured)
         /\ \A i \in RowIds :
             /\ ~IsMeasuredNow(i) => Measured[i] = scroll[i]
             /\ IsMeasuredNow(i) => Measured[i].offset = 0 /\ ~Measured[i].returning
             /\ scroll[i].active => Measured[i] = scroll[i]
<1> DEFINE m == Measured
           g(i) == Geometry(model.n, model.rows[i])
           width(i) == LabelWidth(model.rows[i].label, g(i).font)
           room(i) == ScrollRoom(g(i))
<1>1. m = [i \in RowIds |-> IF ~IsMeasuredNow(i) THEN scroll[i]
                            ELSE [scroll[i] EXCEPT !.width = width(i), !.room = room(i),
                                                   !.active = width(i) > room(i)]]
  BY DEF Measured
<1>2. ASSUME NEW i \in RowIds, IsMeasuredNow(i)
      PROVE  /\ width(i) \in Int /\ room(i) \in Nat
             /\ width(i) \in {LabelWidth(model.rows[i].label, font) : font \in 1..2}
             /\ model.rows[i].scroll
             /\ scroll[i].width = 0
  <2>1. model.n \in RowIds /\ IsRow(model.rows[i]) /\ model.rows[i].scroll /\ scroll[i].width = 0
    BY <1>2 DEF IsMeasuredNow, Scrolls, ModelOK, RowIds
  <2> QED
    BY <2>1, GeometryIsTyped
<1> HIDE DEF m, g, width, room
<1>3. ASSUME NEW i \in RowIds, ~IsMeasuredNow(i)
      PROVE  m[i] = scroll[i]
  BY <1>1, <1>3
<1>4. ASSUME NEW i \in RowIds, IsMeasuredNow(i)
      PROVE  /\ m[i] \in ScrollState
             /\ m[i].offset = 0 /\ ~m[i].returning
             /\ m[i].width = width(i) /\ m[i].room = room(i)
             /\ m[i].active = (width(i) > room(i))
  <2>1. m[i] = [scroll[i] EXCEPT !.width = width(i), !.room = room(i),
                                 !.active = width(i) > room(i)]
    BY <1>1, <1>4
  <2>2. scroll[i] \in ScrollState /\ scroll[i].offset = 0 /\ ~scroll[i].returning
    BY <1>2, <1>4 DEF ScrollsOK
  <2> DEFINE over == width(i) > room(i)
  <2>3. over \in BOOLEAN
    OBVIOUS
  <2>4. m[i] = [scroll[i] EXCEPT !.width = width(i), !.room = room(i), !.active = over]
    BY <2>1
  <2>5. width(i) \in Int /\ room(i) \in Int
    BY <1>2, <1>4
  <2> HIDE DEF over
  <2>6. /\ m[i] \in ScrollState
        /\ m[i].offset = scroll[i].offset /\ m[i].returning = scroll[i].returning
        /\ m[i].width = width(i) /\ m[i].room = room(i) /\ m[i].active = over
    BY <2>2, <2>3, <2>4, <2>5 DEF ScrollState
  <2> QED
    BY <2>2, <2>6 DEF over
<1>5. ASSUME NEW i \in RowIds, scroll[i].active
      PROVE  m[i] = scroll[i]
  BY <1>3, <1>5 DEF ScrollsOK, IsMeasuredNow
<1>6. m \in [RowIds -> ScrollState]
  BY <1>1, <1>3, <1>4 DEF ScrollsOK
<1>7. ASSUME NEW i \in RowIds
      PROVE  /\ m[i].width = 0 => ~m[i].active /\ m[i].offset = 0 /\ ~m[i].returning
             /\ m[i].active => m[i].room < m[i].width
             /\ m[i].width # 0 /\ Named(model.rows[i]) =>
                    /\ model.rows[i].scroll
                    /\ m[i].width \in {LabelWidth(model.rows[i].label, font) : font \in 1..2}
  <2>1. CASE IsMeasuredNow(i)
    <3>1. width(i) = 0 => ~(width(i) > room(i))
      BY <1>2, <2>1
    <3>2. width(i) > room(i) => room(i) < width(i)
      BY <1>2, <2>1
    <3> QED
      BY <1>2, <1>4, <2>1, <3>1, <3>2
  <2>2. CASE ~IsMeasuredNow(i)
    BY <1>3, <2>2 DEF ScrollsOK
  <2> QED
    BY <2>1, <2>2
<1>8. ScrollsOK(model.rows, m)
  BY <1>6, <1>7 DEF ScrollsOK
<1> QED
  BY <1>3, <1>4, <1>5, <1>8 DEF m

\* While rows are live, those that tick_scroll() moves are those that are active.
LEMMA MovingRows ==
  ASSUME ModelOK(model), NEW m, ScrollsOK(model.rows, m), model.ui = "transit"
  PROVE  Moving(m) = ActiveRows(model.rows, m)
<1>1. ASSUME NEW i \in RowIds, m[i].active
      PROVE  Scrolls(i) <=> Named(model.rows[i])
  BY <1>1 DEF Scrolls, ModelOK, ScrollsOK
<1> QED
  BY <1>1 DEF Moving, ActiveRows

\* The master is a moving row with most to show.
LEMMA MasterLeads ==
  ASSUME NEW m \in [RowIds -> ScrollState], Moving(m) # {}
  PROVE  /\ Master(m) \in Moving(m)
         /\ \A i \in Moving(m) : Overflow(m[i]) <= Overflow(m[Master(m)])
<1> DEFINE Leads(i) == \A j \in Moving(m) \ {i} :
               Overflow(m[i]) > Overflow(m[j]) \/ (Overflow(m[i]) = Overflow(m[j]) /\ i < j)
<1>1. Moving(m) \subseteq {1, 2}
  BY DEF Moving, RowIds
<1>2. \A i \in Moving(m) : Overflow(m[i]) \in Int
  BY DEF Moving, Overflow, ScrollState
<1>3. \E i \in Moving(m) : Leads(i)
  <2>1. CASE Moving(m) = {1, 2}
    <3>1. Overflow(m[1]) >= Overflow(m[2]) => Leads(1)
      BY <1>2, <2>1
    <3>2. ~(Overflow(m[1]) >= Overflow(m[2])) => Leads(2)
      BY <1>2, <2>1
    <3> QED
      BY <2>1, <3>1, <3>2
  <2>2. CASE Moving(m) # {1, 2}
    <3>1. PICK i \in Moving(m) : Moving(m) = {i}
      BY <1>1, <2>2
    <3> QED
      BY <3>1
  <2> QED
    BY <2>1, <2>2
<1>4. Master(m) \in Moving(m) /\ Leads(Master(m))
  <2>1. Master(m) = CHOOSE i \in Moving(m) : Leads(i)
    BY DEF Master
  <2> HIDE DEF Leads
  <2> QED
    BY <1>3, <2>1
<1> QED
  BY <1>2, <1>4

\* A row put back to its start.
LEMMA Rewinds ==
  ASSUME NEW s \in ScrollState, NEW put, put = [s EXCEPT !.offset = 0, !.returning = FALSE]
  PROVE  /\ put \in ScrollState
         /\ put.offset = 0
         /\ put.returning = FALSE
         /\ put.width = s.width
         /\ put.room = s.room
         /\ put.active = s.active
<1> DEFINE t == [s EXCEPT !.offset = 0]
<1>1. t \in ScrollState
  BY DEF ScrollState
<1>2. put = [t EXCEPT !.returning = FALSE]
  BY DEF ScrollState
<1> HIDE DEF t
<1>3. put \in ScrollState
  BY <1>1, <1>2 DEF ScrollState
<1>4. put.offset = 0
  BY DEF ScrollState
<1>5. put.returning = FALSE
  BY DEF ScrollState
<1>6. put.width = s.width /\ put.room = s.room /\ put.active = s.active
  BY DEF ScrollState
<1> QED
  BY <1>3, <1>4, <1>5, <1>6

\* A row that follows the lead, up to its own end.
LEMMA FollowsLead ==
  ASSUME NEW s \in ScrollState, NEW lead \in ScrollState, s.room < s.width
  PROVE  /\ Follows(s, lead) \in ScrollState
         /\ Follows(s, lead).offset = AtMost(0, AtLeast(lead.offset, s.room - s.width))
         /\ Follows(s, lead).returning = lead.returning
         /\ Follows(s, lead).width = s.width
         /\ Follows(s, lead).room = s.room
         /\ Follows(s, lead).active = s.active
<1>1. AtMost(0, AtLeast(lead.offset, s.room - s.width)) \in Int
  BY DEF ScrollState, AtMost, AtLeast
<1> QED
  BY <1>1 DEF Follows, ScrollState

\* A step of the lead keeps it a lead: it turns only when it has come to the end
\* of the longest row, and so of every row.
LEMMA LeadMoves ==
  ASSUME NEW m, ScrollsOK(model.rows, m), ModelOK(model), model.ui = "transit", Moving(m) # {},
         NEW lead, lead \in {m[Master(m)], Advanced(m[Master(m)])},
         m[Master(m)].returning => m[Master(m)].offset = m[Master(m)].room - m[Master(m)].width
  PROVE  /\ lead \in ScrollState
         /\ \A i \in Moving(m) : lead.returning => lead.offset <= m[i].room - m[i].width
<1> DEFINE top == m[Master(m)]
<1>1. m \in [RowIds -> ScrollState]
  BY DEF ScrollsOK
<1>2. top \in ScrollState /\ \A i \in Moving(m) : m[i] \in ScrollState /\ top.room - top.width <= m[i].room - m[i].width
  BY <1>1, MasterLeads DEF Moving, Overflow, ScrollState
<1> HIDE DEF top
<1>3. CASE lead = top
  BY <1>2, <1>3 DEF ScrollState, top
<1>4. CASE lead = Advanced(top)
  <2>1. CASE top.returning
    <3>1. lead = [top EXCEPT !.offset = 0, !.returning = FALSE]
      BY <1>4, <2>1 DEF Advanced
    <3>2. lead \in ScrollState /\ lead.returning = FALSE
      BY <1>2, <3>1, Rewinds
    <3> QED
      BY <3>2
  <2>2. CASE ~top.returning /\ -(top.offset - 1) >= top.width - top.room
    <3>1. lead = [top EXCEPT !.offset = top.room - top.width, !.returning = TRUE]
      BY <1>4, <2>2 DEF Advanced
    <3>2. top.room - top.width \in Int
      BY <1>2 DEF ScrollState
    <3>3. lead \in ScrollState /\ lead.offset = top.room - top.width
      BY <1>2, <3>1, <3>2 DEF ScrollState
    <3> QED
      BY <1>2, <3>3
  <2>3. CASE ~top.returning /\ ~(-(top.offset - 1) >= top.width - top.room)
    <3>1. lead = [top EXCEPT !.offset = top.offset - 1]
      BY <1>4, <2>3 DEF Advanced
    <3>2. top.offset - 1 \in Int
      BY <1>2 DEF ScrollState
    <3>3. lead \in ScrollState /\ ~lead.returning
      BY <1>2, <2>3, <3>1, <3>2 DEF ScrollState
    <3> QED
      BY <3>3
  <2> QED
    BY <2>1, <2>2, <2>3
<1> QED
  BY <1>3, <1>4 DEF top

\* tick_scroll() keeps the scroll states right, and stops no row that moves.
LEMMA ScrollingKeeps ==
  ASSUME ModelOK(model), Scrolling(model.rows, scroll), NEW over \in BOOLEAN,
         scroll' = Scrolled(Measured, over)
  PROVE  /\ Scrolling(model.rows, scroll')
         /\ \A i \in RowIds : scroll[i].active => scroll'[i].active
         /\ Moving(scroll') # {} => model.ui = "transit"
<1> DEFINE m == Measured
           rows == model.rows
<1>1. /\ ScrollsOK(rows, m)
      /\ \A i \in RowIds :
          /\ ~IsMeasuredNow(i) => m[i] = scroll[i]
          /\ IsMeasuredNow(i) => m[i].offset = 0 /\ ~m[i].returning
          /\ scroll[i].active => m[i] = scroll[i]
  BY MeasuringKeeps DEF Scrolling
<1>2. Moving(scroll') # {} => model.ui = "transit"
  BY DEF Moving, Scrolls
<1> HIDE DEF m
<1>3. CASE Moving(m) = {}
  <2>1. scroll' = m
    BY <1>3 DEF Scrolled, m
  <2>2. Together(rows, m)
    <3>1. CASE model.ui = "transit"
      <4>1. ActiveRows(rows, m) = {}
        BY <1>1, <1>3, <3>1, MovingRows
      <4>2. 0 \in Int /\ FALSE \in BOOLEAN
        OBVIOUS
      <4> QED
        BY <4>1, <4>2 DEF Together
    <3>2. CASE model.ui # "transit"
      <4>1. \A i \in RowIds : m[i] = scroll[i]
        BY <1>1, <3>2 DEF IsMeasuredNow, Scrolls
      <4>2. ActiveRows(rows, m) = ActiveRows(rows, scroll)
        BY <4>1 DEF ActiveRows
      <4>3. Together(rows, scroll)
        BY DEF Scrolling
      <4> QED
        BY <4>1, <4>2, <4>3 DEF Together, ActiveRows
    <3> QED
      BY <3>1, <3>2
  <2> QED
    BY <1>1, <1>2, <2>1, <2>2 DEF Scrolling
<1>4. CASE Moving(m) # {}
  <2> DEFINE lead == IF over /\ Starting(m) = {} THEN Advanced(m[Master(m)]) ELSE m[Master(m)]
             restart == Moving(m) # {Master(m)} /\ Starting(m) # {}
             back == IF restart THEN FALSE ELSE lead.returning
             at == IF restart THEN 0 ELSE lead.offset
  <2>1. model.ui = "transit" /\ Moving(m) = ActiveRows(rows, m)
    BY <1>1, <1>4, MovingRows DEF Moving, Scrolls
  <2>2. /\ Master(m) \in Moving(m) /\ Moving(m) \subseteq RowIds
        /\ m \in [RowIds -> ScrollState]
        /\ \A i \in Moving(m) : m[i].room < m[i].width
    <3>1. m \in [RowIds -> ScrollState]
      BY <1>1 DEF ScrollsOK
    <3> QED
      BY <1>1, <1>4, <3>1, MasterLeads DEF ScrollsOK, Moving
  <2>3. m[Master(m)].returning => m[Master(m)].offset = m[Master(m)].room - m[Master(m)].width
    <3>1. CASE IsMeasuredNow(Master(m))
      BY <1>1, <2>2, <3>1
    <3>2. CASE ~IsMeasuredNow(Master(m))
      <4>1. m[Master(m)] = scroll[Master(m)]
        BY <1>1, <2>2, <3>2
      <4>2. Master(m) \in ActiveRows(rows, scroll)
        BY <2>1, <2>2, <4>1 DEF ActiveRows
      <4>3. PICK old \in Int, was \in BOOLEAN :
                \A i \in ActiveRows(rows, scroll) :
                    /\ scroll[i].offset = AtMost(0, AtLeast(old, scroll[i].room - scroll[i].width))
                    /\ scroll[i].returning = was
                    /\ was => old <= scroll[i].room - scroll[i].width
        BY DEF Scrolling, Together
      <4>4. m[Master(m)] \in ScrollState
        BY <2>2
      <4> QED
        BY <2>2, <4>1, <4>2, <4>3, <4>4 DEF AtMost, AtLeast, ScrollState
    <3> QED
      BY <3>1, <3>2
  <2>4. /\ lead \in ScrollState
        /\ \A i \in Moving(m) : lead.returning => lead.offset <= m[i].room - m[i].width
    BY <1>1, <1>4, <2>1, <2>3, LeadMoves
  <2>5. scroll' = InStep(m, lead)
    BY <1>4 DEF Scrolled, m
  <2> HIDE DEF lead, restart
  <2>6. ASSUME NEW i \in RowIds, i \notin Moving(m)
        PROVE  scroll'[i] = m[i]
    BY <2>5, <2>6 DEF InStep
  <2>7. ASSUME NEW i \in Moving(m)
        PROVE  /\ scroll'[i] \in ScrollState
               /\ scroll'[i].offset = AtMost(0, AtLeast(at, m[i].room - m[i].width))
               /\ scroll'[i].returning = back
               /\ scroll'[i].width = m[i].width
               /\ scroll'[i].room = m[i].room
               /\ scroll'[i].active = m[i].active
    <3>1. i \in RowIds /\ m[i] \in ScrollState /\ m[i].room < m[i].width
      BY <2>2, <2>7
    <3>2. (Moving(m) # {i}) <=> (Moving(m) # {Master(m)})
      BY <2>2, <2>7
    <3>3. CASE restart
      <4>1. scroll'[i] = [m[i] EXCEPT !.offset = 0, !.returning = FALSE]
        BY <2>5, <2>7, <3>1, <3>2, <3>3 DEF InStep, restart
      <4>2. AtMost(0, AtLeast(0, m[i].room - m[i].width)) = 0
        BY <3>1 DEF AtMost, AtLeast, ScrollState
      <4>3. /\ scroll'[i] \in ScrollState
            /\ scroll'[i].offset = 0
            /\ scroll'[i].returning = FALSE
            /\ scroll'[i].width = m[i].width
            /\ scroll'[i].room = m[i].room
            /\ scroll'[i].active = m[i].active
        BY <3>1, <4>1, Rewinds
      <4> QED
        BY <3>3, <4>2, <4>3
    <3>4. CASE ~restart
      <4>1. scroll'[i] = Follows(m[i], lead)
        BY <2>5, <2>7, <3>1, <3>2, <3>4 DEF InStep, restart
      <4>2. at = lead.offset /\ back = lead.returning
        BY <3>4
      <4> HIDE DEF at, back
      <4> QED
        BY <2>4, <3>1, <4>1, <4>2, FollowsLead
    <3> QED
      BY <3>3, <3>4
  <2>8. /\ at \in Int /\ back \in BOOLEAN
        /\ \A i \in Moving(m) : back => at <= m[i].room - m[i].width
    <3>1. CASE restart
      BY <3>1
    <3>2. CASE ~restart
      <4>1. at = lead.offset /\ back = lead.returning
        BY <3>2
      <4> HIDE DEF at, back
      <4> QED
        BY <2>4, <4>1 DEF ScrollState
    <3> QED
      BY <3>1, <3>2
  <2> HIDE DEF at, back
  <2>9. \A i \in RowIds : /\ scroll'[i] \in ScrollState
                          /\ scroll'[i].width = m[i].width
                          /\ scroll'[i].room = m[i].room
                          /\ scroll'[i].active = m[i].active
    BY <2>2, <2>6, <2>7
  <2>10. scroll' \in [RowIds -> ScrollState]
    BY <2>5, <2>9 DEF InStep
  <2>11. \A i \in RowIds : scroll'[i].width = 0 => scroll'[i].offset = 0 /\ ~scroll'[i].returning
    BY <1>1, <2>6, <2>9 DEF ScrollsOK, Moving
  <2>12. ScrollsOK(rows, scroll')
    BY <1>1, <2>9, <2>10, <2>11 DEF ScrollsOK
  <2>13. ActiveRows(rows, scroll') = Moving(m)
    BY <2>1, <2>9 DEF ActiveRows
  <2>14. Together(rows, scroll')
    BY <2>7, <2>8, <2>13 DEF Together
  <2> QED
    BY <1>1, <1>2, <2>9, <2>12, <2>14 DEF Scrolling
<1> QED
  BY <1>3, <1>4

(***************************************************************************)
(* The actions.                                                            *)
(***************************************************************************)
\* schedule_eta_render(): rows whose arrival times changed are owed, unless a full
\* render is owed already.
LEMMA EtaRequest ==
  ASSUME NEW m, InView(m), NEW other,
         ModelOK(m), ModelOK(other),
         other.ui = m.ui, other.n = m.n,
         \A i \in RowIds : /\ Layout(other.rows[i]) = Layout(m.rows[i])
                           /\ other.rows[i].scroll = m.rows[i].scroll,
         NEW mask \in SUBSET RowIds,
         \A i \in (1..m.n) \ mask : EtaPart(other.rows[i]) = EtaPart(m.rows[i]),
         NEW r, RenderOK(r), NEW rows, NEW s, Drawing(m, r, rows, s)
  PROVE  /\ RenderOK(EtaRender(r, mask))
         /\ Drawing(other, EtaRender(r, mask), rows, s)
<1> DEFINE asked == EtaRender(r, mask)
<1>1. InView(other) /\ \A i \in 1..m.n : i \in RowIds /\ IsRow(m.rows[i]) /\ IsRow(other.rows[i])
  BY DEF ModelOK, InView, RowIds
<1>2. CASE r.mode = "full"
  BY <1>2 DEF EtaRender, RenderOK, Drawing, PanelShows, OffsetsLive, MarksKnown
<1>3. CASE r.mode # "full"
  <2>1. /\ RenderOK(asked)
        /\ asked.mode # "full"
        /\ asked.mode = "scroll" => r.mode = "scroll"
        /\ asked.mode = "none" => r.mode = "none"
        /\ asked.mask = r.mask \cup mask
    <3>1. CASE mask = {}
      BY <1>3, <3>1 DEF EtaRender
    <3>2. CASE mask # {}
      BY <1>3, <3>2 DEF EtaRender, RenderOK
    <3> QED
      BY <3>1, <3>2
  <2> HIDE DEF asked
  <2>2. PanelShows(other, asked, s)
    <3>1. s.kind = "rows" /\ s.n = other.n
      BY <1>3 DEF Drawing, PanelShows
    <3>2. asked.mode = "scroll" => other.ui = "transit"
      BY <2>1 DEF Drawing, PanelShows
    <3>3. ASSUME NEW i \in 1..m.n
          PROVE  /\ s.rows[i].layout = Layout(other.rows[i])
                 /\ s.rows[i].white = (other.ui = "stale")
                 /\ i \notin asked.mask => s.rows[i].part = EtaPart(other.rows[i])
      BY <1>1, <1>3, <2>1 DEF Drawing, PanelShows
    <3> QED
      BY <1>1, <3>1, <3>2, <3>3 DEF PanelShows
  <2>3. OffsetsLive(other, asked, rows, s)
    BY <1>3 DEF Drawing, OffsetsLive
  <2>4. MarksKnown(other, asked, s)
    <3> SUFFICES ASSUME NEW i \in 1..m.n
                 PROVE  /\ \A x \in s.rows[i].marks : \E c \in 0..s.rows[i].widest :
                               x \in EtaMarks(other.n, WithChars(other.rows[i], c))
                        /\ i \notin asked.mask /\ other.rows[i].eta.chars <= 2 * EtaChars =>
                               \/ s.rows[i].marks = EtaMarks(other.n, other.rows[i])
                               \/ s.rows[i].widest > other.rows[i].eta.chars
      BY DEF MarksKnown
    <3>1. /\ IsRow(m.rows[i]) /\ IsRow(other.rows[i])
          /\ Layout(other.rows[i]) = Layout(m.rows[i])
      BY <1>1
    <3>2. /\ \A x \in s.rows[i].marks : \E c \in 0..s.rows[i].widest :
                 x \in EtaMarks(m.n, WithChars(m.rows[i], c))
          /\ i \notin r.mask /\ m.rows[i].eta.chars <= 2 * EtaChars =>
                 \/ s.rows[i].marks = EtaMarks(m.n, m.rows[i])
                 \/ s.rows[i].widest > m.rows[i].eta.chars
      BY <1>3 DEF Drawing, MarksKnown
    <3>3. \A c : EtaMarks(other.n, WithChars(other.rows[i], c)) = EtaMarks(m.n, WithChars(m.rows[i], c))
      BY <3>1, SameMarks
    <3>4. ASSUME i \notin mask
          PROVE  /\ other.rows[i].eta.chars = m.rows[i].eta.chars
                 /\ EtaMarks(other.n, other.rows[i]) = EtaMarks(m.n, m.rows[i])
      <4>1. other.rows[i].eta.chars = m.rows[i].eta.chars
        BY <3>4 DEF EtaPart
      <4> QED
        BY <3>1, <4>1, SameGeometry
    <3>5. i \notin asked.mask => i \notin mask /\ i \notin r.mask
      BY <2>1
    <3> QED
      BY <3>2, <3>3, <3>4, <3>5
  <2> QED
    BY <2>1, <2>2, <2>3, <2>4 DEF Drawing, asked
<1> QED
  BY <1>2, <1>3

\* schedule_scroll_render(): a step of scrolling is owed, unless more is.
LEMMA ScrollRequest ==
  ASSUME NEW m, InView(m), m.ui = "transit", NEW r, RenderOK(r),
         NEW rows, NEW s, Drawing(m, r, rows, s)
  PROVE  RenderOK(ScrollRender(r)) /\ Drawing(m, ScrollRender(r), rows, s)
<1>1. CASE r.mode \in {"full", "eta"}
  BY <1>1 DEF ScrollRender
<1>2. CASE r.mode \notin {"full", "eta"}
  <2>1. ScrollRender(r) = [r EXCEPT !.dirty = TRUE, !.mode = "scroll"]
    BY <1>2 DEF ScrollRender
  <2>2. ScrollRender(r) = [dirty |-> TRUE, mode |-> "scroll", mask |-> r.mask]
    BY <2>1 DEF RenderOK
  <2>3. r.mode # "full" /\ r.mask = {}
    BY <1>2 DEF RenderOK
  <2>4. RenderOK(ScrollRender(r))
    BY <2>2, <2>3 DEF RenderOK
  <2> QED
    BY <2>2, <2>3, <2>4 DEF Drawing, PanelShows, OffsetsLive, MarksKnown
<1> QED
  BY <1>1, <1>2

\* A command that changes nothing leaves the pending render as it is.
LEMMA NoRequest ==
  ASSUME NEW r, RenderOK(r)
  PROVE  NoRender(r) = r
<1>1. CASE r.dirty
  BY <1>1 DEF NoRender
<1>2. CASE ~r.dirty
  <2>1. r.mode = "none" /\ r.mask = {}
    BY <1>2 DEF RenderOK
  <2> QED
    BY <1>2, <2>1 DEF NoRender, RenderOK
<1> QED
  BY <1>1, <1>2

\* Rows that keep their label and scrolling may keep their scroll state; the
\* others start without.
LEMMA KeptRows ==
  ASSUME NEW rows, NEW s, Scrolling(rows, s), NEW other, NEW t,
         t \in [RowIds -> ScrollState],
         \A i \in RowIds :
             \/ t[i] = NoScroll
             \/ t[i] = s[i] /\ other[i].label = rows[i].label /\ other[i].scroll = rows[i].scroll
  PROVE  Scrolling(other, t)
<1>1. NoScroll.width = 0 /\ ~NoScroll.active /\ NoScroll.offset = 0 /\ ~NoScroll.returning
  BY DEF NoScroll
<1>2. ASSUME NEW i \in RowIds
      PROVE  /\ t[i].width = 0 => ~t[i].active /\ t[i].offset = 0 /\ ~t[i].returning
             /\ t[i].active => t[i].room < t[i].width
             /\ t[i].width # 0 /\ Named(other[i]) =>
                    /\ other[i].scroll
                    /\ t[i].width \in {LabelWidth(other[i].label, font) : font \in 1..2}
             /\ i \in ActiveRows(other, t) => i \in ActiveRows(rows, s) /\ t[i] = s[i]
  <2>1. CASE t[i] = NoScroll
    BY <1>1, <2>1 DEF ActiveRows
  <2>2. CASE t[i] = s[i] /\ other[i].label = rows[i].label /\ other[i].scroll = rows[i].scroll
    <3>1. Named(other[i]) = Named(rows[i])
      BY <2>2 DEF Named
    <3> QED
      BY <2>2, <3>1 DEF Scrolling, ScrollsOK, ActiveRows
  <2> QED
    BY <2>1, <2>2
<1>3. ScrollsOK(other, t)
  BY <1>2 DEF ScrollsOK
<1>4. Together(other, t)
  <2>1. PICK lead \in Int, back \in BOOLEAN :
            \A i \in ActiveRows(rows, s) :
                /\ s[i].offset = AtMost(0, AtLeast(lead, s[i].room - s[i].width))
                /\ s[i].returning = back
                /\ back => lead <= s[i].room - s[i].width
    BY DEF Scrolling, Together
  <2>2. ASSUME NEW i \in ActiveRows(other, t)
        PROVE  /\ t[i].offset = AtMost(0, AtLeast(lead, t[i].room - t[i].width))
               /\ t[i].returning = back
               /\ back => lead <= t[i].room - t[i].width
    BY <1>2, <2>1, <2>2 DEF ActiveRows
  <2> QED
    BY <2>2 DEF Together
<1> QED
  BY <1>3, <1>4 DEF Scrolling

\* After the constructor and the cached rows, a full render is owed.
LEMMA InitHolds ==
  ASSUME Init
  PROVE  DisplayInv
<1>1. IsRow(EmptyRow) /\ IsRow(WaitingRow)
  BY DisplayAssumption
<1>2. ModelOK(model)
  <2>1. CASE model = StartingModel
    <3>1. /\ DOMAIN model = {"ui", "status", "hasData", "n", "rows"}
          /\ model.ui = "booting" /\ ~model.hasData /\ model.n = 1 /\ model.hasData = FALSE
          /\ model.rows = [i \in RowIds |-> IF i = 1 THEN WaitingRow ELSE EmptyRow]
      BY <2>1 DEF StartingModel
    <3>2. \A i \in RowIds : IsRow(model.rows[i]) /\ ~Named(model.rows[i])
      BY <1>1, <3>1 DEF Named
    <3>3. model.hasData \in BOOLEAN
      BY <3>1, Zenon
    <3>4. model.n \in 0..2
      BY <3>1
    <3>5. model.ui \notin {"transit", "stale"}
      BY <3>1
    <3> QED
      BY <3>1, <3>2, <3>3, <3>4, <3>5 DEF ModelOK
  <2>2. ASSUME NEW p \in Payloads, model = Restored(p)
        PROVE  ModelOK(model)
    <3>1. /\ DOMAIN model = {"ui", "status", "hasData", "n", "rows"}
          /\ model.ui = "booting" /\ model.hasData = TRUE /\ model.n = p.n
          /\ model.rows = [i \in RowIds |->
                IF i <= p.n
                THEN [EmptyRow EXCEPT !.label = p.rows[i].label, !.scroll = p.rows[i].scroll,
                                      !.eta = WaitingRow.eta]
                ELSE EmptyRow]
      BY <2>2 DEF Restored, StartingModel
    <3>2. IsPayload(p) /\ p.n \in 1..2
      BY DisplayAssumption DEF IsPayload, RowIds
    <3>3. ASSUME NEW i \in RowIds
          PROVE  IsRow(model.rows[i]) /\ (Named(model.rows[i]) <=> i <= p.n)
      <4>1. CASE i <= p.n
        <5>1. /\ IsRow(p.rows[i])
              /\ p.rows[i].label \notin {EmptyRow.label, WaitingRow.label}
          BY <3>2, <4>1 DEF IsPayload, RowIds
        <5>2. model.rows[i] = [EmptyRow EXCEPT !.label = p.rows[i].label,
                                               !.scroll = p.rows[i].scroll,
                                               !.eta = WaitingRow.eta]
          BY <3>1, <4>1
        <5>3. /\ DOMAIN model.rows[i] = DOMAIN EmptyRow
              /\ model.rows[i].label = p.rows[i].label
              /\ model.rows[i].scroll = p.rows[i].scroll
              /\ model.rows[i].eta = WaitingRow.eta
              /\ model.rows[i].badge = EmptyRow.badge
              /\ model.rows[i].stacked = EmptyRow.stacked
              /\ model.rows[i].extra = EmptyRow.extra
              /\ model.rows[i].late = EmptyRow.late
          BY <1>1, <5>2 DEF IsRow
        <5> QED
          BY <1>1, <4>1, <5>1, <5>3 DEF IsRow, Named
      <4>2. CASE ~(i <= p.n)
        BY <1>1, <3>1, <4>2 DEF Named
      <4> QED
        BY <4>1, <4>2
    <3>4. model.hasData \in BOOLEAN
      BY <3>1, Zenon
    <3>5. model.n \in 0..2 /\ model.n > 0
      <4>1. model.n = p.n
        BY <3>1
      <4> QED
        BY <3>2, <4>1
    <3>6. model.ui \notin {"transit", "stale"}
      BY <3>1
    <3> QED
      BY <3>1, <3>3, <3>4, <3>5, <3>6 DEF ModelOK
  <2> QED
    BY <2>1, <2>2 DEF Init
<1>3. render = FullRender /\ screen = DarkScreen /\ scroll = [i \in RowIds |-> NoScroll]
  BY DEF Init
<1>4. ScreenOK(screen)
  BY <1>3 DEF ScreenOK, DarkScreen, NothingShown
<1>5. Scrolling(model.rows, scroll)
  <2>1. \A i \in RowIds : scroll[i] = NoScroll
    BY <1>3
  <2>2. NoScroll \in ScrollState /\ NoScroll.width = 0 /\ ~NoScroll.active
        /\ NoScroll.offset = 0 /\ ~NoScroll.returning
    BY DEF NoScroll, ScrollState
  <2>3. scroll \in [RowIds -> ScrollState]
    BY <1>3, <2>2
  <2>4. ScrollsOK(model.rows, scroll)
    BY <2>1, <2>2, <2>3 DEF ScrollsOK
  <2>5. ActiveRows(model.rows, scroll) = {}
    BY <2>1, <2>2 DEF ActiveRows
  <2>6. 0 \in Int /\ FALSE \in BOOLEAN
    OBVIOUS
  <2> QED
    BY <2>4, <2>5, <2>6 DEF Scrolling, Together
<1> QED
  BY <1>2, <1>3, <1>4, <1>5, FullOwesAll DEF DisplayInv

\* A data command: what it does not reset it has not changed.
LEMMA RowsKeep ==
  ASSUME DisplayInv, NEW p \in Payloads, ReceivesRows(p)
  PROVE  DisplayInv'
<1>1. IsPayload(p) /\ p.n \in RowIds
  BY DisplayAssumption DEF IsPayload
<1>2. /\ DOMAIN model' = {"ui", "status", "hasData", "n", "rows"}
      /\ model'.ui = "transit" /\ model'.hasData = TRUE /\ model'.n = p.n /\ model'.rows = p.rows
  BY DEF ReceivesRows, DisplayInv, ModelOK
<1>3. \A i \in RowIds : IsRow(p.rows[i]) /\ (Named(p.rows[i]) <=> i <= p.n)
  <2> SUFFICES ASSUME NEW i \in RowIds
               PROVE  IsRow(p.rows[i]) /\ (Named(p.rows[i]) <=> i <= p.n)
    OBVIOUS
  <2>1. CASE i <= p.n
    BY <1>1, <2>1 DEF IsPayload, Named, RowIds
  <2>2. CASE ~(i <= p.n)
    BY <1>1, <2>2, DisplayAssumption DEF IsPayload, Named, RowIds
  <2> QED
    BY <2>1, <2>2
<1>4. ModelOK(model')
  <2>1. model'.hasData \in BOOLEAN
    BY <1>2, Zenon
  <2>2. model'.n \in 0..2 /\ model'.n > 0
    BY <1>1, <1>2 DEF RowIds
  <2> QED
    BY <1>2, <1>3, <2>1, <2>2 DEF ModelOK
<1>5. ASSUME NEW i \in RowIds
      PROVE  \/ scroll'[i] = NoScroll
             \/ /\ scroll'[i] = scroll[i]
                /\ p.rows[i].label = model.rows[i].label
                /\ p.rows[i].scroll = model.rows[i].scroll
  BY DEF ReceivesRows, ResetChanged
<1>6. scroll' \in [RowIds -> ScrollState]
  BY DEF ReceivesRows, ResetChanged, DisplayInv, Scrolling, ScrollsOK, NoScroll, ScrollState
<1>7. Scrolling(model'.rows, scroll')
  BY <1>2, <1>5, <1>6, KeptRows DEF DisplayInv
<1>8. RenderOK(render') /\ Drawing(model', render', scroll', screen')
  <2>1. render' = Requested(p) /\ screen' = screen
    BY DEF ReceivesRows
  <2>2. CASE ~SameLayout(p)
    BY <2>1, <2>2, FullOwesAll DEF Requested, Classify
  <2>3. CASE SameLayout(p)
    <3>1. /\ InView(model)
          /\ model'.ui = model.ui /\ model'.n = model.n
          /\ \A i \in RowIds : /\ Layout(p.rows[i]) = Layout(model.rows[i])
                               /\ p.rows[i].scroll = model.rows[i].scroll
      BY <1>2, <2>3 DEF SameLayout, InView
    <3>2. ~ScrollTurnedOff(p)
      BY <3>1 DEF ScrollTurnedOff
    <3>3. scroll' = scroll
      <4>1. \A i \in RowIds : p.rows[i].label = model.rows[i].label
        BY <3>1 DEF Layout
      <4>2. scroll' = [i \in RowIds |-> scroll[i]]
        BY <3>1, <4>1 DEF ReceivesRows, ResetChanged
      <4> QED
        BY <4>2 DEF DisplayInv, Scrolling, ScrollsOK
    <3>4. render' = EtaRender(render, EtaDirty(p))
      <4>1. CASE EtaDirty(p) = {}
        BY <2>1, <2>3, <3>2, <4>1, NoRequest DEF Requested, Classify, EtaRender, DisplayInv
      <4>2. CASE EtaDirty(p) # {}
        BY <2>1, <2>3, <3>2, <4>2 DEF Requested, Classify
      <4> QED
        BY <4>1, <4>2
    <3>5. /\ EtaDirty(p) \in SUBSET RowIds
          /\ \A i \in (1..model.n) \ EtaDirty(p) : EtaPart(p.rows[i]) = EtaPart(model.rows[i])
      BY <1>1, <1>2, <3>1 DEF EtaDirty, RowIds
    <3>6. /\ \A i \in RowIds : /\ Layout(model'.rows[i]) = Layout(model.rows[i])
                              /\ model'.rows[i].scroll = model.rows[i].scroll
          /\ \A i \in (1..model.n) \ EtaDirty(p) : EtaPart(model'.rows[i]) = EtaPart(model.rows[i])
      BY <1>2, <3>1, <3>5
    <3>7. /\ RenderOK(EtaRender(render, EtaDirty(p)))
          /\ Drawing(model', EtaRender(render, EtaDirty(p)), scroll, screen)
      BY <1>4, <3>1, <3>5, <3>6, EtaRequest DEF DisplayInv
    <3> QED
      BY <2>1, <3>3, <3>4, <3>7
  <2> QED
    BY <2>2, <2>3
<1>9. ScreenOK(screen')
  BY DEF ReceivesRows, DisplayInv
<1> QED
  BY <1>4, <1>7, <1>8, <1>9 DEF DisplayInv

\* Actions that leave the render model, the pending render, the scroll states and
\* the panel alone.
LEMMA SameView ==
  ASSUME DisplayInv, UNCHANGED <<model, render, scroll, screen>>
  PROVE  DisplayInv'
BY DEF DisplayInv

\* Changes of the sessions, as they reach the panel.
LEMMA ReportsKeep ==
  ASSUME DisplayInv,
         \/ \E state \in {"Connected", "Connecting", "Disconnected"} : NetworkReports(state)
         \/ RequestSwitches
         \/ ShowsState
  PROVE  DisplayInv'
<1>1. UNCHANGED <<scroll, screen>>
  BY DEF NetworkReports, RequestSwitches, ShowsState
<1>2. UpdatesUi(render) \/ UNCHANGED <<model, render>>
  BY DEF NetworkReports, RequestSwitches, ShowsState, viewVars
<1> QED
  BY <1>1, <1>2, SameView, UpdateKeepsInv

\* Rows that no data command filled may keep the scroll state of others: none
\* moves.
LEMMA ClearedRows ==
  ASSUME DisplayInv, NEW rows, \A i \in RowIds : ~Named(rows[i])
  PROVE  Scrolling(rows, scroll)
<1>1. ScrollsOK(rows, scroll)
  BY DEF DisplayInv, Scrolling, ScrollsOK
<1>2. ActiveRows(rows, scroll) = {}
  BY DEF ActiveRows
<1>3. 0 \in Int /\ FALSE \in BOOLEAN
  OBVIOUS
<1> QED
  BY <1>1, <1>2, <1>3 DEF Scrolling, Together

\* handle_display_blank_command().
LEMMA BlankKeeps ==
  ASSUME DisplayInv, ReceivesBlank
  PROVE  DisplayInv'
<1>1. /\ DOMAIN model' = {"ui", "status", "hasData", "n", "rows"}
      /\ model'.ui = "blank" /\ model'.hasData = FALSE /\ model'.n = 0
      /\ \A i \in RowIds : model'.rows[i] = EmptyRow
  BY DEF ReceivesBlank
<1>2. IsRow(EmptyRow) /\ ~Named(EmptyRow)
  BY DisplayAssumption DEF Named
<1>3. ModelOK(model')
  <2>1. model'.hasData \in BOOLEAN
    BY <1>1, Zenon
  <2>2. model'.n \in 0..2
    BY <1>1
  <2>3. model'.ui \notin {"transit", "stale"}
    BY <1>1
  <2> QED
    BY <1>1, <1>2, <2>1, <2>2, <2>3 DEF ModelOK
<1>4. scroll' \in [RowIds -> ScrollState] /\ \A i \in RowIds : scroll'[i] = NoScroll
  <2>1. scroll' = [i \in RowIds |-> NoScroll]
    BY DEF ReceivesBlank
  <2>2. NoScroll \in ScrollState
    BY DEF NoScroll, ScrollState
  <2> QED
    BY <2>1, <2>2
<1>5. Scrolling(model'.rows, scroll')
  BY <1>4, KeptRows DEF DisplayInv
<1>6. render' = FullRender /\ ScreenOK(screen')
  BY DEF ReceivesBlank, DisplayInv
<1> QED
  BY <1>3, <1>5, <1>6, FullOwesAll DEF DisplayInv

\* handle_disconnect_wifi_command(): the rows go, their scroll state stays.
LEMMA DisconnectKeeps ==
  ASSUME DisplayInv, ReceivesDisconnect
  PROVE  DisplayInv'
<1> DEFINE base == [model EXCEPT !.hasData = FALSE, !.n = 1, !.rows = StartingModel.rows]
<1>1. /\ DOMAIN base = {"ui", "status", "hasData", "n", "rows"}
      /\ base.hasData = FALSE /\ base.n = 1 /\ base.rows = StartingModel.rows
  BY DEF DisplayInv, ModelOK
<1>2. model' \in Showing(base)
  BY DEF ReceivesDisconnect
<1> HIDE DEF base
<1>3. PICK look \in Looks(base) : model' = [base EXCEPT !.ui = look[1], !.status = look[2]]
  BY <1>2 DEF Showing
<1>4. look[1] \notin {"transit", "stale"}
  BY <1>1 DEF Looks
<1>5. /\ DOMAIN model' = {"ui", "status", "hasData", "n", "rows"}
      /\ model'.ui = look[1] /\ model'.hasData = FALSE /\ model'.n = 1
      /\ model'.rows = StartingModel.rows
  BY <1>1, <1>3
<1>6. \A i \in RowIds : IsRow(model'.rows[i]) /\ ~Named(model'.rows[i])
  BY <1>5, DisplayAssumption DEF StartingModel, Named
<1>7. ModelOK(model')
  <2>1. model'.hasData \in BOOLEAN
    BY <1>5, Zenon
  <2>2. model'.n \in 0..2
    BY <1>5
  <2> QED
    BY <1>4, <1>5, <1>6, <2>1, <2>2 DEF ModelOK
<1>8. scroll' = scroll /\ screen' = screen /\ render' = FullRender
  BY DEF ReceivesDisconnect
<1>9. Scrolling(model'.rows, scroll')
  BY <1>6, <1>8, ClearedRows
<1> QED
  BY <1>7, <1>8, <1>9, FullOwesAll DEF DisplayInv

\* The end of a turn: what is drawn, or still owed, is what animation and
\* scrolling have just changed.
LEMMA DrawsKeeps ==
  ASSUME DisplayInv, Draws
  PROVE  DisplayInv'
<1> DEFINE animated == IF model' # model THEN EtaRender(render, 1..model.n) ELSE render
           asked == IF Moving(scroll') # {} THEN ScrollRender(animated) ELSE animated
<1>1. /\ Scrolling(model.rows, scroll')
      /\ \A i \in RowIds : scroll[i].active => scroll'[i].active
      /\ Moving(scroll') # {} => model.ui = "transit"
  <2>1. PICK over \in BOOLEAN : scroll' = Scrolled(Measured, over)
    BY DEF Draws
  <2> QED
    BY <2>1, ScrollingKeeps DEF DisplayInv
<1>2. Drawing(model, render, scroll', screen)
  BY <1>1 DEF DisplayInv, Drawing, OffsetsLive
<1>3. /\ ModelOK(model')
      /\ Scrolling(model'.rows, scroll')
      /\ RenderOK(animated)
      /\ Drawing(model', animated, scroll', screen)
      /\ model'.ui = model.ui
  <2>1. CASE model' = model
    BY <1>1, <1>2, <2>1 DEF DisplayInv
  <2>2. CASE model' # model
    <3>1. model.ui = "stale" /\ \E frame \in Frames : model' = Dotted(model, frame)
      BY <2>2 DEF Draws, Animated
    <3>2. Restyles(model, model) /\ ModelOK(model) /\ InView(model)
      BY <3>1 DEF DisplayInv, ModelOK, Restyles, InView
    <3>3. Restyles(model, model') /\ model'.ui = model.ui
      <4>1. PICK frame \in Frames : model' = Dotted(model, frame)
        BY <3>1
      <4>2. Dotted(model, frame).ui = model.ui
        BY <3>2 DEF Dotted, ModelOK
      <4> QED
        BY <3>2, <4>1, <4>2, DottedRestyles
    <3>4. ModelOK(model') /\ Scrolling(model'.rows, scroll')
      BY <1>1, <3>2, <3>3, RestyledOK, RestyledScrolling DEF Restyles
    <3>5. 1..model.n \in SUBSET RowIds /\ (1..model.n) \ (1..model.n) = {}
      BY <3>2 DEF ModelOK, RowIds
    <3>6. animated = EtaRender(render, 1..model.n)
      BY <2>2
    <3> HIDE DEF animated
    <3>7. model'.n = model.n /\ \A i \in RowIds : /\ Layout(model'.rows[i]) = Layout(model.rows[i])
                                                  /\ model'.rows[i].scroll = model.rows[i].scroll
      BY <3>3 DEF Restyles
    <3>8. RenderOK(animated) /\ Drawing(model', animated, scroll', screen)
      BY <1>2, <3>2, <3>3, <3>4, <3>5, <3>6, <3>7, EtaRequest DEF DisplayInv
    <3> QED
      BY <3>3, <3>4, <3>8
  <2> QED
    BY <2>1, <2>2
<1>4. RenderOK(asked) /\ Drawing(model', asked, scroll', screen)
  <2> HIDE DEF animated
  <2>1. CASE Moving(scroll') = {}
    BY <1>3, <2>1
  <2>2. CASE Moving(scroll') # {}
    <3>1. InView(model') /\ model'.ui = "transit"
      BY <1>1, <1>3, <2>2 DEF ModelOK, InView
    <3> QED
      BY <1>3, <2>2, <3>1, ScrollRequest
  <2> QED
    BY <2>1, <2>2
<1>5. \/ screen' = screen /\ render' = asked
      \/ asked.dirty /\ DrawsFrame(model', asked, scroll')
  BY DEF Draws
<1> HIDE DEF asked, animated
<1>6. ScreenOK(screen)
  BY DEF DisplayInv
<1>7. CASE screen' = screen /\ render' = asked
  BY <1>3, <1>4, <1>6, <1>7 DEF DisplayInv
<1>8. CASE asked.dirty /\ DrawsFrame(model', asked, scroll')
  <2>1. RenderOK(render') /\ ScreenOK(screen') /\ Drawing(model', render', scroll', screen')
    BY <1>3, <1>4, <1>6, <1>8, FrameKeeps DEF Scrolling
  <2> QED
    BY <1>3, <2>1 DEF DisplayInv
<1> QED
  BY <1>5, <1>7, <1>8

\* begin() ends with a full render of what it shows.
LEMMA BeginKeeps ==
  ASSUME DisplayInv, BeginEnds
  PROVE  DisplayInv'
<1>1. PICK shown \in Showing(model) :
        model' \in IF shown # model /\ shown.ui = "stale"
                   THEN {Dotted(shown, frame) : frame \in Frames} ELSE {shown}
  BY DEF BeginEnds
<1>2. ModelOK(model) /\ ScreenOK(screen) /\ scroll' = scroll
  BY DEF DisplayInv, BeginEnds
<1>3. Restyles(model, shown)
  BY <1>2, ShowingRestyles
<1>4. Restyles(model, model')
  BY <1>1, <1>2, <1>3, DottedRestyles
<1>5. ModelOK(model')
  BY <1>2, <1>4, RestyledOK
<1>6. Scrolling(model'.rows, scroll)
  BY <1>2, <1>4, RestyledOK, RestyledScrolling DEF Restyles, DisplayInv
<1>7. /\ RenderOK(FullRender) /\ FullRender.dirty
      /\ Drawing(model', FullRender, scroll, screen)
  BY FullOwesAll DEF FullRender
<1>8. DrawsFrame(model', FullRender, scroll)
  BY DEF BeginEnds
<1>9. RenderOK(render') /\ ScreenOK(screen') /\ Drawing(model', render', scroll, screen')
  BY <1>2, <1>5, <1>6, <1>7, <1>8, FrameKeeps DEF Scrolling
<1> QED
  BY <1>2, <1>5, <1>6, <1>9 DEF DisplayInv

\* One step of the main task or of its environment.
LEMMA StepKeeps ==
  ASSUME DisplayInv, [Next]_vars
  PROVE  DisplayInv'
<1>1. CASE UNCHANGED vars
  BY <1>1, SameView DEF vars, viewVars
<1>2. CASE Environment
  BY <1>2, SameView DEF Environment, LinkChanges, SessionLost, GraceEnds, viewVars
<1>3. CASE \/ \E state \in {"Connected", "Connecting", "Disconnected"} : NetworkReports(state)
           \/ RequestSwitches
           \/ ShowsState
  BY <1>3, ReportsKeep
<1>4. CASE BeginConnects \/ Polls \/ NoCommand
  BY <1>4, SameView DEF BeginConnects, Polls, NoCommand, viewVars
<1>5. CASE \E p \in Payloads : ReceivesRows(p)
  BY <1>5, RowsKeep
<1>6. CASE ReceivesBlank
  BY <1>6, BlankKeeps
<1>7. CASE ReceivesDisconnect
  BY <1>7, DisconnectKeeps
<1>8. CASE SamplesEdge
  BY <1>8, SameView DEF SamplesEdge
<1>9. CASE Draws
  BY <1>9, DrawsKeeps
<1>10. CASE BeginEnds
  BY <1>10, BeginKeeps
<1> QED
  BY <1>1, <1>2, <1>3, <1>4, <1>5, <1>6, <1>7, <1>8, <1>9, <1>10 DEF Next, MainTask, Commands

\* The invariant holds in every state.
LEMMA InvAlways == Spec => []DisplayInv
<1>1. Init => DisplayInv
  BY InitHolds
<1>2. DisplayInv /\ [Next]_vars => DisplayInv'
  BY StepKeeps
<1> QED
  BY <1>1, <1>2, PTL DEF Spec

(***************************************************************************)
(* Theorems.                                                               *)
(***************************************************************************)
\* With no render owed, the panel shows the render model, for every order in which
\* commands, sessions, animation and scrolling ask for renders of their own.
THEOREM PanelIsCurrent == Spec => []ScreenShowsModel
<1>1. DisplayInv => ScreenShowsModel
  <2> SUFFICES ASSUME DisplayInv, ~render.dirty
               PROVE  IF ~InView(model) THEN screen = DrawnFull(model)
                      ELSE /\ screen.kind = "rows"
                           /\ screen.n = model.n
                           /\ \A i \in 1..model.n :
                                  /\ screen.rows[i].layout = Layout(model.rows[i])
                                  /\ screen.rows[i].part = EtaPart(model.rows[i])
                                  /\ screen.rows[i].white = (model.ui = "stale")
    BY DEF ScreenShowsModel
  <2>1. render.mode = "none" /\ render.mask = {}
    BY DEF DisplayInv, RenderOK
  <2> QED
    BY <2>1 DEF DisplayInv, Drawing, PanelShows
<1> QED
  BY <1>1, InvAlways, PTL

\* A label shown displaced belongs to a row that goes on scrolling.
THEOREM NoLabelFrozen == Spec => []NoRowLeftMidScroll
<1>1. DisplayInv => NoRowLeftMidScroll
  BY DEF DisplayInv, RenderOK, Drawing, OffsetsLive, NoRowLeftMidScroll, Scrolls
<1> QED
  BY <1>1, InvAlways, PTL

\* A row's measured width is that of the label it has now, and it may scroll.
THEOREM ScrollOfOwnRow == Spec => []ScrollBelongsToRow
<1>1. DisplayInv => ScrollBelongsToRow
  <2> SUFFICES ASSUME DisplayInv, InView(model), NEW i \in 1..model.n, scroll[i].width # 0
               PROVE  /\ model.rows[i].scroll
                      /\ scroll[i].width \in {LabelWidth(model.rows[i].label, font) : font \in 1..2}
    BY DEF ScrollBelongsToRow
  <2>1. i \in RowIds /\ Named(model.rows[i])
    BY DEF DisplayInv, ModelOK, InView, RowIds
  <2> QED
    BY <2>1 DEF DisplayInv, Scrolling, ScrollsOK
<1> QED
  BY <1>1, InvAlways, PTL

\* Rows that scroll start, turn and stop together, each at its own end.
THEOREM RowsMoveTogether == Spec => []RowsInStep
<1>1. DisplayInv => RowsInStep
  <2> SUFFICES ASSUME DisplayInv, InView(model), NEW i \in 1..model.n, scroll[i].active
               PROVE  /\ scroll[i].offset \in (scroll[i].room - scroll[i].width)..0
                      /\ scroll[i].returning => scroll[i].offset = scroll[i].room - scroll[i].width
                      /\ \A j \in 1..model.n : scroll[j].active =>
                             (scroll[i].width - scroll[i].room <= scroll[j].width - scroll[j].room =>
                                 scroll[i] = Follows(scroll[i], scroll[j]))
    BY DEF RowsInStep
  <2>1. \A j \in 1..model.n : /\ j \in RowIds /\ Named(model.rows[j])
                              /\ scroll[j] \in ScrollState
                              /\ scroll[j].active => scroll[j].room < scroll[j].width
    BY DEF DisplayInv, ModelOK, InView, RowIds, Scrolling, ScrollsOK
  <2>2. PICK lead \in Int, back \in BOOLEAN :
            \A j \in ActiveRows(model.rows, scroll) :
                /\ scroll[j].offset = AtMost(0, AtLeast(lead, scroll[j].room - scroll[j].width))
                /\ scroll[j].returning = back
                /\ back => lead <= scroll[j].room - scroll[j].width
    BY DEF DisplayInv, Scrolling, Together
  <2>3. \A j \in 1..model.n : scroll[j].active =>
            /\ scroll[j].offset = AtMost(0, AtLeast(lead, scroll[j].room - scroll[j].width))
            /\ scroll[j].returning = back
            /\ back => lead <= scroll[j].room - scroll[j].width
    BY <2>1, <2>2 DEF ActiveRows
  <2>4. /\ scroll[i].room \in Int /\ scroll[i].width \in Int /\ scroll[i].offset \in Int
        /\ scroll[i].room < scroll[i].width
    BY <2>1 DEF ScrollState
  <2>5. scroll[i].offset \in (scroll[i].room - scroll[i].width)..0
    BY <2>3, <2>4 DEF AtMost, AtLeast
  <2>6. scroll[i].returning => scroll[i].offset = scroll[i].room - scroll[i].width
    BY <2>3, <2>4 DEF AtMost, AtLeast
  <2>7. ASSUME NEW j \in 1..model.n, scroll[j].active,
               scroll[i].width - scroll[i].room <= scroll[j].width - scroll[j].room
        PROVE  scroll[i] = Follows(scroll[i], scroll[j])
    <3>1. /\ scroll[j].room \in Int /\ scroll[j].width \in Int /\ scroll[j].offset \in Int
          /\ scroll[j].room < scroll[j].width
      BY <2>1, <2>7 DEF ScrollState
    <3>2. scroll[i].offset = AtMost(0, AtLeast(scroll[j].offset, scroll[i].room - scroll[i].width))
      BY <2>3, <2>4, <2>7, <3>1 DEF AtMost, AtLeast
    <3>3. scroll[i].returning = scroll[j].returning
      BY <2>3, <2>7
    <3>4. scroll[i] = [scroll[i] EXCEPT !.offset = scroll[i].offset, !.returning = scroll[i].returning]
      BY <2>1 DEF ScrollState
    <3> QED
      BY <3>2, <3>3, <3>4 DEF Follows
  <2> QED
    BY <2>5, <2>6, <2>7
<1> QED
  BY <1>1, InvAlways, PTL

\* What an arrival time of up to six characters leaves lit beside it belongs to a
\* longer one, on every panel.
THEOREM GhostsOfLongerOnly == Spec => []GhostOnlyWhenShorter
<1>1. DisplayInv => GhostOnlyWhenShorter
  <2> SUFFICES ASSUME DisplayInv, ~render.dirty, InView(model), NEW i \in 1..model.n,
                      model.rows[i].eta.chars <= 2 * EtaChars,
                      screen.rows[i].marks # EtaMarks(model.n, model.rows[i])
               PROVE  screen.rows[i].widest > model.rows[i].eta.chars
    BY DEF GhostOnlyWhenShorter
  <2>1. render.mode = "none" /\ render.mask = {}
    BY DEF DisplayInv, RenderOK
  <2> QED
    BY <2>1 DEF DisplayInv, Drawing, MarksKnown
<1> QED
  BY <1>1, InvAlways, PTL

\* On a panel with room for it, a scrolled label never reaches an arrival time of
\* up to three characters.
THEOREM ScrollStaysClear ==
  ASSUME WidePanel
  PROVE  Spec => []ScrollClearOfEta
<1>1. DisplayInv => ScrollClearOfEta
  <2> SUFFICES ASSUME DisplayInv, InView(model), NEW i \in 1..model.n, scroll[i].active,
                      model.rows[i].eta.chars <= EtaChars
               PROVE  LET g == Geometry(model.n, model.rows[i])
                      IN  ScrollReach(g, model.rows[i].label, scroll[i].offset) < g.eta
    BY DEF ScrollClearOfEta
  <2>1. i \in RowIds /\ model.n \in RowIds /\ IsRow(model.rows[i]) /\ Named(model.rows[i])
    BY DEF DisplayInv, ModelOK, InView, RowIds
  <2>2. scroll[i] \in ScrollState /\ i \in ActiveRows(model.rows, scroll)
    BY <2>1 DEF DisplayInv, Scrolling, ScrollsOK, ActiveRows
  <2>3. PICK lead \in Int :
            scroll[i].offset = AtMost(0, AtLeast(lead, scroll[i].room - scroll[i].width))
    BY <2>2 DEF DisplayInv, Scrolling, Together
  <2>4. scroll[i].offset \in Int /\ scroll[i].offset <= 0
    BY <2>2, <2>3 DEF ScrollState, AtMost, AtLeast
  <2> QED
    BY <2>1, <2>4, ScrollStopsShort
<1> QED
  BY <1>1, InvAlways, PTL

================================================================================
