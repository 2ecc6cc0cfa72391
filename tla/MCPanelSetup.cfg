SPECIFICATION PanelSpec
CONSTANTS
    Brightness = {b1}
    Default = Default
    MaxOffset = 1
    Absent = Absent
INVARIANTS
    TuningSurvives
    PanelFollows
