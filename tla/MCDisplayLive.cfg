SPECIFICATION Spec
CONSTANTS
    PanelWidth = 128
    PanelHeight = 32
    Payloads <- MCPayloads
    Frames <- MCFrames
    EmptyRow <- MCEmptyRow
    WaitingRow <- MCWaitingRow
INVARIANTS
    LiveRowsShowPayload
