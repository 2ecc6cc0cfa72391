SPECIFICATION Spec
CONSTANTS
    MaxSubmissions = 3
INVARIANTS
    LostOnlyByOverlap
PROPERTIES
    TornOnlyByOverlap
