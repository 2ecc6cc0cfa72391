SPECIFICATION FairSpec
CONSTANTS
    Networks = {n1}
    NoNet = NoNet
    ClockModulus = 10
    RetryCountModulus = 4
    ConnectTimeout = 3
    MaxTurn = 2
    MaxBlocking = 2
    RetryBase = 1
    RetryMax = 4
    RetryJitter = 1
INVARIANTS
    JoiningIsOwned
    NvsMatchesRam
    RetryDeadlineBounded
    ConnectedMeansRetryDue
PROPERTIES
    RefinesStation
    AttemptsEnd
    NeverGivesUp
