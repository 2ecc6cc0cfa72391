SPECIFICATION FairSpec
CONSTANTS
    Networks = {n1, n2}
    NoNet = NoNet
    Tokens = {t1, t2}
    NoToken = NoToken
    MaxSubmissions = 2
INVARIANTS
    ConnectedMeansRegistered
    TokenHasSession
    UnansweredOnlyIfStartedUp
    SilentMeansWorkingRecord
PROPERTIES
    OnlyCommandStrands
    SessionsEnd
