SPECIFICATION JoinSpec
CONSTANTS
    Users = {u1}
    Passwords = {p1}
    Empty = Empty
    MaxAttempts = 3
    MaxEvents = 2
INVARIANTS
    ToldReasonHappened
PROPERTIES
    JoinUsesOwnIdentity
    RefusalIsTold
