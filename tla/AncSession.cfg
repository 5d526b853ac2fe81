CONSTANTS
    LastSequence = 3
    MainModes <- MCMainModes
    Strengths <- MCStrengths
    States <- MCStates
    NoState = NoState
    Meets <- MCMeets
    SetSequence <- MCSetSequence
    MaxQueries = 2
    MaxWrites = 3
    MaxReports = 2
SPECIFICATION Spec
INVARIANTS
    TypeOK
    VerifiedByFreshRead
    ShownAncNotOlderThanWrite
    NoReplyLeftBehind
PROPERTIES
    SetIsNeverReplayed
    EventsUpdateAnc
    ImplementsVerifiedWrite
