CONSTANTS
    LastSequence = 3
    Ids <- MCIds
    CustomId = "custom"
    Curves = {flat, bass}
    NoEq = NoEq
    MaxQueries = 2
    MaxInFlight = 2
    MaxWrites = 1
    MaxSelections = 1
SPECIFICATION Spec
INVARIANTS
    TypeOK
    VerifiedByFreshRead
    ShownEqNotOlderThanWrite
    StaleEqHasCause
PROPERTY ImplementsVerifiedWrite
SYMMETRY CurveSymmetry
