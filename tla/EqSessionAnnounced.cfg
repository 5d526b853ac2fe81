CONSTANTS
    LastSequence = 3
    Ids <- MCIds
    CustomId = "custom"
    Curves = {flat, bass}
    NoEq = NoEq
    MaxQueries = 1
    MaxInFlight = 1
    MaxWrites = 0
    MaxSelections = 1
SPECIFICATION Spec
INVARIANT AnnouncedChangeForgetsEq
