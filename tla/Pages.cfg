CONSTANTS
    me = me
    omitted = omitted
    null = null
    Account = me
    Omitted = omitted
    Null = null
    Stock <- MCStock
    Catalog <- MCCatalog
    Titles = {"gomme"}
    DueDates = {2}
    Notes = {"", "romanzo"}
    LongNotes = {"romanzo"}
    Readings = {1}
    OtherBodies <- MCOtherBodies
    MAX_DEADLINES_PER_VEHICLE = 2
    MaxVehicles = 2
    MaxRows = 2
    MaxActs = 3

SPECIFICATION FairSpec
INVARIANTS TypeOK ShownIsAskedFor WaitsForOneAnswer BodiesAreSound
PROPERTIES SavesSpareTheRest WaitingEnds
CHECK_DEADLOCK FALSE
