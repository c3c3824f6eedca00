CONSTANTS
    null = null
    omitted = omitted
    malformed = malformed
    r1 = r1
    r2 = r2
    r3 = r3
    r4 = r4
    alice = alice
    bob = bob
    Requests = {r1, r2, r3, r4}
    Users = {alice}
    VehicleIds = {1, 2}
    RequiredFields <- MCRequiredFields
    Values <- MCValues
    DefaultMileage = 0
    Null = null
    Omitted = omitted
    Malformed = malformed
    StandardTypes <- MCStandardTypes
    Custom = "custom"
    MaxDeadlines = 2
    Payloads <- ExclusivePayloads
    Overlap = FALSE

SPECIFICATION Spec
CHECK_DEADLOCK FALSE
SYMMETRY Symmetry
INVARIANTS TombstoneCoversDeadlines DeletedStaysDeleted DeadlineCap
PROPERTIES  ImplementsGarage
