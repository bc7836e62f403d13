SPECIFICATION Spec
CONSTANTS
    Clients = {c1, c2}
    o1 = o1
    o2 = o2
    Owners <- MCOwners
    Definitions <- MCDefinitions
    Updates <- MCUpdates
    NoRow = NoRow
    MaxCalls = 3
SYMMETRY Symmetry
INVARIANT TypeOK
INVARIANT UncontestedFieldsStick
INVARIANT UpsertFailsOnDeleted
PROPERTY RevivalNeedsIntent
CHECK_DEADLOCK FALSE
