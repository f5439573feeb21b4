CONSTANTS
    p1 = p1
    P1 = P1
    People = {p1}
    Addresses = {p1, P1}
    Files <- MCFiles
    FileSize = 2
    Related <- MCRelated
    Assigned <- MCAssigned
    BulkSize = 1
    Stories = {1, 2, 3}
    Requests = {r1, r2}
    MaxReference = 1
    NoRef = NoRef
    Nothing = Nothing
SPECIFICATION Spec
CHECK_DEADLOCK FALSE
INVARIANTS
    ReferencesAreUnique
    FinishedImportsAreComplete
PROPERTIES
    ImportsEnd
    InviteesAreCredited
