SPECIFICATION Spec
CONSTANTS
    c1 = c1
    c2 = c2
    e1 = e1
    Clients = {c1, c2}
    Edits = {e1}
    Author <- MCAuthor
    Nothing = Nothing
INVARIANTS
    NothingIsForgotten
PROPERTY
    SavedInTheEnd
CHECK_DEADLOCK FALSE
