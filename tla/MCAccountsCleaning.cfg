CONSTANTS
    Accounts = {a1, a2}
    Addresses = {e1, e2}
    Tokens = {t1, t2, t3}
    Requests = {r1}
    Lifetime <- MCLifetime
    MaxTime = 1
    Nobody = Nobody
    NoToken = NoToken
    NoRow = NoRow
    Nothing = Nothing
SPECIFICATION Spec
SYMMETRY Symmetry
INVARIANTS
    CleaningIsComplete
