CONSTANTS
    Accounts = {a1, a2}
    Addresses = {e1}
    Tokens = {t1, t2, t3}
    Requests = {r1, r2}
    Lifetime <- MCLifetime
    MaxTime = 2
    Nobody = Nobody
    NoToken = NoToken
    NoRow = NoRow
    Nothing = Nothing
SPECIFICATION Spec
SYMMETRY Symmetry
INVARIANTS
    UsedVerificationsVerified
    CredentialsFollowVerification
PROPERTIES
    SpentTokensStaySpent
