SPECIFICATION Spec
CONSTANTS
    Users = {u1, u2}
    Guests = {u1}
    Connections = {c1}
    Anonymous = Anonymous
    Idle = Idle
INVARIANTS
    StaleSubscriptionsAreKnown
PROPERTY
    StaleSubscriptionsEnd
CHECK_DEADLOCK FALSE
