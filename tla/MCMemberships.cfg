SPECIFICATION Spec
CONSTANTS
    Users = {u, v}
    Founder = u
    Requests = {r1, r2}
    Keys = {k}
    None = None
    MaxMemberships = 3
    MaxRequests = 4
SYMMETRY Symmetry
CHECK_DEADLOCK FALSE
INVARIANTS
    TypeOK
    OneMembership
    RolesGranted
PROPERTIES
    RemovedStays
    OwnerStays
    KeysStayGone
