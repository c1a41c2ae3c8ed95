SPECIFICATION Spec
CONSTANTS
    Requests = {r1, r2}
    Identities = {a, b}
    Emails = {x, X}
    Spellings = {{x, X}}
    None = None
    MaxInvitations = 2
    MaxRequests = 3
SYMMETRY Symmetry
CHECK_DEADLOCK FALSE
INVARIANTS
    TypeOK
    OneOrganisation
    
    

    
