SPECIFICATION MailedSpec
CONSTANTS
    Requests = {r1}
    Identities <- NoIdentity
    Emails = {x}
    Spellings = {}
    None = None
    MaxInvitations = 1
    MaxRequests = 2
    Mailers = {w1, w2}
    SendEnabled = TRUE
    MaxStalls = 1
CHECK_DEADLOCK FALSE
INVARIANTS
    MailedTypeOK
    MailedOnce
PROPERTIES
    NotifiedIsMailed
