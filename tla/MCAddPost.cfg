CONSTANTS
    Posts = {p1}
    Users = {alice, bob}
    NoUser = NoUser
    MaxForms = 2
    MaxBlocks = 2
    MaxSessionChanges = 2
    MaxKills = 1
SPECIFICATION Spec
INVARIANTS
    TypeOK
    SuccessMeansStored
    ListedByAuthor
    HudHasOwner
PROPERTIES
    ImplementsPublication
    Answered
CHECK_DEADLOCK FALSE
