CONSTANTS
    Users = {alice, bob}
    NoUser = NoUser
    MaxSignIns = 2
    MaxEnds = 1
    MaxFailures = 2
SPECIFICATION Spec
INVARIANTS
    LoggedInHasTopic
    NothingForgotten
PROPERTIES
    HudDismissed
    PendingProgresses
CHECK_DEADLOCK FALSE
