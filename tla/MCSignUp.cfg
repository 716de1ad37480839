CONSTANTS
    Forms = {f1}
    NoForm = NoForm
    Submits = {s1, s2}
    Emails = {alice}
    Blank = Blank
    Nil = Nil
    MaxBlocks = 2
    MaxKills = 1
SPECIFICATION Spec
INVARIANTS
    ScreenInv
    SuccessMeansRegistered
PROPERTIES
    FailureSilencesForm
    SubmitAnswered
    ImplementsRegistration
CHECK_DEADLOCK FALSE
