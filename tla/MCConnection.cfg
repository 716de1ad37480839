CONSTANTS
    MaxPuts = 2
    Hashed = {1}
    Listens = {l1}
    Places = {{l1}}
    Accounts = {alice}
    NoToken = NoToken
    NoStatus = NoStatus
    MaxDisturbances = 2
SPECIFICATION Spec
INVARIANTS
    AssertionsHold
    NeverAsAnother
    SentOnce
PROPERTIES
    ImplementsWrites
    WritesReported
CHECK_DEADLOCK FALSE
