CONSTANTS
    MaxPuts = 1
    Hashed = {}
    Listens = {l1}
    Places = {{l1}}
    Accounts = {}
    NoToken = NoToken
    NoStatus = NoStatus
    MaxDisturbances = 1
SPECIFICATION Spec
PROPERTY CompletionCalled
CHECK_DEADLOCK FALSE
