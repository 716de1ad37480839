CONSTANTS
    Users = {alice, bob}
    NoUser = NoUser
    Texts = {new}
    Old = Old
    Nil = Nil
    alice = alice
    MaxOpens = 2
    MaxEdits = 1
    MaxSaves = 2
    MaxSessionChanges = 2
    MaxWork = 7
SPECIFICATION AliceFirst
INVARIANTS
    ScreenInv
    SuccessMeansSaved
    MailKept
    PhotosSafe
PROPERTY SaveAnswered
CHECK_DEADLOCK FALSE
