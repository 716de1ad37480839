CONSTANTS
    Users = {alice, bob}
    NoUser = NoUser
    Buttons = {b1, b2}
    MaxSearches = 1
    MaxMaps = 1
    MaxAdds = 1
SPECIFICATION Spec
INVARIANTS
    ScreenInv
    ListSafe
    AddedIsSeen
    CompleteDataSafe
PROPERTY FetchAnswered
CHECK_DEADLOCK FALSE
