CONSTANTS
    People = {ann, ben}
    NoProfile = {}
    NoPhoto <- FirstFails
    ben = ben
    Buttons = {b1, b2}
    NoOne = NoOne
    MaxFetches = 2
    MaxRemovals = 1
    MaxSearches = 1
SPECIFICATION Spec
INVARIANTS
    ListsInv
    RemovalHitsRow
    AllFriendsOrNone
PROPERTY FetchAnswered
CHECK_DEADLOCK FALSE
