CONSTANTS
    p1 = p1
    p2 = p2
    p3 = p3
    Posts = {p1, p2, p3}
    Anonymous = {p3}
    Stamp <- StampDef
    MaxFetches = 2
SPECIFICATION Spec
INVARIANTS
    FetchInv
    FeedIsSortedSnapshot
PROPERTY FetchAnswered
CHECK_DEADLOCK FALSE
