SPECIFICATION Spec
CONSTANTS
    u1 = u1
    u2 = u2
    mission = mission
    usage = usage
    p1 = p1
    p2 = p2
    del = del
    exp = exp
    Users = {u1, u2}
    Ids = {mission, usage}
    Posts = {p1, p2}
    Items <- MCItems
    Tickets = {del, exp}
    TicketUser <- MCTicketUser
    TicketType <- MCTicketType
    TableOf <- MCTableOf
    MaxTime = 2
    MaxAttempts = 2
    MaxAudits = 1
    MaxCuts = 1
CHECK_DEADLOCK FALSE
INVARIANTS
    ClosedOnce
    BundlesAudited
    AcceptedIsStored
    LastSeenCovers
PROPERTY KeepsRecordStore
