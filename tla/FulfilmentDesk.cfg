SPECIFICATION DeskSpec
ACTION_CONSTRAINT OneAtATime
CONSTANTS
    Locations <- MCLocations
    Showroom <- MCShowroom
    MaxQty = 2
    Items = {chair}
    Orders = {o1, o2}
    Lines = {l1, l2}
    Quotations = {}
    Requests = {r1}
    NoOrder = NoOrder
    NoItem = NoItem
    NoQuotation = NoQuotation
    MaxOnHand = 2
    MaxSold = 2
    PermitSums = {2}
    OpeningStock <- OneEach
    QueriesAsMeant = TRUE
SYMMETRY Symmetry
CHECK_DEADLOCK FALSE
INVARIANTS ReservedIsHeld HeldWithinOutstanding ShortageFlagged OverHoldsNothing
