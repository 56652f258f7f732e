SPECIFICATION Spec
ACTION_CONSTRAINT OneAtATime
CONSTANTS
    Locations <- MCLocations
    Showroom <- MCShowroom
    MaxQty = 2
    Items = {chair, lamp}
    Orders = {o1}
    Lines = {l1, l2}
    Quotations = {}
    Requests = {r1}
    NoOrder = NoOrder
    NoItem = NoItem
    NoQuotation = NoQuotation
    MaxOnHand = 1
    MaxSold = 1
    PermitSums = {2}
    OpeningStock <- OneEach
    QueriesAsMeant = TRUE
SYMMETRY Symmetry
CHECK_DEADLOCK FALSE
INVARIANTS TypeOK DeliveredIsShipped ClosedWhenDelivered
PROPERTY LifecycleSpec
