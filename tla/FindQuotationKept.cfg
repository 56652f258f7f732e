SPECIFICATION Spec
ACTION_CONSTRAINT OneAtATime
CONSTANTS
    Locations <- MCLocations
    Showroom <- MCShowroom
    MaxQty = 1
    Items = {chair}
    Orders = {o1}
    Lines = {l1}
    Quotations = {q1}
    Requests = {r1}
    NoOrder = NoOrder
    NoItem = NoItem
    NoQuotation = NoQuotation
    MaxOnHand = 1
    MaxSold = 1
    PermitSums = {1}
    OpeningStock <- NoneYet
    QueriesAsMeant = FALSE
SYMMETRY Symmetry
CHECK_DEADLOCK FALSE
PROPERTY ConfirmConverts
