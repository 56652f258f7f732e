SPECIFICATION Spec
CONSTANTS
    Locations <- OneLocation
    Showroom <- MCShowroom
    MaxQty = 1
    Items = {chair}
    Orders = {o1, o2}
    Lines = {l1}
    Quotations = {q1}
    Requests = {r1, r2}
    NoOrder = NoOrder
    NoItem = NoItem
    NoQuotation = NoQuotation
    MaxOnHand = 0
    MaxSold = 1
    PermitSums = {0, 1}
    OpeningStock <- OneEach
    QueriesAsMeant = TRUE
CONSTRAINT OnTheWay
SYMMETRY Symmetry
CHECK_DEADLOCK FALSE
INVARIANTS NonNegativeStock UnitsConserved DraftHoldsNothing OneActiveOrderPerQuotation
