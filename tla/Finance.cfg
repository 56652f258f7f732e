SPECIFICATION Spec
CONSTANTS
    ann = ann
    Clients = {ann}
    NoClient = NoClient
    Orders = {o1}
    NoOrder = NoOrder
    Requests = {r1, r2}
    OrderClient <- AnnsOrder
    MaxInvoice = 2
    MaxDate = 2
    MaxMoney = 2
SYMMETRY Symmetry
CHECK_DEADLOCK FALSE
INVARIANTS TypeOK NeverOverAllocated StatusTellsBalance PaymentsSpent
PROPERTIES OldestFirst AccountSpec
