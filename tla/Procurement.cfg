SPECIFICATION Spec
CONSTANTS
    acme = acme
    Items = {chair, lamp}
    NoItem = NoItem
    Suppliers = {acme}
    NoSupplier = NoSupplier
    PurchaseOrders = {p1, p2}
    NoPurchaseOrder = NoPurchaseOrder
    Requests = {r1, r2}
    NoRequest = NoRequest
    BrandSupplier <- OneSupplier
    Threshold <- ThresholdOne
    MaxQty = 1
    OpeningStock = 0
    MaxOther = 1
    QueriesAsMeant = TRUE
CHECK_DEADLOCK FALSE
INVARIANTS TypeOK ReceivedIsReceipted GoodsBalance StatusFromReceipts OnePricePerItem ReceiptsDoNotDeadlock
PROPERTY RequestsEnd
