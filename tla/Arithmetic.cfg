SPECIFICATION Spec
CONSTANTS
    Locations <- MCLocations
    Showroom <- MCShowroom
    MaxQty = 3
    MaxUnits = 2
    LineCount = 2
    LineQuantities = {1, 3}
    Prices <- MCPrices
    Percents <- MCPercents
CHECK_DEADLOCK FALSE
INVARIANTS ReserveAgrees DeliverAgrees MoneyAgrees
