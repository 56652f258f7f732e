SPECIFICATION Spec
CONSTANTS
    Requests = {r1, r2}
    Recipients = {u1, u2}
    Thresholds = {0, 1}
    MaxUnits = 1
    MaxSold = 1
    Quiet = 2
    QueriesAsMeant = TRUE
SYMMETRY Symmetry
CHECK_DEADLOCK FALSE
INVARIANTS RecordIsTrue LowIsAlerted
PROPERTY AlertsKeepQuiet
