SPECIFICATION Spec
CONSTANTS
    quotation = quotation
    rfq = rfq
    permit1 = permit1
    permit2 = permit2
    l0 = l0
    l1 = l1
    l2 = l2
    Docs <- MCDocs
    Rows <- MCRows
    Requests = {r1, r2}
    OrderLines = {ol}
    NoDoc = NoDoc
    NoLine = NoLine
    DocsOf <- MCDocsOf
    RowsOf <- MCRowsOf
    MaxQty = 2
    MaxRevisions = 1
SYMMETRY Symmetry
CHECK_DEADLOCK FALSE
PROPERTY CreateLeavesDraft
