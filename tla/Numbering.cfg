SPECIFICATION Spec
CONSTANTS
    Requests = {c1, c2, c3, c4}
    NoRequest = NoRequest
    LastNumber = 0
    MaxNumber = 5
SYMMETRY Symmetry
CHECK_DEADLOCK FALSE
INVARIANTS TypeOK SequenceCovers FoundIsFresh
