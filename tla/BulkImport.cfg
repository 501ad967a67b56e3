SPECIFICATION Spec
CONSTANTS
    Total = 5
    BatchRows = 2
INVARIANTS
    RecordCountsRows
    OpenRowsBlock
CHECK_DEADLOCK FALSE
