SPECIFICATION Spec
INVARIANTS
    TransactionTracked
    ClosedAccounted
    EndTold
CHECK_DEADLOCK FALSE
