SPECIFICATION Spec
INVARIANT TransactionMatches
CHECK_DEADLOCK FALSE
