\* A call that has returned takes no further step.
SPECIFICATION Spec
INVARIANTS
    TypeOK
    ReportTellsTruth
PROPERTY InterruptedReturns
CHECK_DEADLOCK FALSE
