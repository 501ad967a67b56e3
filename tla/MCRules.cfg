\* One limit, counts on both sides of it.  A decision ends a behaviour.
CONSTANTS
    None = None
    Limit = 2
    Count = {0, 1, 2, 3}
    Request <- MCRequest
SPECIFICATION Spec
INVARIANTS
    TypeOK
    StagesLoseNothing
    AgentLimits
    CategoricalAsksNobody
    TighteningHolds
    MoreEffectsHold
CHECK_DEADLOCK FALSE
