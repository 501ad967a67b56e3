SPECIFICATION Spec
CONSTANTS
    gui = gui
    agentd = agentd
    c1 = c1
    g0 = g0
    g1 = g1
    g2 = g2
    g3 = g3
    a = a
    b = b
    c = c
    Proc <- MCProc
    Gui = {gui}
    Conn = {c1}
    NilConn = NilConn
    Guard <- ScopesGuard
    ProcOf <- ScopesProcOf
    ConnOf <- ScopesConnOf
    Op <- MCOp
    GuardOf <- ScopesGuardOf
    KindOf <- ScopesKindOf
    CallerOf <- ScopesCallerOf
INVARIANTS
    EffectsOnRecord
    OneOpenWrite
    OpenEffectLocks
    LockedForCause
PROPERTIES
    KeepsPromise
