SPECIFICATION Spec
CONSTANTS
    p1 = p1
    p2 = p2
    w1 = w1
    w2 = w2
    rb = rb
    rd = rd
    c1 = c1
    NilConn = NilConn
    NoCursor = NoCursor
    NoEvent = NoEvent
    Proc <- MCProcs
    Conn <- MCConn
    Op <- MCPaged
    ConnOf <- MCPagedConnOf
    ClassOf <- MCPagedClassOf
SYMMETRY Symmetry
INVARIANTS
    UnsettledVisible
    AnswerMatchesFile
