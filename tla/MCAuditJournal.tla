--------------------------- MODULE MCAuditJournal ---------------------------
(* Constants for the runs of AuditJournal: two processes sharing the        *)
(* journal, and a few operations on one connection and on the nil id.       *)
EXTENDS AuditJournal, TLC

CONSTANTS p1, p2, w1, w2, rb, rd, c1

MCConn == {c1}

\* Two processes; a write on c1 and an administrative write under the nil id.
MCProcs == {p1, p2}
Symmetry == Permutations(MCProcs)
MCPair == {w1, w2}
MCPairConnOf == [o \in MCPair |-> IF o = w1 THEN c1 ELSE NilConn]
MCPairClassOf == [o \in MCPair |-> IF o = w1 THEN "write" ELSE "commit"]

\* A rollback, which no gate may stop, and a paged read.
MCPaged == {rb, rd}
MCPagedConnOf == [o \in MCPaged |-> c1]
MCPagedClassOf == [o \in MCPaged |-> IF o = rb THEN "rollback" ELSE "read"]
=============================================================================
