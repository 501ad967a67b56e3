--------------------------- MODULE MCPolicyGuard ---------------------------
(***************************************************************************)
(* Instances of PolicyGuard.  The GUI holds generation g1 and may replace  *)
(* it by g2; agentd holds g3.  All belong to one saved connection, so that *)
(* every pair of operations is in each other's way.                        *)
(***************************************************************************)
EXTENDS PolicyGuard, TLC

CONSTANTS gui, agentd, c1, g0, g1, g2, g3, a, b, c

MCProc == {gui, agentd}
MCGuard == {g1, g2, g3}
MCProcOf == [g \in MCGuard |-> IF g = g3 THEN agentd ELSE gui]
MCConnOf == [g \in MCGuard |-> c1]
MCOp == {a, b, c}

\* Writes on a generation and on its replacement, the second of a person who
\* may go unaudited, and a statement without effects that an agent executes.
WritesGuardOf == (a :> g1) @@ (b :> g2) @@ (c :> g3)
WritesKindOf == (a :> "write") @@ (b :> "write") @@ (c :> "exec")
WritesCallerOf == (a :> "human") @@ (b :> "unaudited") @@ (c :> "agent")

\* The ends of transactions in the GUI, and a read of an agent.
EndsGuardOf == (a :> g1) @@ (b :> g1) @@ (c :> g3)
EndsKindOf == (a :> "commit") @@ (b :> "rollback") @@ (c :> "read")
EndsCallerOf == [o \in MCOp |-> IF o = c THEN "agent" ELSE "human"]

\* A restore in the GUI, an export of its saved connections (g0 is the stand-in
\* for the nil id), and a write of an agent.
ScopesGuard == {g0, g1, g3}
ScopesProcOf == [g \in ScopesGuard |-> IF g = g3 THEN agentd ELSE gui]
ScopesConnOf == [g \in ScopesGuard |-> IF g = g0 THEN NilConn ELSE c1]
ScopesGuardOf == (a :> g1) @@ (b :> g0) @@ (c :> g3)
ScopesKindOf == (a :> "restore") @@ (b :> "settings") @@ (c :> "write")
ScopesCallerOf == [o \in MCOp |-> IF o = c THEN "agent" ELSE "human"]
=============================================================================
