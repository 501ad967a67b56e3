--------------------------- MODULE GovernedWrites ---------------------------
(***************************************************************************)
(* What the guard and the journal together promise about writes.  A write  *)
(* holds its connection from its intent until a definite outcome is on     *)
(* record, and has effects only in between.  A write whose outcome is      *)
(* unknown holds the connection for good.                                  *)
(***************************************************************************)
CONSTANTS
    Write,       \* governed writes
    Exclusive,   \* the ones that need the connection for themselves
    Scope,       \* Scope[w]: the saved connection w writes to
    Everything   \* the scope of the operations that are in everyone's way

VARIABLES
    claim,       \* claim[w]: "free", "held", "settled" or "stuck"
    open         \* writes whose effect is open

claimVars == <<claim, open>>

Overlap(v, w) == Scope[v] = Scope[w] \/ Everything \in {Scope[v], Scope[w]}
Holds(w) == claim[w] \in {"held", "stuck"}

ClaimInit == claim = [w \in Write |-> "free"] /\ open = {}

\* The intent goes on record; the driver may be called in the same step.
Claim(w) ==
    /\ claim[w] = "free"
    /\ w \in Exclusive => \A v \in Write : Holds(v) => ~Overlap(v, w)
    /\ claim' = [claim EXCEPT ![w] = "held"]
    /\ open' \in {open, open \cup {w}}

Open(w) ==
    /\ claim[w] = "held"
    /\ open' = open \cup {w}
    /\ UNCHANGED claim

Close(w) ==
    /\ w \in open
    /\ open' = open \ {w}
    /\ UNCHANGED claim

\* A definite outcome goes on record.
Settle(w) ==
    /\ claim[w] = "held"
    /\ w \notin open
    /\ claim' = [claim EXCEPT ![w] = "settled"]
    /\ UNCHANGED open

\* An unknown outcome goes on record.
Stick(w) ==
    /\ claim[w] = "held"
    /\ claim' = [claim EXCEPT ![w] = "stuck"]
    /\ UNCHANGED open

\* Recovery: every claim that was never settled is stuck.
StickAll ==
    /\ claim' = [w \in Write |-> IF claim[w] = "held" THEN "stuck" ELSE claim[w]]
    /\ UNCHANGED open

ClaimNext ==
    \/ StickAll
    \/ \E w \in Write : Claim(w) \/ Open(w) \/ Close(w) \/ Settle(w) \/ Stick(w)

ClaimSpec == ClaimInit /\ [][ClaimNext]_claimVars
=============================================================================
