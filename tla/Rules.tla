------------------------------- MODULE Rules -------------------------------
(***************************************************************************)
(* What PolicyGuard decides about a statement before it runs:              *)
(* authorize_with_bound of guard.rs over the rules of rules.rs.            *)
(*                                                                         *)
(* A decision keeps its severity; rule names, reasons and previews only    *)
(* word it.  A statement keeps the facts the rules look at: of its effects *)
(* the five below, of its class whether it parsed and is administrative.   *)
(* The refusal under lockdown is part of PolicyGuard.                      *)
(***************************************************************************)
EXTENDS Naturals

CONSTANTS
    Request,    \* the requests to decide on
    Count,      \* the row counts an estimate may give
    None        \* no limit, no estimate

Decision == {"allow", "approve", "deny"}
Effect == {"rows", "schema", "admin", "host", "unknown"}

Policy == [agent_writes : Decision,
           agent_allow_ddl : BOOLEAN,
           agent_allow_multi_statement : BOOLEAN,
           human_approve_writes : BOOLEAN,
           human_approve_ddl : BOOLEAN,
           human_approve_unparseable : BOOLEAN,
           blast_radius_max_rows : Nat \cup {None}]

RequestType == [agent : BOOLEAN,
                read_only : BOOLEAN,
                class : {"unparseable", "administrative", "other"},
                effects : SUBSET Effect,
                unscoped : BOOLEAN,
                multi : BOOLEAN,
                policy : Policy]

\* What the classifier produces: StatementFacts::unparseable, and no unscoped
\* or administrative statement without the effect that goes with it.
Classified(r) ==
    /\ r.class = "unparseable" => r.effects = {"unknown"} /\ ~r.unscoped /\ ~r.multi
    /\ r.class = "administrative" => "admin" \in r.effects
    /\ r.unscoped => "rows" \in r.effects

ASSUME RulesAssumption ==
    /\ \A r \in Request : r \in RequestType /\ Classified(r)
    /\ Count \subseteq Nat
    /\ None \notin Nat

-----------------------------------------------------------------------------
(* Decisions.                                                              *)

When(condition, decision) == IF condition THEN {decision} ELSE {}

\* severity: d is at least as strict as e.
AtLeast(d, e) == d = e \/ d = "deny" \/ e = "allow"

\* join_all, with the refusal its callers fall back to when nothing decided.
JoinAll(decisions) ==
    IF "deny" \in decisions \/ decisions = {} THEN "deny"
    ELSE IF "approve" \in decisions THEN "approve" ELSE "allow"

-----------------------------------------------------------------------------
(* The rules.                                                              *)

\* Mutant: administration is not a write.
WritesUnlessAdmin(r) ==
    r.effects \cap {"rows", "schema", "unknown"} # {} /\ "admin" \notin r.effects
Writes(r) == r.effects \cap {"rows", "schema", "admin", "unknown"} # {}
Dangerous(r) == r.effects \cap {"admin", "host", "unknown"} # {}

DecideUnparseable(r) ==
    IF r.agent THEN "deny"
    ELSE IF r.policy.human_approve_unparseable THEN "approve" ELSE "allow"

HumanDangerousEffects(r) == When(Dangerous(r), "approve")

UnparseableDecisions(r) ==
    {DecideUnparseable(r)} \cup
        IF r.agent THEN {}
        ELSE IF DecideUnparseable(r) = "allow" THEN HumanDangerousEffects(r)
        ELSE When(r.policy.human_approve_writes, "approve")

\* Mutant: writes of unknown effect are left to the policy.
AgentWriteCategoricalTrusting(r) ==
    When(\/ "host" \in r.effects
         \/ r.policy.agent_writes = "deny"
         \/ "schema" \in r.effects /\ ~r.policy.agent_allow_ddl
         \/ r.unscoped, "deny")
\* Mutant: a DDL statement the policy does not allow is put to approval.
AgentWriteCategoricalAsks(r) ==
    When("schema" \in r.effects /\ ~r.policy.agent_allow_ddl, "approve") \cup
    When(\/ "host" \in r.effects
         \/ r.policy.agent_writes = "deny"
         \/ "unknown" \in r.effects
         \/ r.unscoped, "deny")
\* What no count can change about an agent's write.
AgentWriteCategorical(r) ==
    When(\/ "host" \in r.effects
         \/ r.policy.agent_writes = "deny"
         \/ "schema" \in r.effects /\ ~r.policy.agent_allow_ddl
         \/ "unknown" \in r.effects
         \/ r.unscoped, "deny")

\* evaluate_categorical_decisions: what needs no count of rows.
CategoricalDecisions(r) ==
    When(r.read_only /\ Writes(r), "deny") \cup
        IF r.class = "unparseable" THEN UnparseableDecisions(r)
        ELSE When(r.multi /\ r.agent /\ ~r.policy.agent_allow_multi_statement, "deny")
             \cup When(r.agent /\ (r.class = "administrative" \/ "admin" \in r.effects), "deny")
             \cup IF ~Writes(r) /\ "host" \notin r.effects THEN {"allow"}
                  ELSE IF r.agent THEN AgentWriteCategorical(r) ELSE HumanDangerousEffects(r)

\* Mutant: an unknown count passes.
OverLimitIfKnown(r, rows) ==
    /\ r.policy.blast_radius_max_rows # None
    /\ "rows" \in r.effects
    /\ rows # None /\ rows > r.policy.blast_radius_max_rows
\* Mutant: the comparison is turned round.
OverLimitReversed(r, rows) ==
    /\ r.policy.blast_radius_max_rows # None
    /\ "rows" \in r.effects
    /\ rows = None \/ rows < r.policy.blast_radius_max_rows
\* blast_radius_exceeded or blast_radius_unknown.
OverLimit(r, rows) ==
    /\ r.policy.blast_radius_max_rows # None
    /\ "rows" \in r.effects
    /\ rows = None \/ rows > r.policy.blast_radius_max_rows

AgentWriteDecisions(r, rows) ==
    AgentWriteCategorical(r) \cup When(OverLimit(r, rows), "deny") \cup {r.policy.agent_writes}

HumanWriteDecisions(r, rows) ==
    {"allow"} \cup
    When(\/ r.unscoped
         \/ "schema" \in r.effects /\ r.policy.human_approve_ddl
         \/ OverLimit(r, rows)
         \/ r.policy.human_approve_writes
         \/ Dangerous(r), "approve")

EligibleWriteDecisions(r, rows) ==
    IF r.class = "unparseable" THEN {DecideUnparseable(r)}
    ELSE IF r.agent THEN AgentWriteDecisions(r, rows) ELSE HumanWriteDecisions(r, rows)

EvaluateEligibleWrite(r, rows) == JoinAll(EligibleWriteDecisions(r, rows))

\* evaluate: all rules at once, the reference for what the guard does.
Evaluate(r, rows) ==
    JoinAll(CategoricalDecisions(r) \cup
            IF Writes(r) \/ r.class = "unparseable" \/ Dangerous(r)
            THEN EligibleWriteDecisions(r, rows) ELSE {})

-----------------------------------------------------------------------------
(* The guard: decide without counting where that is possible.              *)

VARIABLES
    request,    \* the statement, who sends it and the policy in force
    step,       \* "classified", "eligible", "decided", or "refused" on the way
    rows,       \* estimated_rows
    decision    \* the decision, once step is "decided"

vars == <<request, step, rows, decision>>

TypeOK ==
    /\ request \in Request
    /\ step \in {"classified", "eligible", "decided", "refused"}
    /\ rows \in Count \cup {None}
    /\ decision \in Decision

Init ==
    /\ request \in Request
    /\ step = "classified"
    /\ rows = None
    /\ decision = "deny"

\* A categorical decision ends it; all rules are joined, without a count.
DecideCategorically ==
    /\ step = "classified"
    /\ CategoricalDecisions(request) # {}
    /\ step' = "decided"
    /\ decision' = Evaluate(request, None)
    /\ UNCHANGED <<request, rows>>

\* estimate_blast_radius or the row count a checked batch enforces.
Counts(r) ==
    /\ "rows" \in r.effects
    /\ r.class # "administrative"
    /\ r.effects \cap {"admin", "unknown"} = {}
    /\ r.policy.blast_radius_max_rows # None

\* Mutant: the count is kept as a signed number.
CountRowsSigned ==
    /\ step = "classified"
    /\ CategoricalDecisions(request) = {}
    /\ step' = "eligible"
    /\ rows' \in IF Counts(request) THEN Count \cup {0 - 1} ELSE {None}
    /\ UNCHANGED <<request, decision>>

\* The count, when a limit asks for one; None when it cannot be had.
CountRows ==
    /\ step = "classified"
    /\ CategoricalDecisions(request) = {}
    /\ step' = "eligible"
    /\ rows' \in IF Counts(request) THEN Count \cup {None} ELSE {None}
    /\ UNCHANGED <<request, decision>>

\* Locked down, or the count could not be put on record.
RefuseUncounted ==
    /\ step = "classified"
    /\ CategoricalDecisions(request) = {}
    /\ step' = "refused"
    /\ UNCHANGED <<request, rows, decision>>

DecideEligible ==
    /\ step = "eligible"
    /\ step' = "decided"
    /\ decision' = EvaluateEligibleWrite(request, rows)
    /\ UNCHANGED <<request, rows>>

Next == DecideCategorically \/ CountRows \/ RefuseUncounted \/ DecideEligible

Spec == Init /\ [][Next]_vars

-----------------------------------------------------------------------------
(* Properties.                                                             *)

\* Deciding in stages loses no strictness: with the count the guard used, its
\* decision is that of all rules; where it used none, the decision is at least
\* as strict as all rules would be for any count (authorize_with_bound).
StagesLoseNothing ==
    step = "decided" =>
        /\ decision = Evaluate(request, rows)
        /\ rows = None => \A n \in Count : AtLeast(decision, Evaluate(request, n))

\* Some things no policy can grant an agent: an unparseable statement, an
\* administrative, host or unknown effect, a write on a read-only connection,
\* an unscoped write.
AgentLimits ==
    /\ step = "decided"
    /\ request.agent
    /\ \/ request.class \in {"unparseable", "administrative"}
       \/ Dangerous(request)
       \/ Writes(request) /\ (request.read_only \/ request.unscoped)
    => decision = "deny"

\* An agent's statement that the categorical rules decide is allowed or denied;
\* nobody is asked.  PolicyGuard's AuthorizeCategorical relies on it.
CategoricalAsksNobody ==
    step = "decided" /\ request.agent /\ CategoricalDecisions(request) # {}
        => decision # "approve"

\* Single steps towards a stricter policy.
Tightened(p) ==
    {[p EXCEPT !.agent_writes = d] : d \in {e \in Decision : AtLeast(e, p.agent_writes)}}
    \cup {[p EXCEPT !.agent_allow_ddl = FALSE], [p EXCEPT !.agent_allow_multi_statement = FALSE],
          [p EXCEPT !.human_approve_writes = TRUE], [p EXCEPT !.human_approve_ddl = TRUE],
          [p EXCEPT !.human_approve_unparseable = TRUE]}
    \cup {[p EXCEPT !.blast_radius_max_rows = n] :
             n \in {m \in Count : p.blast_radius_max_rows = None \/ m <= p.blast_radius_max_rows}}

\* A stricter policy never yields a milder decision: no knob of EnvPolicy
\* works backwards in combination with another.
TighteningHolds ==
    step = "decided" =>
        \A p \in Tightened(request.policy) :
            AtLeast(Evaluate([request EXCEPT !.policy = p], rows), decision)

\* A statement with one more effect never gets a milder decision, so a
\* classifier that errs towards more effects errs on the strict side.
MoreEffectsHold ==
    step = "decided" =>
        \A e \in Effect :
            AtLeast(Evaluate([request EXCEPT !.effects = @ \cup {e}], rows), decision)
=============================================================================
