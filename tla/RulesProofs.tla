---------------------------- MODULE RulesProofs ----------------------------
(***************************************************************************)
(* Proofs about Rules, for any set of requests and row counts.             *)
(***************************************************************************)
EXTENDS Rules, TLAPS

\* When some rule denies, and when some rule asks: Evaluate without the sets.
AgentBarred(r) ==
    \/ "host" \in r.effects \/ "unknown" \in r.effects \/ r.unscoped
    \/ r.policy.agent_writes = "deny"
    \/ "schema" \in r.effects /\ ~r.policy.agent_allow_ddl

AgentDenied(r, n) ==
    \/ r.read_only /\ Writes(r)
    \/ r.class = "unparseable"
    \/ r.multi /\ ~r.policy.agent_allow_multi_statement
    \/ r.class = "administrative" \/ "admin" \in r.effects
    \/ (Writes(r) \/ "host" \in r.effects) /\ (AgentBarred(r) \/ OverLimit(r, n))

HumanAsked(r, n) ==
    IF r.class = "unparseable"
    THEN r.policy.human_approve_unparseable \/ Dangerous(r)
    ELSE \/ Dangerous(r)
         \/ /\ Writes(r)
            /\ \/ r.unscoped \/ r.policy.human_approve_writes \/ OverLimit(r, n)
               \/ "schema" \in r.effects /\ r.policy.human_approve_ddl

\* The three values of Evaluate, for an agent and for a human.
Outcome(r, n) ==
    IF r.agent
    THEN IF AgentDenied(r, n) THEN "deny"
         ELSE IF Writes(r) THEN r.policy.agent_writes ELSE "allow"
    ELSE IF r.read_only /\ Writes(r) THEN "deny"
         ELSE IF HumanAsked(r, n) THEN "approve" ELSE "allow"

\* Joining all rules gives exactly Outcome.
LEMMA EvaluateIsOutcome ==
    ASSUME NEW r \in RequestType, NEW n
    PROVE  Evaluate(r, n) = Outcome(r, n)
<1>0. /\ r.agent \in BOOLEAN /\ r.read_only \in BOOLEAN /\ r.unscoped \in BOOLEAN
      /\ r.multi \in BOOLEAN /\ r.policy.agent_writes \in Decision
      /\ r.policy.human_approve_writes \in BOOLEAN /\ r.effects \subseteq Effect
  BY DEF RequestType, Policy
<1>1. CASE r.agent
  <2>1. CASE r.class = "unparseable"
    BY <1>0, <1>1, <2>1, SMTT(30) DEF Evaluate, JoinAll, CategoricalDecisions, EligibleWriteDecisions,
      UnparseableDecisions, DecideUnparseable, When, Outcome, AgentDenied
  <2>2. CASE r.class # "unparseable"
    BY <1>0, <1>1, <2>2, SMTT(60) DEF Evaluate, JoinAll, CategoricalDecisions, EligibleWriteDecisions,
      AgentWriteDecisions, AgentWriteCategorical, When, Outcome, AgentDenied, AgentBarred,
      Writes, Dangerous, Decision
  <2> QED BY <2>1, <2>2
<1>2. CASE ~r.agent
  <2>1. CASE r.class = "unparseable"
    BY <1>0, <1>2, <2>1, SMTT(60) DEF Evaluate, JoinAll, CategoricalDecisions, EligibleWriteDecisions,
      UnparseableDecisions, DecideUnparseable, HumanDangerousEffects, When, Outcome, HumanAsked,
      Writes, Dangerous
  <2>2. CASE r.class # "unparseable"
    BY <1>0, <1>2, <2>2, SMTT(60) DEF Evaluate, JoinAll, CategoricalDecisions, EligibleWriteDecisions,
      HumanWriteDecisions, HumanDangerousEffects, When, Outcome, HumanAsked, Writes, Dangerous
  <2> QED BY <2>1, <2>2
<1> QED BY <1>1, <1>2

\* Without a categorical decision, the second stage decides as all rules do.
LEMMA StagesAgree ==
    ASSUME NEW r \in RequestType, NEW n, CategoricalDecisions(r) = {}
    PROVE  EvaluateEligibleWrite(r, n) = Evaluate(r, n)
<1>1. Writes(r) \/ r.class = "unparseable" \/ Dangerous(r)
  BY DEF CategoricalDecisions, UnparseableDecisions, Writes, Dangerous, When
<1> QED BY <1>1 DEF Evaluate, EvaluateEligibleWrite

\* Both stages give a decision.
LEMMA DecisionType ==
    ASSUME NEW r \in RequestType, NEW n
    PROVE  Evaluate(r, n) \in Decision
<1>1. r.policy.agent_writes \in Decision
  BY DEF RequestType, Policy
<1> QED BY <1>1, EvaluateIsOutcome DEF Outcome, Decision

\* An unknown count is treated at least as strictly as any known one.
LEMMA UncountedStrictest ==
    ASSUME NEW r \in RequestType, NEW n \in Nat
    PROVE  AtLeast(Evaluate(r, None), Evaluate(r, n))
<1>1. OverLimit(r, n) => OverLimit(r, None)
  BY RulesAssumption DEF OverLimit
<1> QED BY <1>1, EvaluateIsOutcome DEF Outcome, AgentDenied, HumanAsked, AtLeast

\* No single tightening of the policy leads to a milder decision.
LEMMA TighterIsStricter ==
    ASSUME NEW r \in RequestType, NEW n \in Nat \cup {None},
           NEW p \in Tightened(r.policy)
    PROVE  AtLeast(Evaluate([r EXCEPT !.policy = p], n), Evaluate(r, n))
<1> DEFINE q == r.policy
           t == [r EXCEPT !.policy = p]
<1>1. /\ q \in Policy /\ r.effects \subseteq Effect
      /\ q.blast_radius_max_rows # None => q.blast_radius_max_rows <= q.blast_radius_max_rows
  BY DEF RequestType, Policy
<1>2. /\ p \in Policy
      /\ AtLeast(p.agent_writes, q.agent_writes)
      /\ p.agent_allow_ddl => q.agent_allow_ddl
      /\ p.agent_allow_multi_statement => q.agent_allow_multi_statement
      /\ q.human_approve_writes => p.human_approve_writes
      /\ q.human_approve_ddl => p.human_approve_ddl
      /\ q.human_approve_unparseable => p.human_approve_unparseable
      /\ q.blast_radius_max_rows # None =>
             /\ p.blast_radius_max_rows # None
             /\ p.blast_radius_max_rows <= q.blast_radius_max_rows
  <2>1. CASE \E d \in Decision : /\ AtLeast(d, q.agent_writes)
                                 /\ p = [q EXCEPT !.agent_writes = d]
    BY <1>1, <2>1, RulesAssumption DEF Policy, AtLeast
  <2>2. CASE \E m \in Count : /\ q.blast_radius_max_rows = None \/ m <= q.blast_radius_max_rows
                              /\ p = [q EXCEPT !.blast_radius_max_rows = m]
    BY <1>1, <2>2, RulesAssumption DEF Policy, AtLeast
  <2>3. CASE p = [q EXCEPT !.agent_allow_ddl = FALSE]
    <3>1. p \in Policy
      BY <1>1, <2>3 DEF Policy
    <3>2. /\ p.agent_allow_ddl = FALSE
          /\ p.agent_writes = q.agent_writes /\ p.agent_allow_multi_statement = q.agent_allow_multi_statement
          /\ p.human_approve_writes = q.human_approve_writes /\ p.human_approve_ddl = q.human_approve_ddl
          /\ p.human_approve_unparseable = q.human_approve_unparseable /\ p.blast_radius_max_rows = q.blast_radius_max_rows
      BY <1>1, <2>3 DEF Policy
    <3> QED BY <1>1, <3>1, <3>2 DEF AtLeast
  <2>4. CASE p = [q EXCEPT !.agent_allow_multi_statement = FALSE]
    <3>1. p \in Policy
      BY <1>1, <2>4 DEF Policy
    <3>2. /\ p.agent_allow_multi_statement = FALSE
          /\ p.agent_writes = q.agent_writes /\ p.agent_allow_ddl = q.agent_allow_ddl
          /\ p.human_approve_writes = q.human_approve_writes /\ p.human_approve_ddl = q.human_approve_ddl
          /\ p.human_approve_unparseable = q.human_approve_unparseable /\ p.blast_radius_max_rows = q.blast_radius_max_rows
      BY <1>1, <2>4 DEF Policy
    <3> QED BY <1>1, <3>1, <3>2 DEF AtLeast
  <2>5. CASE p = [q EXCEPT !.human_approve_writes = TRUE]
    <3>1. p \in Policy
      BY <1>1, <2>5 DEF Policy
    <3>2. /\ p.human_approve_writes = TRUE
          /\ p.agent_writes = q.agent_writes /\ p.agent_allow_ddl = q.agent_allow_ddl
          /\ p.agent_allow_multi_statement = q.agent_allow_multi_statement /\ p.human_approve_ddl = q.human_approve_ddl
          /\ p.human_approve_unparseable = q.human_approve_unparseable /\ p.blast_radius_max_rows = q.blast_radius_max_rows
      BY <1>1, <2>5 DEF Policy
    <3> QED BY <1>1, <3>1, <3>2 DEF AtLeast
  <2>6. CASE p = [q EXCEPT !.human_approve_ddl = TRUE]
    <3>1. p \in Policy
      BY <1>1, <2>6 DEF Policy
    <3>2. /\ p.human_approve_ddl = TRUE
          /\ p.agent_writes = q.agent_writes /\ p.agent_allow_ddl = q.agent_allow_ddl
          /\ p.agent_allow_multi_statement = q.agent_allow_multi_statement /\ p.human_approve_writes = q.human_approve_writes
          /\ p.human_approve_unparseable = q.human_approve_unparseable /\ p.blast_radius_max_rows = q.blast_radius_max_rows
      BY <1>1, <2>6 DEF Policy
    <3> QED BY <1>1, <3>1, <3>2 DEF AtLeast
  <2>7. CASE p = [q EXCEPT !.human_approve_unparseable = TRUE]
    <3>1. p \in Policy
      BY <1>1, <2>7 DEF Policy
    <3>2. /\ p.human_approve_unparseable = TRUE
          /\ p.agent_writes = q.agent_writes /\ p.agent_allow_ddl = q.agent_allow_ddl
          /\ p.agent_allow_multi_statement = q.agent_allow_multi_statement /\ p.human_approve_writes = q.human_approve_writes
          /\ p.human_approve_ddl = q.human_approve_ddl /\ p.blast_radius_max_rows = q.blast_radius_max_rows
      BY <1>1, <2>7 DEF Policy
    <3> QED BY <1>1, <3>1, <3>2 DEF AtLeast
  <2> QED BY <2>1, <2>2, <2>3, <2>4, <2>5, <2>6, <2>7 DEF Tightened
<1>3. /\ t \in RequestType
      /\ t.policy = p /\ t.agent = r.agent /\ t.read_only = r.read_only
      /\ t.class = r.class /\ t.effects = r.effects
      /\ t.unscoped = r.unscoped /\ t.multi = r.multi
  BY <1>2 DEF RequestType
<1>4. OverLimit(r, n) => OverLimit(t, n)
  BY <1>1, <1>2, <1>3, RulesAssumption DEF OverLimit, Policy
<1> HIDE DEF t
<1>5. Writes(t) = Writes(r) /\ Dangerous(t) = Dangerous(r)
  BY <1>3 DEF Writes, Dangerous
<1>6. AtLeast(Outcome(t, n), Outcome(r, n))
  <2>1. CASE r.agent
    BY <1>2, <1>3, <1>4, <1>5, <2>1 DEF Outcome, AgentDenied, AgentBarred, AtLeast
  <2>2. CASE ~r.agent
    BY <1>2, <1>3, <1>4, <1>5, <2>2 DEF Outcome, HumanAsked, AtLeast
  <2> QED BY <2>1, <2>2
<1>7. Evaluate(t, n) = Outcome(t, n) /\ Evaluate(r, n) = Outcome(r, n)
  BY <1>3, EvaluateIsOutcome
<1> QED BY <1>6, <1>7 DEF t

\* One more effect does not lead to a milder decision.
LEMMA MoreEffectsStricter ==
    ASSUME NEW r \in RequestType, NEW n, NEW e \in Effect
    PROVE  AtLeast(Evaluate([r EXCEPT !.effects = @ \cup {e}], n), Evaluate(r, n))
<1> DEFINE t == [r EXCEPT !.effects = @ \cup {e}]
<1>1. /\ t \in RequestType
      /\ t.policy = r.policy /\ t.agent = r.agent /\ t.read_only = r.read_only
      /\ t.class = r.class /\ t.effects = r.effects \cup {e}
      /\ t.unscoped = r.unscoped /\ t.multi = r.multi
  BY DEF RequestType
<1>2. r.policy.agent_writes \in Decision
  BY DEF RequestType, Policy
<1> HIDE DEF t
<1>3. /\ Writes(r) => Writes(t)
      /\ Dangerous(r) => Dangerous(t)
      /\ OverLimit(r, n) => OverLimit(t, n)
  BY <1>1 DEF Writes, Dangerous, OverLimit
<1>4. AtLeast(Outcome(t, n), Outcome(r, n))
  <2>1. CASE r.agent
    BY <1>1, <1>2, <1>3, <2>1 DEF Outcome, AgentDenied, AgentBarred, AtLeast, Decision
  <2>2. CASE ~r.agent
    BY <1>1, <1>3, <2>2 DEF Outcome, HumanAsked, AtLeast
  <2> QED BY <2>1, <2>2
<1>5. Evaluate(t, n) = Outcome(t, n) /\ Evaluate(r, n) = Outcome(r, n)
  BY <1>1, EvaluateIsOutcome
<1> QED BY <1>4, <1>5 DEF t

-----------------------------------------------------------------------------
(* The guard's two stages.                                                 *)

\* A decision is that of all rules for the count the guard holds.
StageInv ==
    /\ TypeOK
    /\ step = "classified" => rows = None
    /\ step = "eligible" => CategoricalDecisions(request) = {}
    /\ step = "decided" => decision = Evaluate(request, rows)

\* StageInv holds in every state (DecideCategorically, CountRows,
\* RefuseUncounted and DecideEligible preserve it).
THEOREM RulesInvariant == Spec => []StageInv
<1>1. Init => StageInv
  BY DEF Init, StageInv, TypeOK, Decision
<1>2. StageInv /\ [Next]_vars => StageInv'
  <2> SUFFICES ASSUME StageInv, [Next]_vars PROVE StageInv'
    OBVIOUS
  <2>0. request \in RequestType
    BY RulesAssumption DEF StageInv, TypeOK
  <2>1. CASE DecideCategorically
    BY <2>0, <2>1, DecisionType DEF DecideCategorically, StageInv, TypeOK
  <2>2. CASE CountRows
    BY <2>2 DEF CountRows, StageInv, TypeOK
  <2>3. CASE RefuseUncounted
    BY <2>3 DEF RefuseUncounted, StageInv, TypeOK
  <2>4. CASE DecideEligible
    <3>1. EvaluateEligibleWrite(request, rows) = Evaluate(request, rows)
      BY <2>0, <2>4, StagesAgree DEF DecideEligible, StageInv
    <3> QED BY <2>0, <2>4, <3>1, DecisionType DEF DecideEligible, StageInv, TypeOK
  <2>5. CASE UNCHANGED vars
    BY <2>5 DEF vars, StageInv, TypeOK, CategoricalDecisions
  <2> QED BY <2>1, <2>2, <2>3, <2>4, <2>5 DEF Next
<1> QED BY <1>1, <1>2, PTL DEF Spec

\* A reached state holds a classified request and a count or None.
LEMMA StageFacts ==
    StageInv => /\ request \in RequestType
                /\ Classified(request)
                /\ rows \in Nat \cup {None}
BY RulesAssumption DEF StageInv, TypeOK

\* The guard's variables keep their types; every decision is one of the three.
THEOREM RulesTypes == Spec => []TypeOK
<1>1. StageInv => TypeOK
  BY DEF StageInv
<1> QED BY <1>1, RulesInvariant, PTL

\* The staged decision of authorize_with_bound is never milder than evaluate
\* on all rules, whatever the true number of rows.
THEOREM RulesStages == Spec => []StagesLoseNothing
<1>1. StageInv => StagesLoseNothing
  BY StageFacts, UncountedStrictest, RulesAssumption DEF StageInv, StagesLoseNothing
<1> QED BY <1>1, RulesInvariant, PTL

\* No policy grants an agent an unparseable, administrative, dangerous,
\* read-only-violating or unscoped statement.
THEOREM RulesAgentLimits == Spec => []AgentLimits
<1>1. StageInv => AgentLimits
  <2> SUFFICES ASSUME StageInv, step = "decided", request.agent,
                      \/ request.class \in {"unparseable", "administrative"}
                      \/ Dangerous(request)
                      \/ Writes(request) /\ (request.read_only \/ request.unscoped)
               PROVE  decision = "deny"
    BY DEF AgentLimits
  <2>1. decision = Outcome(request, rows)
    BY StageFacts, EvaluateIsOutcome DEF StageInv
  <2> QED BY <2>1 DEF Outcome, AgentDenied, AgentBarred, Writes, Dangerous
<1> QED BY <1>1, RulesInvariant, PTL

\* The categorical rules never put an agent's statement to approval.
THEOREM RulesAskNobody == Spec => []CategoricalAsksNobody
<1>1. StageInv => CategoricalAsksNobody
  <2> SUFFICES ASSUME StageInv, step = "decided", request.agent,
                      CategoricalDecisions(request) # {}
               PROVE  decision # "approve"
    BY DEF CategoricalAsksNobody
  <2>1. decision = Outcome(request, rows)
    BY StageFacts, EvaluateIsOutcome DEF StageInv
  <2>2. CASE AgentDenied(request, rows)
    BY <2>1, <2>2 DEF Outcome
  <2>3. CASE ~AgentDenied(request, rows)
    <3>1. ~Writes(request)
      BY <2>3 DEF CategoricalDecisions, AgentWriteCategorical, When, AgentDenied, AgentBarred, Writes
    <3> QED BY <2>1, <2>3, <3>1 DEF Outcome
  <2> QED BY <2>2, <2>3
<1> QED BY <1>1, RulesInvariant, PTL

\* No knob of EnvPolicy works backwards: a tightened policy never gives the
\* same request a milder decision.
THEOREM RulesTightening == Spec => []TighteningHolds
<1>1. StageInv => TighteningHolds
  BY StageFacts, TighterIsStricter DEF StageInv, TighteningHolds
<1> QED BY <1>1, RulesInvariant, PTL

\* A statement with one more effect never gets a milder decision.
THEOREM RulesMoreEffects == Spec => []MoreEffectsHold
<1>1. StageInv => MoreEffectsHold
  BY StageFacts, MoreEffectsStricter DEF StageInv, MoreEffectsHold
<1> QED BY <1>1, RulesInvariant, PTL
=============================================================================
