------------------------------ MODULE MCRules ------------------------------
(***************************************************************************)
(* Every combination of facts and knobs.  The knobs for the other kind of  *)
(* principal keep one value: no rule reads them.                           *)
(***************************************************************************)
EXTENDS Rules

CONSTANT Limit      \* the one row limit a policy may set

AgentPolicies == [agent_writes : Decision,
                         agent_allow_ddl : BOOLEAN,
                         agent_allow_multi_statement : BOOLEAN,
                         human_approve_writes : {TRUE},
                         human_approve_ddl : {TRUE},
                         human_approve_unparseable : {TRUE},
                         blast_radius_max_rows : {Limit, None}]
HumanPolicies == [agent_writes : {"deny"},
                  agent_allow_ddl : {FALSE},
                  agent_allow_multi_statement : {FALSE},
                  human_approve_writes : BOOLEAN,
                  human_approve_ddl : BOOLEAN,
                  human_approve_unparseable : BOOLEAN,
                  blast_radius_max_rows : {Limit, None}]

RequestsOf(isAgent, policies) ==
    {r \in [agent : {isAgent},
            read_only : BOOLEAN,
            class : {"unparseable", "administrative", "other"},
            effects : SUBSET Effect,
            unscoped : BOOLEAN,
            multi : BOOLEAN,
            policy : policies] : Classified(r)}

MCRequest == RequestsOf(TRUE, AgentPolicies) \cup RequestsOf(FALSE, HumanPolicies)
=============================================================================
