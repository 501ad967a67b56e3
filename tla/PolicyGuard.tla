---------------------------- MODULE PolicyGuard ----------------------------
(***************************************************************************)
(* PolicyGuard of crates/policy/src/guard.rs and guard/: the one path from *)
(* a caller to a driver.  An operation is authorized, its intent is put in *)
(* the audit journal, the driver runs it and its outcome is put in the     *)
(* journal.  Two flags refuse later writes after something went wrong:     *)
(* one for the process, one for the connection generation (AuditState).    *)
(*                                                                         *)
(* The journal is the abstract one that AuditJournal implements: which     *)
(* intents and outcomes are on record, and a gate that admits one write    *)
(* per connection.  What the rules decide is a choice here; the module     *)
(* Rules says what the choice is.  What the driver reports is a choice     *)
(* among the answers the guard tells apart.                                *)
(***************************************************************************)
EXTENDS Naturals, FiniteSets

CONSTANTS
    Proc,       \* processes
    Gui,        \* the ones that run the GUI; the others run agentd
    Conn,       \* saved connections
    NilConn,    \* the nil connection id of process-wide operations
    Guard,      \* connection generations: one guard and one AuditState each
    ProcOf,     \* ProcOf[g]: the process that holds generation g
    ConnOf,     \* ConnOf[g]: the saved connection it belongs to, or NilConn for
                \* the stand-in under which a GUI runs process-wide operations
    Op,         \* operations, each run once
    GuardOf,    \* GuardOf[o]: the guard that runs operation o
    KindOf,     \* KindOf[o]: see Kind
    CallerOf    \* CallerOf[o]: see Caller

\* "exec" is a statement without effects sent through execute: it takes the
\* write path although the journal files it as a read.  "settings" is the
\* export or import of saved connections, which no guard sees.
Kind == {"read", "exec", "write", "commit", "rollback", "restore", "backup", "settings"}
\* "local" is a human on a Local or Dev connection, "unaudited" one whose
\* policy also sets human_allow_unaudited_writes.
Caller == {"agent", "human", "local", "unaudited"}

ASSUME GuardAssumption ==
    /\ Gui \subseteq Proc
    /\ ProcOf \in [Guard -> Proc]
    /\ NilConn \notin Conn
    /\ ConnOf \in [Guard -> Conn \cup {NilConn}]
    /\ \A g \in Guard : ConnOf[g] = NilConn => ProcOf[g] \in Gui
    /\ GuardOf \in [Op -> Guard]
    /\ KindOf \in [Op -> Kind]
    /\ \A o \in Op : KindOf[o] = "settings" <=> ConnOf[GuardOf[o]] = NilConn
    /\ CallerOf \in [Op -> Caller]

VARIABLES
    up,         \* up[p]: process p runs
    sink,       \* sink[p]: it could open the journal; else it has a NullAuditSink
    known,      \* known[p]: unresolved_connection_ids, read when p started
    disabled,   \* disabled[p]: AuditState::globally_disabled
    gen,        \* gen[g]: "absent" or "open"
    uncertain,  \* uncertain[g]: AuditState::connection_uncertain
    pc,         \* pc[o]: where the call is
    owed,       \* owed[o]: the terminal status the call is about to record
    intents,    \* operations whose intent is on record
    outcome,    \* outcome[o]: the terminal status on record, or "none"
    exposed,    \* writes that may have, or may yet take, an effect nobody knows
    delivered   \* reads whose rows were handed to the caller

lifeVars == <<up, sink, known, gen>>
lockVars == <<disabled, uncertain>>
journalVars == <<intents, outcome>>
vars == <<up, sink, known, disabled, gen, uncertain, pc, owed, intents, outcome, exposed, delivered>>

\* "cancelled" stands for Cancelled and TimedOut.
Status == {"none", "denied", "succeeded", "failed", "cancelled", "unknown"}

\* "detached": the caller is gone, an append it had started may still land.
\* "failed": the call ended with an error because the journal did not answer.
Active == {"estimating", "approving", "denying", "intending", "refusing", "running", "settling"}
Ended == {"refused", "done", "failed", "dropped", "crashed"}
PC == {"idle", "detached"} \cup Active \cup Ended

TypeOK ==
    /\ up \in [Proc -> BOOLEAN]
    /\ sink \in [Proc -> BOOLEAN]
    /\ known \in [Proc -> SUBSET Conn]
    /\ disabled \in [Proc -> BOOLEAN]
    /\ gen \in [Guard -> {"absent", "open"}]
    /\ uncertain \in [Guard -> BOOLEAN]
    /\ pc \in [Op -> PC]
    /\ owed \in [Op -> Status]
    /\ intents \subseteq Op
    /\ outcome \in [Op -> Status]
    /\ exposed \subseteq Op
    /\ delivered \subseteq Op

Init ==
    /\ up = [p \in Proc |-> FALSE]
    /\ sink = [p \in Proc |-> TRUE]
    /\ known = [p \in Proc |-> {}]
    /\ disabled = [p \in Proc |-> FALSE]
    /\ gen = [g \in Guard |-> "absent"]
    /\ uncertain = [g \in Guard |-> FALSE]
    /\ pc = [o \in Op |-> "idle"]
    /\ owed = [o \in Op |-> "none"]
    /\ intents = {}
    /\ outcome = [o \in Op |-> "none"]
    /\ exposed = {}
    /\ delivered = {}

-----------------------------------------------------------------------------
(* What the operations are to the journal.                                 *)

OpProc(o) == ProcOf[GuardOf[o]]
OpConn(o) == ConnOf[GuardOf[o]]
IsAgent(o) == CallerOf[o] = "agent"
IsSettings(o) == KindOf[o] = "settings"

\* AuditOperationClass::is_write, and reject_new_write_intent's exemption.
IsWrite(o) == KindOf[o] \notin {"read", "exec"}
Gated(o) == IsWrite(o) /\ KindOf[o] # "rollback"

Pending == {o \in intents : outcome[o] = "none"}
Unresolved == {o \in Op : IsWrite(o) /\ outcome[o] = "unknown"}

\* write_scope_blocks: the nil id is in everyone's way.
Overlaps(o, w) == OpConn(o) = OpConn(w) \/ NilConn \in {OpConn(o), OpConn(w)}

BlockedByUnresolved(o) == Gated(o) /\ \E u \in Unresolved : Overlaps(o, u)
\* Mutant: only the writes of the same generation count as in flight.
BlockedByPendingHere(o) == Gated(o) /\ \E w \in Pending : IsWrite(w) /\ GuardOf[w] = GuardOf[o]
BlockedByPending(o) == Gated(o) /\ \E w \in Pending : IsWrite(w) /\ Overlaps(o, w)
Blocked(o) == BlockedByUnresolved(o) \/ BlockedByPending(o)

\* AuditState::governed_writes_disabled.
Locked(g) == disabled[ProcOf[g]] \/ uncertain[g]

\* The paths that call require_governed_write_available before the intent.
ChecksLock(o) == KindOf[o] \in {"exec", "write", "commit"}

\* Only the write path may go on without an intent (handle_intent_failure).
MayRunUnaudited(o) == KindOf[o] \in {"exec", "write"} /\ CallerOf[o] = "unaudited"

\* prepare_governed_read: reads of a human on a Local or Dev connection.
SkipsIntent(o) == KindOf[o] = "read" /\ CallerOf[o] \in {"local", "unaudited"}

\* A PendingWrite is armed around the driver call and the outcome record; the
\* one of a restore only counts once work was dispatched.
Armed(o) ==
    \/ KindOf[o] \in {"exec", "write", "commit", "rollback"}
    \/ KindOf[o] = "restore" /\ (o \in exposed \/ owed[o] = "succeeded")

\* Kinds whose driver call changes the database from its first poll on.
ExposedByRunning(o) == KindOf[o] \in {"write", "commit", "rollback"}

-----------------------------------------------------------------------------
(* Processes and generations.                                              *)

\* Opening the journal recovers the pending intents when no other process
\* has it open; an opener that raced the exit of the last one does not.
Recovered(recovers) ==
    [o \in Op |-> IF recovers /\ o \in Pending THEN "unknown" ELSE outcome[o]]

\* unresolved_connection_ids and unresolved_global_write: the connections, the
\* nil id among them, of writes in doubt and of writes still pending.
InDoubt(oc) ==
    {OpConn(o) : o \in {w \in Op : IsWrite(w) /\ (oc[w] = "unknown" \/ (w \in intents /\ oc[w] = "none"))}}

\* AuditRuntime::from_journal and agentd's main.  A process-wide operation in
\* doubt disables the writes of a GUI and keeps agentd from starting.
StartProcess(p, recovers) ==
    /\ ~up[p]
    /\ recovers => \A q \in Proc : ~up[q]
    /\ outcome' = Recovered(recovers)
    /\ up' = [up EXCEPT ![p] = p \in Gui \/ NilConn \notin InDoubt(outcome')]
    /\ disabled' = [disabled EXCEPT ![p] = p \in Gui /\ NilConn \in InDoubt(outcome')]
    /\ known' = [known EXCEPT ![p] = IF p \in Gui THEN InDoubt(outcome') \cap Conn ELSE {}]
    /\ UNCHANGED <<sink, gen, uncertain, pc, owed, intents, exposed, delivered>>

\* AuditRuntime::unavailable: a GUI that cannot open the journal starts with
\* writes disabled; agentd does not start.
StartUnaudited(p) ==
    /\ ~up[p] /\ p \in Gui
    /\ up' = [up EXCEPT ![p] = TRUE]
    /\ sink' = [sink EXCEPT ![p] = FALSE]
    /\ disabled' = [disabled EXCEPT ![p] = TRUE]
    /\ UNCHANGED <<known, gen, uncertain, pc, owed, journalVars, exposed, delivered>>

\* DatabaseService::insert in the GUI, a new session in agentd.
OpenGuard(g) ==
    /\ up[ProcOf[g]]
    /\ gen[g] = "absent" /\ ConnOf[g] \in Conn
    /\ gen' = [gen EXCEPT ![g] = "open"]
    /\ uncertain' = [uncertain EXCEPT ![g] = ProcOf[g] \in Gui /\ ConnOf[g] \in known[ProcOf[g]]]
    /\ UNCHANGED <<up, sink, known, disabled, pc, owed, journalVars, exposed, delivered>>

\* swap_connection: the replacement starts clean, the old generation keeps
\* its calls and its flag.
Reconnect(old, g) ==
    /\ gen[old] = "open"
    /\ gen[g] = "absent"
    /\ ProcOf[g] = ProcOf[old] /\ ConnOf[g] = ConnOf[old]
    /\ gen' = [gen EXCEPT ![g] = "open"]
    /\ uncertain' = [uncertain EXCEPT ![g] = FALSE]
    /\ UNCHANGED <<up, sink, known, disabled, pc, owed, journalVars, exposed, delivered>>

\* The process dies: its flags go, its calls and detached appends go, what
\* the server was doing may still take effect.
Crash(p) ==
    /\ up[p]
    /\ up' = [up EXCEPT ![p] = FALSE]
    /\ sink' = [sink EXCEPT ![p] = TRUE]
    /\ known' = [known EXCEPT ![p] = {}]
    /\ disabled' = [disabled EXCEPT ![p] = FALSE]
    /\ gen' = [g \in Guard |-> IF ProcOf[g] = p THEN "absent" ELSE gen[g]]
    /\ uncertain' = [g \in Guard |-> uncertain[g] /\ ProcOf[g] # p]
    /\ pc' = [o \in Op |-> IF OpProc(o) = p /\ pc[o] # "idle" THEN "crashed" ELSE pc[o]]
    /\ UNCHANGED <<owed, journalVars, exposed, delivered>>

-----------------------------------------------------------------------------
(* Authorization.                                                          *)

Goto(o, l) == pc' = [pc EXCEPT ![o] = l]
Refuse(o, s) == Goto(o, "denying") /\ owed' = [owed EXCEPT ![o] = s]
\* What no step of the authorization touches.
authFrame == <<lifeVars, lockVars, journalVars, exposed, delivered>>

\* From Ok(Authorization) to the first await: the write path looks at the
\* flags again and returns PolicyDenied without a record.
AfterAllow(o) ==
    CASE SkipsIntent(o) -> "running"
      [] ChecksLock(o) /\ Locked(GuardOf[o]) -> "refused"
      [] OTHER -> "intending"

\* resolve_authorization up to its first await.
Resolve(o, decision) ==
    \/ decision = "allow" /\ Goto(o, AfterAllow(o)) /\ UNCHANGED owed
    \/ decision = "approve" /\ Goto(o, "approving") /\ UNCHANGED owed
    \/ decision = "deny" /\ Refuse(o, "denied")

Starts(o) == pc[o] = "idle" /\ gen[GuardOf[o]] = "open"

\* evaluate_categorical decides alone: no write effects, an unparseable
\* statement, a forbidden agent write, a dangerous human one.  It never asks
\* for the approval of an agent's statement, and the flags are not read.
AuthorizeCategorical(o) ==
    /\ Starts(o)
    /\ KindOf[o] \in {"read", "exec", "write"}
    /\ \E decision \in {"allow", "approve", "deny"} :
          /\ IsAgent(o) => decision # "approve"
          /\ Resolve(o, decision)
    /\ UNCHANGED authFrame

\* Mutant: an eligible write does not look at the flags.
AuthorizeEligibleBlind(o) ==
    /\ Starts(o)
    /\ KindOf[o] = "write"
    /\ Goto(o, "intending") /\ UNCHANGED owed
    /\ UNCHANGED authFrame

\* Any other write: refused by the flags, or counted first, or decided.
AuthorizeEligible(o) ==
    /\ Starts(o)
    /\ KindOf[o] = "write"
    /\ IF Locked(GuardOf[o])
       THEN Refuse(o, "denied")
       ELSE \/ Goto(o, "estimating") /\ UNCHANGED owed
            \/ \E decision \in {"allow", "approve", "deny"} : Resolve(o, decision)
    /\ UNCHANGED authFrame

\* The end of estimate_blast_radius; its own audit records may have failed.
AfterEstimate(o) ==
    /\ pc[o] = "estimating"
    /\ \/ \E decision \in {"allow", "approve", "deny"} : Resolve(o, decision)
       \/ Goto(o, "failed") /\ UNCHANGED owed
    /\ UNCHANGED authFrame

\* administrative_decision: a backup needs no approval and ignores the flags,
\* a restore is refused on a read-only or locked connection.
AuthorizeAdministrative(o) ==
    /\ Starts(o)
    /\ KindOf[o] \in {"restore", "backup"}
    /\ \E decision \in {"allow", "approve", "deny"} :
          /\ IsAgent(o) => decision = "deny"
          /\ KindOf[o] = "restore" /\ Locked(GuardOf[o]) => decision = "deny"
          /\ KindOf[o] = "restore" => decision # "allow"
          /\ KindOf[o] = "backup" /\ ~IsAgent(o) => decision = "allow"
          /\ Resolve(o, decision)
    /\ UNCHANGED authFrame

\* PolicyTransaction::commit and rollback are not authorized again.
EndTransaction(o) ==
    /\ Starts(o)
    /\ KindOf[o] \in {"commit", "rollback"}
    /\ Resolve(o, "allow")
    /\ UNCHANGED authFrame

ApprovalAnswered(o) ==
    /\ pc[o] = "approving"
    /\ \E decision \in {"allow", "deny"} : Resolve(o, decision)
    /\ UNCHANGED authFrame

\* Mutant: an interrupted approval is recorded as still pending.
ApprovalInterruptedPending(o) ==
    /\ pc[o] = "approving"
    /\ Refuse(o, "pending")
    /\ UNCHANGED authFrame

\* The operation is cancelled, or its deadline passes, before the answer.
ApprovalInterrupted(o) ==
    /\ pc[o] = "approving"
    /\ Refuse(o, "cancelled")
    /\ UNCHANGED authFrame

\* audit_administrative_action: no guard authorizes it, its intent comes first.
SettingsStarts(o) ==
    /\ pc[o] = "idle" /\ up[OpProc(o)]
    /\ IsSettings(o)
    /\ Goto(o, "intending")
    /\ UNCHANGED <<authFrame, owed>>

\* An outcome record.  An append that failed may have reached the file.
Append(o) == sink[OpProc(o)] /\ outcome' = [outcome EXCEPT ![o] = owed[o]]
AppendFails(o) == UNCHANGED outcome \/ Append(o)

\* The record of a refusal.
RecordRefusal(o) ==
    /\ pc[o] = "denying"
    /\ \/ Goto(o, "refused") /\ Append(o)
       \/ Goto(o, "failed") /\ AppendFails(o)
    /\ UNCHANGED <<lifeVars, lockVars, owed, intents, exposed, delivered>>

-----------------------------------------------------------------------------
(* The intent.                                                             *)

Run(o) ==
    /\ Goto(o, "running")
    /\ exposed' = IF ExposedByRunning(o) THEN exposed \cup {o} ELSE exposed

IntentRecorded(o) ==
    /\ pc[o] = "intending"
    /\ sink[OpProc(o)] /\ ~Blocked(o)
    /\ intents' = intents \cup {o}
    /\ Run(o)
    /\ UNCHANGED <<lifeVars, lockVars, owed, outcome, delivered>>

\* Mutant: every refusal of the gate locks the generation.
IntentRefusedLocks(o) ==
    /\ pc[o] = "intending" /\ ~IsSettings(o)
    /\ sink[OpProc(o)] /\ Blocked(o)
    /\ uncertain' = [uncertain EXCEPT ![GuardOf[o]] = TRUE]
    /\ Goto(o, "refusing")
    /\ owed' = [owed EXCEPT ![o] = "denied"]
    /\ UNCHANGED <<lifeVars, disabled, journalVars, exposed, delivered>>

\* The gate answers UnresolvedWrite or WriteInFlight; only the first locks.
IntentRefused(o) ==
    /\ pc[o] = "intending" /\ ~IsSettings(o)
    /\ sink[OpProc(o)] /\ Blocked(o)
    /\ uncertain' = [uncertain EXCEPT ![GuardOf[o]] = @ \/ BlockedByUnresolved(o)]
    /\ Goto(o, "refusing")
    /\ owed' = [owed EXCEPT ![o] = "denied"]
    /\ UNCHANGED <<lifeVars, disabled, journalVars, exposed, delivered>>

RecordRefusedIntent(o) ==
    /\ pc[o] = "refusing"
    /\ \/ Goto(o, "refused") /\ Append(o) /\ UNCHANGED disabled
       \/ /\ Goto(o, "failed") /\ AppendFails(o)
          /\ disabled' = [disabled EXCEPT ![OpProc(o)] = TRUE]
    /\ UNCHANGED <<lifeVars, uncertain, owed, intents, exposed, delivered>>

\* Mutant: a failed intent never stops the operation.
IntentFailsOpen(o) ==
    /\ pc[o] = "intending"
    /\ Run(o)
    /\ UNCHANGED <<lifeVars, lockVars, owed, journalVars, delivered>>

\* Any other error of the append.  The record may be on file all the same (a
\* failed sync, a missing newline), if the gate let it through.
IntentFails(o) ==
    /\ pc[o] = "intending" /\ ~IsSettings(o)
    /\ \/ UNCHANGED intents
       \/ sink[OpProc(o)] /\ ~Blocked(o) /\ intents' = intents \cup {o}
    /\ IF MayRunUnaudited(o) THEN Run(o) ELSE Goto(o, "failed") /\ UNCHANGED exposed
    /\ UNCHANGED <<lifeVars, lockVars, owed, outcome, delivered>>

\* audit_administrative_action takes every error of the append for a failure
\* of the journal, the gate's refusal included.
SettingsIntentFails(o) ==
    /\ pc[o] = "intending" /\ IsSettings(o)
    /\ \/ Goto(o, "refused") /\ sink[OpProc(o)] /\ Blocked(o) /\ UNCHANGED intents
       \/ Goto(o, "failed") /\ UNCHANGED intents
       \/ Goto(o, "failed") /\ sink[OpProc(o)] /\ ~Blocked(o) /\ intents' = intents \cup {o}
    /\ disabled' = [disabled EXCEPT ![OpProc(o)] = TRUE]
    /\ UNCHANGED <<lifeVars, uncertain, owed, outcome, exposed, delivered>>

-----------------------------------------------------------------------------
(* The driver call.                                                        *)

\* A restore sets its dispatched flag before it hands work to the server.
RestoreDispatches(o) ==
    /\ pc[o] = "running"
    /\ KindOf[o] = "restore"
    /\ o \notin exposed
    /\ exposed' = exposed \cup {o}
    /\ UNCHANGED <<lifeVars, lockVars, journalVars, pc, owed, delivered>>

\* The terminal statuses the guard derives from the driver's answer:
\* write_error_outcome, the transaction variants, resolve_restore_outcome.
\* A panic caught by caught_write is an unknown outcome; a read abandoned by
\* run_controlled is one too (controlled_error_terminal_status).
Answers(o) ==
    CASE KindOf[o] = "backup" -> {"succeeded", "failed", "cancelled"}
      [] KindOf[o] = "settings" -> {"succeeded", "failed"}
      [] KindOf[o] \in {"read", "exec", "write"} -> {"succeeded", "failed", "cancelled", "unknown"}
      [] KindOf[o] \in {"commit", "rollback"} -> {"succeeded", "failed", "unknown"}
      [] OTHER -> IF o \in exposed THEN {"succeeded", "unknown"} ELSE {"failed", "cancelled"}

\* Mutant: an ambiguous answer is recorded as a plain failure.
DriverReturnsPlain(o, s) ==
    /\ pc[o] = "running"
    /\ s \in Answers(o)
    /\ Goto(o, "settling")
    /\ owed' = [owed EXCEPT ![o] = IF s = "unknown" THEN "failed" ELSE s]
    /\ exposed' = IF s = "unknown" THEN exposed ELSE exposed \ {o}
    /\ UNCHANGED <<lifeVars, lockVars, journalVars, delivered>>

\* An answer that is not ambiguous says what happened on the server.  One that
\* is locks the generation, unless it is that of a read.
DriverReturns(o, s) ==
    /\ pc[o] = "running"
    /\ s \in Answers(o)
    /\ Goto(o, "settling")
    /\ owed' = [owed EXCEPT ![o] = s]
    /\ exposed' = IF s = "unknown" THEN exposed ELSE exposed \ {o}
    /\ uncertain' = [uncertain EXCEPT ![GuardOf[o]] = @ \/ (s = "unknown" /\ KindOf[o] # "read")]
    /\ UNCHANGED <<lifeVars, disabled, journalVars, delivered>>

-----------------------------------------------------------------------------
(* The outcome.                                                            *)

Deliver(o) ==
    delivered' = IF KindOf[o] = "read" /\ owed[o] = "succeeded" THEN delivered \cup {o} ELSE delivered

OutcomeRecorded(o) ==
    /\ pc[o] = "settling"
    /\ Append(o)
    /\ Goto(o, "done")
    /\ Deliver(o)
    /\ UNCHANGED <<lifeVars, lockVars, owed, intents, exposed>>

\* Mutant: the caller gets the rows although the outcome is not on record.
ReadOutcomeIgnored(o) ==
    /\ pc[o] = "settling"
    /\ KindOf[o] = "read"
    /\ AppendFails(o)
    /\ Goto(o, "done") /\ Deliver(o)
    /\ UNCHANGED <<lifeVars, lockVars, owed, intents, exposed>>

\* handle_read_audit_failure: only an agent loses the rows.
ReadOutcomeFails(o) ==
    /\ pc[o] = "settling"
    /\ KindOf[o] = "read"
    /\ AppendFails(o)
    /\ IF IsAgent(o) THEN Goto(o, "failed") /\ UNCHANGED delivered
                     ELSE Goto(o, "done") /\ Deliver(o)
    /\ UNCHANGED <<lifeVars, lockVars, owed, intents, exposed>>

\* handle_write_outcome_failure: the process stops writing, and the armed
\* PendingWrite that the early return drops locks the generation.
WriteOutcomeFails(o) ==
    /\ pc[o] = "settling"
    /\ KindOf[o] # "read"
    /\ AppendFails(o)
    /\ disabled' = [disabled EXCEPT ![OpProc(o)] = TRUE]
    /\ uncertain' = [uncertain EXCEPT ![GuardOf[o]] = @ \/ Armed(o)]
    /\ Goto(o, "failed")
    /\ UNCHANGED <<lifeVars, owed, intents, exposed, delivered>>

-----------------------------------------------------------------------------
(* A caller that drops its future.  The append it awaited runs on.         *)

\* Mutant: the drop guard is disarmed before the outcome is known.
DropCallerDisarmed(o) ==
    /\ pc[o] \in Active /\ ~IsSettings(o)
    /\ Goto(o, IF pc[o] \in {"denying", "intending", "refusing", "settling"} THEN "detached" ELSE "dropped")
    /\ UNCHANGED <<lifeVars, lockVars, journalVars, owed, exposed, delivered>>

DropCaller(o) ==
    /\ pc[o] \in Active /\ ~IsSettings(o)
    /\ Goto(o, IF pc[o] \in {"denying", "intending", "refusing", "settling"} THEN "detached" ELSE "dropped")
    /\ uncertain' = [uncertain EXCEPT ![GuardOf[o]] =
                        @ \/ (pc[o] \in {"running", "settling"} /\ Armed(o))]
    /\ UNCHANGED <<lifeVars, disabled, journalVars, owed, exposed, delivered>>

\* The detached append: an intent when nothing is owed, else an outcome.
DetachedEnds(o) ==
    /\ pc[o] = "detached"
    /\ Goto(o, "dropped")
    /\ \/ owed[o] = "none" /\ sink[OpProc(o)] /\ ~Blocked(o)
          /\ intents' = intents \cup {o} /\ UNCHANGED outcome
       \/ owed[o] # "none" /\ Append(o) /\ UNCHANGED intents
       \/ UNCHANGED journalVars
    /\ UNCHANGED <<lifeVars, lockVars, owed, exposed, delivered>>

-----------------------------------------------------------------------------
Lifecycle ==
    \/ \E p \in Proc :
          Crash(p) \/ StartUnaudited(p) \/ \E recovers \in BOOLEAN : StartProcess(p, recovers)
    \/ \E g \in Guard : OpenGuard(g) \/ \E old \in Guard : Reconnect(old, g)

Authorize(o) ==
    \/ AuthorizeCategorical(o) \/ AuthorizeEligible(o) \/ AuthorizeAdministrative(o)
    \/ EndTransaction(o) \/ SettingsStarts(o)
    \/ AfterEstimate(o) \/ ApprovalAnswered(o) \/ ApprovalInterrupted(o) \/ RecordRefusal(o)

Execute(o) ==
    \/ IntentRecorded(o) \/ IntentRefused(o) \/ RecordRefusedIntent(o) \/ IntentFails(o)
    \/ SettingsIntentFails(o) \/ RestoreDispatches(o)
    \/ \E s \in Status : DriverReturns(o, s)
    \/ OutcomeRecorded(o) \/ ReadOutcomeFails(o) \/ WriteOutcomeFails(o)

Next ==
    \/ Lifecycle
    \/ \E o \in Op : Authorize(o) \/ Execute(o) \/ DropCaller(o) \/ DetachedEnds(o)

Spec == Init /\ [][Next]_vars

-----------------------------------------------------------------------------
(* Properties.                                                             *)

\* No write reaches the driver before its intent is on record, except that of
\* a local human whose policy allows it (handle_intent_failure): whatever may
\* have happened to a database can be traced from the journal.
EffectsOnRecord == \A o \in exposed : o \in intents \/ MayRunUnaudited(o)

\* The journal never states how a write ended while that is still open on the
\* server (write_error_outcome, resolve_restore_outcome, recovery).
RecordTellsTruth == \A o \in exposed : outcome[o] \in {"none", "unknown"}

\* At most one recorded write per saved connection may have an open effect,
\* over all processes, generations, dropped calls and restarts: while one is
\* in doubt no later one is dispatched.
OneOpenWrite ==
    \A o, w \in exposed \cap intents :
        Gated(o) /\ Gated(w) /\ OpConn(o) = OpConn(w) => o = w

\* Once the call that exposed a write is over, its generation refuses writes,
\* whichever way the call ended (PendingWrite, disable_governed_writes).
OpenEffectLocks ==
    \A o \in exposed : pc[o] \in {"running", "crashed"} \/ uncertain[GuardOf[o]]

\* A call that was given up between its dispatch and its record: its caller
\* left, or the record of what it owed failed.
CutOff(o) ==
    \/ pc[o] = "failed" /\ owed[o] \notin {"none", "denied"}
    \/ pc[o] \in {"dropped", "detached"} /\ (o \in intents \/ MayRunUnaudited(o))

\* Writes are locked only for a cause.  A generation: a call of its own, not a
\* read, ended in doubt or was cut off, a write in its scope is on record as
\* unknown, or one of its connection was on record when the GUI started, which
\* includes the pending ones of other processes.  A write refused for one in
\* flight, a failed intent and a call dropped before its intent lock nothing.
\* A process: it could not open the journal, a record that was due failed, or
\* a process-wide operation was on record when it started, failed or was refused.
LockedForCause ==
    /\ \A g \in Guard : uncertain[g] =>
          \E o \in Op :
              \/ GuardOf[o] = g /\ KindOf[o] # "read" /\ (owed[o] = "unknown" \/ CutOff(o))
              \/ OpConn(o) \in {ConnOf[g], NilConn} /\ IsWrite(o) /\ outcome[o] = "unknown"
              \/ OpConn(o) = ConnOf[g] /\ IsWrite(o) /\ o \in intents /\ ConnOf[g] \in known[ProcOf[g]]
    /\ \A p \in Proc : disabled[p] =>
          \/ ~sink[p]
          \/ \E o \in Op :
                \/ OpProc(o) = p /\ KindOf[o] # "read" /\ pc[o] = "failed" /\ (owed[o] # "none" \/ IsSettings(o))
                \/ IsSettings(o) /\ \/ o \in intents \/ outcome[o] = "unknown"
                                    \/ OpProc(o) = p /\ pc[o] = "refused"

\* An agent sees the rows of a read only when both the intent and the outcome
\* of that read are on record (handle_read_audit_failure).
AgentReadsOnRecord ==
    \A o \in delivered : IsAgent(o) => o \in intents /\ outcome[o] = "succeeded"

\* A generation once locked stays locked while its process lives, and a call
\* that has not passed the check by then never gets to its intent, however
\* long an estimate or an approval took (require_governed_write_available).
LockdownStep ==
    /\ \A g \in Guard : Locked(g) /\ up'[ProcOf[g]] => Locked(g)'
    /\ \A o \in Op : ChecksLock(o) /\ Locked(GuardOf[o]) /\ pc[o] \in {"idle", "estimating", "approving"}
           => pc'[o] \notin {"intending", "running"}
\* Every step of the guards is such a step (require_governed_write_available).
LockdownHolds == [][LockdownStep]_vars

\* Every refused call left a terminal record (what the change log says of
\* lockdown refusals).  Does not hold: the check after an approval, and the
\* one of execute for a statement without effects, return without a record.
EveryRefusalRecorded == \A o \in Op : pc[o] = "refused" => outcome[o] # "none" \/ disabled[OpProc(o)]

-----------------------------------------------------------------------------
(* What it all amounts to: the guards implement GovernedWrites.            *)

WriteOp == {o \in Op : IsWrite(o)}
ClaimOf(o) ==
    IF o \notin intents THEN "free"
    ELSE IF outcome[o] = "none" THEN "held"
    ELSE IF outcome[o] = "unknown" THEN "stuck" ELSE "settled"

Abstract == INSTANCE GovernedWrites
    WITH Write <- WriteOp,
         Exclusive <- {o \in Op : Gated(o)},
         Scope <- [o \in WriteOp |-> OpConn(o)],
         Everything <- NilConn,
         claim <- [o \in WriteOp |-> ClaimOf(o)],
         open <- exposed \cap intents

\* The guards of all processes together keep the promise of GovernedWrites:
\* one claim per connection, effects only under a claim, no claim given back
\* while its effect is open.
KeepsPromise == Abstract!ClaimSpec
=============================================================================
