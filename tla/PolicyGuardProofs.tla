------------------------- MODULE PolicyGuardProofs -------------------------
(***************************************************************************)
(* Proofs about PolicyGuard for any processes, generations, connections    *)
(* and operations.  GuardInv is the inductive invariant: besides the       *)
(* properties themselves it says which part of its path a call is on, and  *)
(* that one exclusive write at most holds a connection in the journal.     *)
(***************************************************************************)
EXTENDS PolicyGuard, TLAPS

\* A generation is open only in a live process, and locked only while open; a
\* process is locked only while it lives.
LifeInv ==
    /\ \A g \in Guard : (gen[g] = "open" => up[ProcOf[g]]) /\ (uncertain[g] => gen[g] = "open")
    /\ \A p \in Proc : disabled[p] => up[p]

\* A call that is past its start and did not crash has its generation open, a
\* process-wide one its process alive.
CallInv ==
    \A o \in Op : pc[o] \notin {"idle", "crashed"} =>
        up[ProcOf[GuardOf[o]]] /\ (KindOf[o] = "settings" \/ gen[GuardOf[o]] = "open")

\* What is on record, owed and exposed at each stage of a call.
Before == {"idle", "estimating", "approving", "denying", "intending", "refusing", "refused"}
Unsettled == {"idle", "estimating", "approving", "denying", "intending", "refusing", "running", "settling", "detached"}
Stage(o) ==
    /\ pc[o] \in Before => o \notin intents /\ o \notin exposed
    /\ pc[o] \in Unsettled => outcome[o] = "none"
    /\ pc[o] \in {"idle", "estimating", "approving", "intending", "running"} => owed[o] = "none"
    /\ pc[o] \in {"denying", "refusing"} => owed[o] \in {"denied", "cancelled"}
    /\ pc[o] = "refusing" => KindOf[o] # "read"
    /\ pc[o] = "settling" => owed[o] \notin {"none", "denied"}
    /\ pc[o] = "detached" /\ owed[o] = "none" => o \notin intents /\ o \notin exposed
    /\ pc[o] \in {"running", "settling"} => o \in intents \/ SkipsIntent(o) \/ MayRunUnaudited(o)
    /\ o \in exposed => KindOf[o] \in {"write", "commit", "rollback", "restore"} /\ owed[o] \in {"none", "unknown"}
StageInv == \A o \in Op : Stage(o)

\* One exclusive write per connection at most is pending or unknown.
Holding(o) == o \in intents /\ outcome[o] \in {"none", "unknown"}
OneHolder ==
    \A o, w \in Op : Holding(o) /\ Holding(w) /\ Gated(o) /\ Gated(w) /\ OpConn(o) = OpConn(w) => o = w

GuardInv ==
    /\ TypeOK
    /\ LifeInv
    /\ CallInv
    /\ StageInv
    /\ EffectsOnRecord
    /\ RecordTellsTruth
    /\ OneHolder
    /\ OpenEffectLocks

-----------------------------------------------------------------------------
(* Authorization steps, in one form.                                       *)

\* A step of the authorization of o: it goes on without owing a record, or
\* to the record of a refusal.
AuthStep(o) ==
    /\ \/ pc[o] \in {"estimating", "approving"}
       \/ pc[o] = "idle" /\ gen[GuardOf[o]] = "open"
       \/ pc[o] = "idle" /\ KindOf[o] = "settings" /\ up[ProcOf[GuardOf[o]]]
    /\ \/ /\ \E l \in {"estimating", "approving", "intending", "running", "refused", "failed"} :
                pc' = [pc EXCEPT ![o] = l] /\ (l = "running" => SkipsIntent(o))
          /\ owed' = owed
       \/ \E s \in {"denied", "cancelled"} :
             pc' = [pc EXCEPT ![o] = "denying"] /\ owed' = [owed EXCEPT ![o] = s]
    /\ UNCHANGED authFrame

\* The part of the assumption that most steps need.
LEMMA GuardShapes == ProcOf \in [Guard -> Proc] /\ GuardOf \in [Op -> Guard]
BY GuardAssumption

\* Process-wide operations are the ones under the nil id.
LEMMA SettingsScope == \A o \in Op : KindOf[o] = "settings" <=> OpConn(o) = NilConn
BY GuardAssumption DEF OpConn

\* resolve_authorization moves a call as an AuthStep does.
LEMMA ResolveMoves ==
    ASSUME NEW o \in Op, NEW decision \in {"allow", "approve", "deny"}, Resolve(o, decision)
    PROVE  \/ /\ \E l \in {"estimating", "approving", "intending", "running", "refused", "failed"} :
                   pc' = [pc EXCEPT ![o] = l] /\ (l = "running" => SkipsIntent(o))
              /\ owed' = owed
           \/ \E s \in {"denied", "cancelled"} :
                pc' = [pc EXCEPT ![o] = "denying"] /\ owed' = [owed EXCEPT ![o] = s]
<1>1. AfterAllow(o) \in {"running", "refused", "intending"} /\ (AfterAllow(o) = "running" => SkipsIntent(o))
  BY DEF AfterAllow
<1>2. CASE decision = "allow"
  BY <1>1, <1>2 DEF Resolve, Goto
<1>3. CASE decision = "approve"
  BY <1>3 DEF Resolve, Goto
<1>4. CASE decision = "deny"
  BY <1>4 DEF Resolve, Goto, Refuse
<1> QED BY <1>2, <1>3, <1>4

\* Every authorization action other than the record of a refusal is one.
LEMMA AuthorizeMoves ==
    ASSUME NEW o \in Op,
           \/ AuthorizeCategorical(o) \/ AuthorizeEligible(o) \/ AuthorizeAdministrative(o)
           \/ EndTransaction(o) \/ SettingsStarts(o)
           \/ AfterEstimate(o) \/ ApprovalAnswered(o) \/ ApprovalInterrupted(o)
    PROVE  AuthStep(o)
<1>1. CASE AuthorizeCategorical(o)
  <2>1. PICK d \in {"allow", "approve", "deny"} : Resolve(o, d)
    BY <1>1 DEF AuthorizeCategorical
  <2> QED BY <1>1, <2>1, ResolveMoves DEF AuthorizeCategorical, Starts, AuthStep
<1>2. CASE AuthorizeEligible(o)
  <2>1. CASE Locked(GuardOf[o])
    BY <1>2, <2>1 DEF AuthorizeEligible, Starts, AuthStep, Refuse, Goto
  <2>2. CASE Goto(o, "estimating") /\ UNCHANGED owed
    BY <1>2, <2>2 DEF AuthorizeEligible, Starts, AuthStep, Goto
  <2>3. CASE \E d \in {"allow", "approve", "deny"} : Resolve(o, d)
    <3>1. PICK d \in {"allow", "approve", "deny"} : Resolve(o, d)
      BY <2>3
    <3> QED BY <1>2, <3>1, ResolveMoves DEF AuthorizeEligible, Starts, AuthStep
  <2> QED BY <1>2, <2>1, <2>2, <2>3 DEF AuthorizeEligible
<1>3. CASE AuthorizeAdministrative(o)
  <2>1. PICK d \in {"allow", "approve", "deny"} : Resolve(o, d)
    BY <1>3 DEF AuthorizeAdministrative
  <2> QED BY <1>3, <2>1, ResolveMoves DEF AuthorizeAdministrative, Starts, AuthStep
<1>4. CASE EndTransaction(o)
  BY <1>4, ResolveMoves DEF EndTransaction, Starts, AuthStep
<1>5. CASE AfterEstimate(o)
  <2>1. CASE Goto(o, "failed") /\ UNCHANGED owed
    BY <1>5, <2>1 DEF AfterEstimate, AuthStep, Goto
  <2>2. CASE \E d \in {"allow", "approve", "deny"} : Resolve(o, d)
    <3>1. PICK d \in {"allow", "approve", "deny"} : Resolve(o, d)
      BY <2>2
    <3> QED BY <1>5, <3>1, ResolveMoves DEF AfterEstimate, AuthStep
  <2> QED BY <1>5, <2>1, <2>2 DEF AfterEstimate
<1>6. CASE ApprovalAnswered(o)
  <2>1. PICK d \in {"allow", "approve", "deny"} : Resolve(o, d)
    BY <1>6 DEF ApprovalAnswered
  <2> QED BY <1>6, <2>1, ResolveMoves DEF ApprovalAnswered, AuthStep
<1>7. CASE ApprovalInterrupted(o)
  BY <1>7 DEF ApprovalInterrupted, Refuse, Goto, AuthStep
<1>8. CASE SettingsStarts(o)
  BY <1>8 DEF SettingsStarts, IsSettings, OpProc, Goto, AuthStep
<1> QED BY <1>1, <1>2, <1>3, <1>4, <1>5, <1>6, <1>7, <1>8

-----------------------------------------------------------------------------
(* Steps of one call.                                                      *)

\* A step that leaves the other calls' stage, records and debts alone keeps
\* StageInv if it does so for its own call.
LEMMA StageOfOne ==
    ASSUME StageInv, NEW o \in Op, Stage(o)',
           \A w \in Op : w # o =>
              /\ pc'[w] = pc[w] /\ owed'[w] = owed[w] /\ outcome'[w] = outcome[w]
              /\ w \in intents' <=> w \in intents
              /\ w \in exposed' <=> w \in exposed
    PROVE  StageInv'
<1> SUFFICES ASSUME NEW w \in Op, w # o PROVE Stage(w)'
  BY DEF StageInv
<1>1. Stage(w)  BY DEF StageInv
<1>2. SkipsIntent(w)' = SkipsIntent(w) /\ MayRunUnaudited(w)' = MayRunUnaudited(w)
  BY DEF SkipsIntent, MayRunUnaudited, IsWrite
<1> QED BY <1>1, <1>2 DEF Stage, Before, Unsettled

\* The conjuncts of the invariant a step of one call has to re-establish,
\* given the type of what it leaves behind.
LEMMA AuthStepInv ==
    ASSUME GuardInv, NEW o \in Op, AuthStep(o)
    PROVE  GuardInv'
<1> USE GuardShapes DEF GuardInv
<1>1. TypeOK'
  BY DEF TypeOK, AuthStep, authFrame, lifeVars, lockVars, journalVars, PC, Active, Ended, Status
<1>2. LifeInv' /\ OneHolder' /\ EffectsOnRecord' /\ RecordTellsTruth'
  BY DEF LifeInv, OneHolder, Holding, EffectsOnRecord, RecordTellsTruth, AuthStep, authFrame,
         lifeVars, lockVars, journalVars, Gated, IsWrite, OpConn, MayRunUnaudited
<1>3. CallInv'
  BY DEF TypeOK, LifeInv, CallInv, AuthStep, authFrame, lifeVars
<1>4. StageInv'
  BY DEF TypeOK, StageInv, Stage, Before, Unsettled, AuthStep, authFrame, journalVars, IsWrite,
         SkipsIntent, MayRunUnaudited
<1>5. OpenEffectLocks'
  BY DEF TypeOK, OpenEffectLocks, AuthStep, authFrame, lockVars, StageInv, Stage, Before
<1> QED BY <1>1, <1>2, <1>3, <1>4, <1>5

\* The record of a refusal concerns a call without an intent.
LEMMA RecordRefusalInv ==
    ASSUME GuardInv, NEW o \in Op, RecordRefusal(o)
    PROVE  GuardInv'
<1> USE GuardShapes DEF GuardInv
<1>1. TypeOK'
  BY DEF TypeOK, RecordRefusal, Append, AppendFails, Goto, PC, Active, Ended, Status, lifeVars, lockVars, journalVars
<1>2. LifeInv'
  BY DEF TypeOK, LifeInv, CallInv, RecordRefusal, Append, AppendFails, Goto, lifeVars, lockVars, journalVars
<1>3. CallInv'
  BY DEF TypeOK, CallInv, RecordRefusal, Append, AppendFails, Goto, lifeVars, lockVars, journalVars
<1>4. StageInv'
  BY DEF TypeOK, StageInv, Stage, Before, Unsettled, RecordRefusal, Append, AppendFails, Goto, lifeVars, lockVars,
         journalVars, IsWrite, SkipsIntent, MayRunUnaudited
<1>5. EffectsOnRecord'
  BY DEF TypeOK, EffectsOnRecord, StageInv, Stage, RecordRefusal, Append, AppendFails, Goto, lifeVars, lockVars,
         journalVars, MayRunUnaudited, SkipsIntent
<1>6. RecordTellsTruth'
  BY DEF TypeOK, RecordTellsTruth, StageInv, Stage, Before, Unsettled, RecordRefusal, Append, AppendFails, Goto,
         lifeVars, lockVars, journalVars
<1>7. OneHolder'
  BY DEF TypeOK, OneHolder, Holding, StageInv, Stage, Before, Unsettled, RecordRefusal, Append, AppendFails, Goto,
         lifeVars, lockVars, journalVars, Gated, IsWrite, OpConn
<1>8. OpenEffectLocks'
  BY DEF TypeOK, OpenEffectLocks, StageInv, Stage, Before, RecordRefusal, Append, AppendFails, Goto, lifeVars, lockVars,
         journalVars
<1> QED BY <1>1, <1>2, <1>3, <1>4, <1>5, <1>6, <1>7, <1>8

\* A refused intent leaves the journal as it is.
LEMMA IntentRefusedInv ==
    ASSUME GuardInv, NEW o \in Op, IntentRefused(o)
    PROVE  GuardInv'
<1> USE GuardShapes DEF GuardInv
<1>1. TypeOK'
  BY DEF TypeOK, IntentRefused, IsSettings, Goto, PC, Active, Ended, Status, lifeVars, lockVars, journalVars
<1>2. LifeInv'
  BY DEF TypeOK, LifeInv, CallInv, IntentRefused, IsSettings, Goto, lifeVars, lockVars, journalVars
<1>3. CallInv'
  BY DEF TypeOK, CallInv, IntentRefused, IsSettings, Goto, lifeVars, lockVars, journalVars
<1>4. StageInv'
  <2>1. /\ pc[o] = "intending" /\ pc' = [pc EXCEPT ![o] = "refusing"]
        /\ owed' = [owed EXCEPT ![o] = "denied"] /\ UNCHANGED <<intents, outcome, exposed>>
        /\ KindOf[o] # "read"
    BY DEF IntentRefused, Goto, journalVars, Blocked, BlockedByPending, BlockedByUnresolved, Gated, IsWrite
  <2>2. Stage(o)  BY DEF StageInv
  <2>3. Stage(o)'
    BY <2>1, <2>2 DEF TypeOK, Stage, Before, Unsettled
  <2> QED BY <2>1, <2>3, StageOfOne DEF TypeOK
<1>5. EffectsOnRecord'
  BY DEF TypeOK, EffectsOnRecord, StageInv, Stage, IntentRefused, IsSettings, Goto, lifeVars, lockVars,
         journalVars, MayRunUnaudited, SkipsIntent
<1>6. RecordTellsTruth'
  BY DEF TypeOK, RecordTellsTruth, StageInv, Stage, Before, Unsettled, IntentRefused, IsSettings, Goto,
         lifeVars, lockVars, journalVars
<1>7. OneHolder'
  BY DEF TypeOK, OneHolder, Holding, StageInv, Stage, Before, Unsettled, IntentRefused, IsSettings, Goto,
         lifeVars, lockVars, journalVars, Gated, IsWrite, OpConn
<1>8. OpenEffectLocks'
  BY DEF TypeOK, OpenEffectLocks, StageInv, Stage, Before, IntentRefused, IsSettings, Goto, lifeVars, lockVars,
         journalVars
<1> QED BY <1>1, <1>2, <1>3, <1>4, <1>5, <1>6, <1>7, <1>8

\* So does the record of that refusal, for the claims.
LEMMA RecordRefusedIntentInv ==
    ASSUME GuardInv, NEW o \in Op, RecordRefusedIntent(o)
    PROVE  GuardInv'
<1> USE GuardShapes DEF GuardInv
<1>1. TypeOK'
  <2>1. /\ \/ pc' = [pc EXCEPT ![o] = "refused"]
           \/ pc' = [pc EXCEPT ![o] = "failed"]
        /\ \/ outcome' = outcome
           \/ outcome' = [outcome EXCEPT ![o] = owed[o]]
        /\ \/ disabled' = disabled
           \/ disabled' = [disabled EXCEPT ![ProcOf[GuardOf[o]]] = TRUE]
        /\ UNCHANGED <<lifeVars, uncertain, owed, intents, exposed, delivered>>
    BY DEF RecordRefusedIntent, Append, AppendFails, Goto, OpProc
  <2>2. pc' \in [Op -> PC]
    <3>1. {"refused", "failed"} \subseteq PC
      BY DEF PC, Ended
    <3> QED BY <2>1, <3>1 DEF TypeOK
  <2>3. outcome' \in [Op -> Status]
    BY <2>1 DEF TypeOK
  <2>4. disabled' \in [Proc -> BOOLEAN]
    BY <2>1 DEF TypeOK
  <2> QED BY <2>1, <2>2, <2>3, <2>4 DEF TypeOK, lifeVars
<1>2. LifeInv'
  <2>1. /\ disabled' \in {disabled, [disabled EXCEPT ![ProcOf[GuardOf[o]]] = TRUE]}
        /\ UNCHANGED <<up, gen, uncertain>>
    BY DEF RecordRefusedIntent, OpProc, lifeVars
  <2>2. up[ProcOf[GuardOf[o]]]
    BY DEF CallInv, RecordRefusedIntent
  <2> QED BY <2>1, <2>2 DEF TypeOK, LifeInv
<1>3. CallInv'
  BY DEF TypeOK, CallInv, RecordRefusedIntent, Append, AppendFails, Goto, lifeVars, lockVars, journalVars
<1>4. StageInv'
  BY DEF TypeOK, StageInv, Stage, Before, Unsettled, RecordRefusedIntent, Append, AppendFails, Goto, lifeVars, lockVars,
         journalVars, IsWrite, SkipsIntent, MayRunUnaudited
<1>5. EffectsOnRecord'
  BY DEF TypeOK, EffectsOnRecord, StageInv, Stage, RecordRefusedIntent, Append, AppendFails, Goto, lifeVars, lockVars,
         journalVars, MayRunUnaudited, SkipsIntent
<1>6. RecordTellsTruth'
  BY DEF TypeOK, RecordTellsTruth, StageInv, Stage, Before, Unsettled, RecordRefusedIntent, Append, AppendFails, Goto,
         lifeVars, lockVars, journalVars
<1>7. OneHolder'
  BY DEF TypeOK, OneHolder, Holding, StageInv, Stage, Before, Unsettled, RecordRefusedIntent, Append, AppendFails, Goto,
         lifeVars, lockVars, journalVars, Gated, IsWrite, OpConn
<1>8. OpenEffectLocks'
  BY DEF TypeOK, OpenEffectLocks, StageInv, Stage, Before, RecordRefusedIntent, Append, AppendFails, Goto, lifeVars,
         lockVars, journalVars
<1> QED BY <1>1, <1>2, <1>3, <1>4, <1>5, <1>6, <1>7, <1>8

\* A restore that dispatches has its intent on record.
LEMMA RestoreDispatchesInv ==
    ASSUME GuardInv, NEW o \in Op, RestoreDispatches(o)
    PROVE  GuardInv'
<1> USE GuardShapes DEF GuardInv
<1>1. TypeOK'
  BY DEF TypeOK, RestoreDispatches, PC, Active, Ended, Status, lifeVars, lockVars, journalVars
<1>2. LifeInv'
  BY DEF TypeOK, LifeInv, CallInv, RestoreDispatches, lifeVars, lockVars, journalVars
<1>3. CallInv'
  BY DEF TypeOK, CallInv, RestoreDispatches, lifeVars, lockVars, journalVars
<1>4. StageInv'
  BY DEF TypeOK, StageInv, Stage, Before, Unsettled, RestoreDispatches, lifeVars, lockVars,
         journalVars, IsWrite, SkipsIntent, MayRunUnaudited
<1>5. EffectsOnRecord'
  BY DEF TypeOK, EffectsOnRecord, StageInv, Stage, RestoreDispatches, lifeVars, lockVars,
         journalVars, MayRunUnaudited, SkipsIntent
<1>6. RecordTellsTruth'
  BY DEF TypeOK, RecordTellsTruth, StageInv, Stage, Before, Unsettled, RestoreDispatches, lifeVars,
         lockVars, journalVars
<1>7. OneHolder'
  BY DEF TypeOK, OneHolder, Holding, StageInv, Stage, Before, Unsettled, RestoreDispatches,
         lifeVars, lockVars, journalVars, Gated, IsWrite, OpConn
<1>8. OpenEffectLocks'
  BY DEF TypeOK, OpenEffectLocks, StageInv, Stage, Before, RestoreDispatches, lifeVars, lockVars,
         journalVars
<1> QED BY <1>1, <1>2, <1>3, <1>4, <1>5, <1>6, <1>7, <1>8

\* An append of an outcome at the end of a call: the record is not definite
\* while the effect is open, and claims are only given back.
LEMMA OutcomePreserves ==
    ASSUME GuardInv, NEW o \in Op, pc[o] \in {"settling", "detached"}, owed[o] # "none",
           NEW l \in {"done", "failed", "dropped"}, pc' = [pc EXCEPT ![o] = l],
           \/ outcome' = outcome
           \/ outcome' = [outcome EXCEPT ![o] = owed[o]],
           UNCHANGED <<owed, intents, exposed>>
    PROVE  StageInv' /\ EffectsOnRecord' /\ RecordTellsTruth' /\ OneHolder'
<1> USE DEF GuardInv
<1>1. Stage(o)
  BY DEF StageInv
<1>2. \A w \in Op : w # o => pc'[w] = pc[w] /\ outcome'[w] = outcome[w]
  BY DEF TypeOK
<1>3. pc'[o] = l /\ outcome[o] = "none" /\ outcome'[o] \in {"none", owed[o]}
  BY <1>1 DEF TypeOK, Stage, Unsettled
<1>4. Stage(o)'
  BY <1>1, <1>3 DEF Stage, Before, Unsettled
<1>5. StageInv'
  BY <1>2, <1>4, StageOfOne
<1>6. EffectsOnRecord'
  BY DEF EffectsOnRecord, MayRunUnaudited
<1>7. RecordTellsTruth'
  BY <1>1, <1>2, <1>3 DEF RecordTellsTruth, Stage, TypeOK
<1>8. \A w \in Op : Holding(w)' => Holding(w)
  BY <1>2, <1>3 DEF Holding
<1>9. OneHolder'
  BY <1>8 DEF OneHolder, Gated, IsWrite, OpConn
<1> QED BY <1>5, <1>6, <1>7, <1>9

\* An intent that passed the gate: no exclusive write held the connection.
LEMMA GatePreserves ==
    ASSUME GuardInv, NEW o \in Op, outcome' = outcome,
           \/ intents' = intents
           \/ ~Blocked(o) /\ intents' = intents \cup {o}
    PROVE  OneHolder'
<1> USE DEF GuardInv
<1>1. CASE intents' = intents
  BY <1>1 DEF OneHolder, Holding, Gated, IsWrite, OpConn
<1>2. CASE ~Blocked(o) /\ intents' = intents \cup {o}
  <2>1. \A w \in Op : Holding(w) /\ Gated(o) /\ Gated(w) => OpConn(o) # OpConn(w)
    BY <1>2 DEF Holding, Blocked, BlockedByPending, BlockedByUnresolved, Pending, Unresolved,
       Overlaps, Gated, IsWrite
  <2>2. \A w \in Op : Holding(w)' => Holding(w) \/ w = o
    BY <1>2 DEF Holding
  <2>3. \A w \in Op : Gated(w)' = Gated(w) /\ OpConn(w)' = OpConn(w)
    BY DEF Gated, IsWrite, OpConn
  <2> QED BY <2>1, <2>2, <2>3 DEF OneHolder
<1> QED BY <1>1, <1>2

\* The outcome that goes on record is not definite while the effect is open.
LEMMA OutcomeRecordedInv ==
    ASSUME GuardInv, NEW o \in Op, OutcomeRecorded(o)
    PROVE  GuardInv'
<1> USE GuardShapes DEF GuardInv
<1>o. /\ pc[o] = "settling" /\ owed[o] # "none"
      /\ \E l \in {"done", "failed", "dropped"} : pc' = [pc EXCEPT ![o] = l]
      /\ \/ outcome' = outcome
         \/ outcome' = [outcome EXCEPT ![o] = owed[o]]
      /\ UNCHANGED <<owed, intents, exposed>>
  BY DEF OutcomeRecorded, Append, AppendFails, Goto, StageInv, Stage
<1>p. StageInv' /\ EffectsOnRecord' /\ RecordTellsTruth' /\ OneHolder'
  BY <1>o, OutcomePreserves
<1>1. TypeOK'
  BY DEF TypeOK, OutcomeRecorded, Append, AppendFails, Goto, Deliver, PC, Active, Ended, Status, lifeVars, lockVars,
         journalVars
<1>2. LifeInv'
  BY DEF TypeOK, LifeInv, CallInv, OutcomeRecorded, Append, AppendFails, Goto, Deliver, lifeVars, lockVars, journalVars
<1>3. CallInv'
  BY DEF TypeOK, CallInv, OutcomeRecorded, Append, AppendFails, Goto, Deliver, lifeVars, lockVars, journalVars
<1>8. OpenEffectLocks'
  BY DEF TypeOK, OpenEffectLocks, StageInv, Stage, Before, OutcomeRecorded, Append, AppendFails, Goto, Deliver,
         lifeVars, lockVars, journalVars
<1> QED BY <1>1, <1>2, <1>3, <1>p, <1>8

\* A failed outcome of a read.
LEMMA ReadOutcomeFailsInv ==
    ASSUME GuardInv, NEW o \in Op, ReadOutcomeFails(o)
    PROVE  GuardInv'
<1> USE GuardShapes DEF GuardInv
<1>o. /\ pc[o] = "settling" /\ owed[o] # "none"
      /\ \E l \in {"done", "failed", "dropped"} : pc' = [pc EXCEPT ![o] = l]
      /\ \/ outcome' = outcome
         \/ outcome' = [outcome EXCEPT ![o] = owed[o]]
      /\ UNCHANGED <<owed, intents, exposed>>
  BY DEF ReadOutcomeFails, Append, AppendFails, Goto, StageInv, Stage
<1>p. StageInv' /\ EffectsOnRecord' /\ RecordTellsTruth' /\ OneHolder'
  BY <1>o, OutcomePreserves
<1>1. TypeOK'
  BY DEF TypeOK, ReadOutcomeFails, Append, AppendFails, Goto, Deliver, PC, Active, Ended, Status, lifeVars, lockVars,
         journalVars
<1>2. LifeInv'
  BY DEF TypeOK, LifeInv, CallInv, ReadOutcomeFails, Append, AppendFails, Goto, Deliver, lifeVars, lockVars, journalVars
<1>3. CallInv'
  BY DEF TypeOK, CallInv, ReadOutcomeFails, Append, AppendFails, Goto, Deliver, lifeVars, lockVars, journalVars
<1>8. OpenEffectLocks'
  BY DEF TypeOK, OpenEffectLocks, StageInv, Stage, Before, ReadOutcomeFails, Append, AppendFails, Goto, Deliver,
         lifeVars, lockVars, journalVars
<1> QED BY <1>1, <1>2, <1>3, <1>p, <1>8

\* A failed outcome of a write locks its generation when the effect is open.
LEMMA WriteOutcomeFailsInv ==
    ASSUME GuardInv, NEW o \in Op, WriteOutcomeFails(o)
    PROVE  GuardInv'
<1> USE GuardShapes DEF GuardInv
<1>o. /\ pc[o] = "settling" /\ owed[o] # "none"
      /\ \E l \in {"done", "failed", "dropped"} : pc' = [pc EXCEPT ![o] = l]
      /\ \/ outcome' = outcome
         \/ outcome' = [outcome EXCEPT ![o] = owed[o]]
      /\ UNCHANGED <<owed, intents, exposed>>
  BY DEF WriteOutcomeFails, Append, AppendFails, Goto, StageInv, Stage
<1>p. StageInv' /\ EffectsOnRecord' /\ RecordTellsTruth' /\ OneHolder'
  BY <1>o, OutcomePreserves
<1>1. TypeOK'
  BY DEF TypeOK, WriteOutcomeFails, Append, AppendFails, Goto, PC, Active, Ended, Status, lifeVars, lockVars, journalVars
<1>2. LifeInv'
  <2>1. /\ disabled' = [disabled EXCEPT ![ProcOf[GuardOf[o]]] = TRUE]
        /\ uncertain' = [uncertain EXCEPT ![GuardOf[o]] = @ \/ Armed(o)]
        /\ UNCHANGED <<up, gen>>
    BY DEF WriteOutcomeFails, OpProc, lifeVars
  <2>2. up[ProcOf[GuardOf[o]]] /\ (Armed(o) => gen[GuardOf[o]] = "open")
    BY DEF CallInv, WriteOutcomeFails, Armed
  <2>3. \A g \in Guard : uncertain'[g] => uncertain[g] \/ (g = GuardOf[o] /\ Armed(o))
    BY <2>1 DEF TypeOK
  <2> QED BY <2>1, <2>2, <2>3 DEF TypeOK, LifeInv
<1>3. CallInv'
  BY DEF TypeOK, CallInv, WriteOutcomeFails, Append, AppendFails, Goto, lifeVars, lockVars, journalVars
<1>8. OpenEffectLocks'
  BY DEF TypeOK, OpenEffectLocks, StageInv, Stage, Before, WriteOutcomeFails, Append, AppendFails, Goto, lifeVars,
         lockVars, journalVars
<1> QED BY <1>1, <1>2, <1>3, <1>p, <1>8

\* A detached append is an intent of an unexposed call or an outcome.
LEMMA DetachedEndsInv ==
    ASSUME GuardInv, NEW o \in Op, DetachedEnds(o)
    PROVE  GuardInv'
<1> USE GuardShapes DEF GuardInv
<1>1. TypeOK'
  BY DEF TypeOK, DetachedEnds, Append, AppendFails, Goto, PC, Active, Ended, Status, lifeVars, lockVars, journalVars
<1>2. LifeInv'
  BY DEF TypeOK, LifeInv, CallInv, DetachedEnds, Append, AppendFails, Goto, lifeVars, lockVars, journalVars
<1>3. CallInv'
  BY DEF TypeOK, CallInv, DetachedEnds, Append, AppendFails, Goto, lifeVars, lockVars, journalVars
<1>4. ASSUME owed[o] # "none"
      PROVE  StageInv' /\ EffectsOnRecord' /\ RecordTellsTruth' /\ OneHolder'
  <2>1. /\ pc[o] = "detached" /\ pc' = [pc EXCEPT ![o] = "dropped"]
        /\ \/ outcome' = outcome
           \/ outcome' = [outcome EXCEPT ![o] = owed[o]]
        /\ UNCHANGED <<owed, intents, exposed>>
    BY <1>4 DEF DetachedEnds, Append, Goto, journalVars
  <2>2. UNCHANGED intents /\ UNCHANGED owed /\ UNCHANGED exposed
    BY <2>1
  <2> QED BY <1>4, <2>1, <2>2, OutcomePreserves
<1>5. ASSUME owed[o] = "none"
      PROVE  StageInv' /\ EffectsOnRecord' /\ RecordTellsTruth' /\ OneHolder'
  <2>1. /\ pc[o] = "detached" /\ pc' = [pc EXCEPT ![o] = "dropped"]
        /\ \/ intents' = intents
           \/ ~Blocked(o) /\ intents' = intents \cup {o}
        /\ UNCHANGED <<owed, outcome, exposed>>
    BY <1>5 DEF DetachedEnds, Append, Goto, journalVars
  <2>2. Stage(o)
    BY DEF StageInv
  <2>3. Stage(o)'
    BY <2>1, <2>2 DEF TypeOK, Stage, Before, Unsettled
  <2>4. StageInv'
    BY <2>1, <2>3, StageOfOne DEF TypeOK
  <2>5. EffectsOnRecord' /\ RecordTellsTruth'
    BY <2>1 DEF EffectsOnRecord, RecordTellsTruth, MayRunUnaudited
  <2>6. OneHolder'
    BY <2>1, GatePreserves
  <2> QED BY <2>4, <2>5, <2>6
<1>8. OpenEffectLocks'
  BY DEF TypeOK, OpenEffectLocks, StageInv, Stage, Before, DetachedEnds, Append, AppendFails, Goto, lifeVars, lockVars,
         journalVars
<1> QED BY <1>1, <1>2, <1>3, <1>4, <1>5, <1>8

\* The driver's answers are terminal statuses, never a denial.
LEMMA AnswerStatus ==
    ASSUME NEW o \in Op
    PROVE  Answers(o) \subseteq {"succeeded", "failed", "cancelled", "unknown"}
BY Zenon DEF Answers

\* Process-wide operations never end in doubt.
LEMMA SettingsAnswer ==
    ASSUME NEW o \in Op, KindOf[o] = "settings"
    PROVE  "unknown" \notin Answers(o)
<1>1. Answers(o) = {"succeeded", "failed"}
  BY Zenon DEF Answers
<1> QED BY <1>1

\* A recorded intent passed the gate, so no exclusive write held the connection.
LEMMA IntentRecordedInv ==
    ASSUME GuardInv, NEW o \in Op, IntentRecorded(o)
    PROVE  GuardInv'
<1> USE GuardShapes DEF GuardInv
<1>1. TypeOK'
  BY DEF TypeOK, IntentRecorded, Run, Goto, ExposedByRunning, PC, Active, Ended, Status, lifeVars, lockVars,
         journalVars
<1>2. LifeInv'
  BY DEF TypeOK, LifeInv, CallInv, IntentRecorded, Run, Goto, ExposedByRunning, lifeVars, lockVars,
         journalVars
<1>3. CallInv'
  BY DEF TypeOK, CallInv, IntentRecorded, Run, Goto, ExposedByRunning, lifeVars, lockVars, journalVars
<1>4. StageInv'
  <2>1. /\ pc[o] = "intending" /\ UNCHANGED <<owed, outcome>>
        /\ intents' = intents \cup {o} /\ pc' = [pc EXCEPT ![o] = "running"]
        /\ exposed' = exposed \/ (exposed' = exposed \cup {o} /\ ExposedByRunning(o))
    BY DEF IntentRecorded, Run, Goto
  <2>2. Stage(o)  BY DEF StageInv
  <2>3. Stage(o)'
    BY <2>1, <2>2 DEF TypeOK, Stage, Before, Unsettled, ExposedByRunning
  <2> QED BY <2>1, <2>3, StageOfOne DEF TypeOK
<1>5. EffectsOnRecord'
  BY DEF TypeOK, EffectsOnRecord, StageInv, Stage, IntentRecorded, Run, Goto, ExposedByRunning,
         lifeVars, lockVars,
         journalVars, MayRunUnaudited, SkipsIntent
<1>6. RecordTellsTruth'
  BY DEF TypeOK, RecordTellsTruth, StageInv, Stage, Before, Unsettled, IntentRecorded, Run, Goto,
         ExposedByRunning, lifeVars, lockVars, journalVars
<1>7. OneHolder'
  BY GatePreserves DEF IntentRecorded
<1>8. OpenEffectLocks'
  BY DEF TypeOK, OpenEffectLocks, StageInv, Stage, Before, IntentRecorded, Run, Goto,
         ExposedByRunning, lifeVars, lockVars, journalVars
<1> QED BY <1>1, <1>2, <1>3, <1>4, <1>5, <1>6, <1>7, <1>8

\* A failed intent that is on file all the same passed the gate too.
LEMMA IntentFailsInv ==
    ASSUME GuardInv, NEW o \in Op, IntentFails(o)
    PROVE  GuardInv'
<1> USE GuardShapes DEF GuardInv
<1>f. /\ pc[o] = "intending" /\ UNCHANGED <<owed, outcome, uncertain>>
      /\ intents' = intents \/ intents' = intents \cup {o}
      /\ \/ /\ MayRunUnaudited(o) /\ pc' = [pc EXCEPT ![o] = "running"]
            /\ exposed' = exposed \/ (exposed' = exposed \cup {o} /\ ExposedByRunning(o))
         \/ pc' = [pc EXCEPT ![o] = "failed"] /\ exposed' = exposed
  BY DEF IntentFails, Run, Goto, lockVars
<1>1. TypeOK'
  BY DEF TypeOK, IntentFails, Run, Goto, ExposedByRunning, Blocked, BlockedByPending,
         BlockedByUnresolved, Pending, Unresolved, PC, Active, Ended, Status, lifeVars, lockVars,
         journalVars
<1>2. LifeInv'
  BY DEF TypeOK, LifeInv, CallInv, IntentFails, Run, Goto, ExposedByRunning, Blocked,
         BlockedByPending, BlockedByUnresolved, Pending, Unresolved, lifeVars, lockVars,
         journalVars
<1>3. CallInv'
  BY DEF TypeOK, CallInv, IntentFails, Run, Goto, ExposedByRunning, Blocked, BlockedByPending,
         BlockedByUnresolved, Pending, Unresolved, lifeVars, lockVars, journalVars
<1>4. StageInv'
  <2>1. Stage(o)  BY DEF StageInv
  <2>2. Stage(o)'
    <3>1. CASE pc'[o] = "running"
      BY <1>f, <2>1, <3>1 DEF TypeOK, Stage, Before, Unsettled, ExposedByRunning, MayRunUnaudited
    <3>2. CASE pc'[o] = "failed"
      BY <1>f, <2>1, <3>2 DEF TypeOK, Stage, Before, Unsettled, ExposedByRunning
    <3> QED BY <1>f, <3>1, <3>2 DEF TypeOK
  <2> QED BY <1>f, <2>2, StageOfOne DEF TypeOK
<1>5. EffectsOnRecord'
  BY <1>f DEF EffectsOnRecord, MayRunUnaudited
<1>6. RecordTellsTruth'
  BY DEF TypeOK, RecordTellsTruth, StageInv, Stage, Before, Unsettled, IntentFails, Run, Goto,
         ExposedByRunning, Blocked, BlockedByPending, BlockedByUnresolved, Pending, Unresolved,
         lifeVars, lockVars, journalVars
<1>7. OneHolder'
  BY GatePreserves DEF IntentFails
<1>8. OpenEffectLocks'
  BY <1>f DEF TypeOK, OpenEffectLocks, StageInv, Stage, Before
<1> QED BY <1>1, <1>2, <1>3, <1>4, <1>5, <1>6, <1>7, <1>8

\* A failed intent of a process-wide operation, on file or not, exposes nothing.
LEMMA SettingsIntentFailsInv ==
    ASSUME GuardInv, NEW o \in Op, SettingsIntentFails(o)
    PROVE  GuardInv'
<1> USE GuardShapes DEF GuardInv
<1>1. /\ pc[o] = "intending" /\ KindOf[o] = "settings"
      /\ \/ pc' = [pc EXCEPT ![o] = "refused"] /\ intents' = intents
         \/ pc' = [pc EXCEPT ![o] = "failed"] /\ intents' = intents
         \/ pc' = [pc EXCEPT ![o] = "failed"] /\ ~Blocked(o) /\ intents' = intents \cup {o}
      /\ disabled' = [disabled EXCEPT ![ProcOf[GuardOf[o]]] = TRUE]
      /\ UNCHANGED <<up, sink, known, gen, uncertain, owed, outcome, exposed, delivered>>
  BY DEF SettingsIntentFails, IsSettings, OpProc, Goto, lifeVars
<1>2. TypeOK'
  BY <1>1 DEF TypeOK, PC, Active, Ended
<1>3. LifeInv' /\ CallInv'
  BY <1>1 DEF TypeOK, LifeInv, CallInv
<1>4. StageInv'
  <2>1. Stage(o)  BY DEF StageInv
  <2>2. Stage(o)'
    BY <1>1, <2>1 DEF TypeOK, Stage, Before, Unsettled, SkipsIntent, MayRunUnaudited
  <2> QED BY <1>1, <2>2, StageOfOne DEF TypeOK
<1>5. EffectsOnRecord' /\ RecordTellsTruth'
  BY <1>1 DEF EffectsOnRecord, RecordTellsTruth, MayRunUnaudited
<1>6. OneHolder'
  BY <1>1, GatePreserves
<1>7. OpenEffectLocks'
  BY <1>1 DEF TypeOK, OpenEffectLocks, StageInv, Stage
<1> QED BY <1>2, <1>3, <1>4, <1>5, <1>6, <1>7

\* An ambiguous answer locks the generation before anything else happens.
LEMMA DriverReturnsInv ==
    ASSUME GuardInv, NEW o \in Op, NEW s \in Status, DriverReturns(o, s)
    PROVE  GuardInv'
<1> USE GuardShapes DEF GuardInv
<1>1. TypeOK'
  BY DEF TypeOK, DriverReturns, Goto, PC, Active, Ended, Status, lifeVars, lockVars, journalVars
<1>2. LifeInv'
  BY SettingsAnswer DEF TypeOK, LifeInv, CallInv, DriverReturns, Goto, lifeVars, lockVars, journalVars
<1>3. CallInv'
  BY DEF TypeOK, CallInv, DriverReturns, Goto, lifeVars, lockVars, journalVars
<1>4. StageInv'
  <2>1. /\ pc[o] = "running" /\ pc' = [pc EXCEPT ![o] = "settling"]
        /\ owed' = [owed EXCEPT ![o] = s] /\ s \notin {"none", "denied"}
        /\ exposed' = IF s = "unknown" THEN exposed ELSE exposed \ {o}
        /\ intents' = intents /\ outcome' = outcome
    BY AnswerStatus DEF DriverReturns, Goto, journalVars
  <2>2. Stage(o)  BY DEF StageInv
  <2>3. Stage(o)'
    BY <2>1, <2>2 DEF TypeOK, Stage, Before, Unsettled, IsWrite, SkipsIntent, MayRunUnaudited
  <2> QED BY <2>1, <2>3, StageOfOne DEF TypeOK
<1>5. EffectsOnRecord'
  BY DEF TypeOK, EffectsOnRecord, StageInv, Stage, DriverReturns, Goto, lifeVars, lockVars,
         journalVars, MayRunUnaudited, SkipsIntent
<1>6. RecordTellsTruth'
  BY DEF TypeOK, RecordTellsTruth, StageInv, Stage, Before, Unsettled, DriverReturns, Goto,
         lifeVars, lockVars, journalVars
<1>7. OneHolder'
  BY DEF TypeOK, OneHolder, Holding, StageInv, Stage, Before, Unsettled, DriverReturns, Goto,
         lifeVars, lockVars, journalVars, Gated, IsWrite, OpConn
<1>8. OpenEffectLocks'
  BY DEF TypeOK, OpenEffectLocks, StageInv, Stage, Before, DriverReturns, Goto, lifeVars, lockVars,
         journalVars
<1> QED BY <1>1, <1>2, <1>3, <1>4, <1>5, <1>6, <1>7, <1>8

\* A dropped call that exposed its write locks its generation.
LEMMA DropCallerInv ==
    ASSUME GuardInv, NEW o \in Op, DropCaller(o)
    PROVE  GuardInv'
<1> USE GuardShapes DEF GuardInv
<1>1. TypeOK'
  BY DEF TypeOK, DropCaller, IsSettings, Goto, Active, Armed, ExposedByRunning, PC, Active, Ended, Status,
         lifeVars, lockVars, journalVars
<1>2. LifeInv'
  BY DEF TypeOK, LifeInv, CallInv, DropCaller, IsSettings, Goto, Active, Armed, ExposedByRunning, lifeVars,
         lockVars, journalVars
<1>3. CallInv'
  BY DEF TypeOK, CallInv, DropCaller, IsSettings, Goto, Active, Armed, ExposedByRunning, lifeVars, lockVars,
         journalVars
<1>4. StageInv'
  <2>1. /\ pc' = [pc EXCEPT ![o] = IF pc[o] \in {"denying", "intending", "refusing", "settling"}
                                     THEN "detached" ELSE "dropped"]
        /\ UNCHANGED <<owed, exposed, intents, outcome>>
    BY DEF DropCaller, IsSettings, Goto, journalVars
  <2>2. Stage(o)  BY DEF StageInv
  <2>3. Stage(o)'
    BY <2>1, <2>2 DEF TypeOK, Stage, Before, Unsettled, IsWrite, SkipsIntent, MayRunUnaudited
  <2> QED BY <2>1, <2>3, StageOfOne DEF TypeOK
<1>5. EffectsOnRecord'
  BY DEF TypeOK, EffectsOnRecord, StageInv, Stage, DropCaller, IsSettings, Goto, Active, Armed,
         ExposedByRunning, lifeVars, lockVars, journalVars, MayRunUnaudited, SkipsIntent
<1>6. RecordTellsTruth'
  BY DEF TypeOK, RecordTellsTruth, StageInv, Stage, Before, Unsettled, DropCaller, IsSettings, Goto, Active,
         Armed, ExposedByRunning, lifeVars, lockVars, journalVars
<1>7. OneHolder'
  BY DEF TypeOK, OneHolder, Holding, StageInv, Stage, Before, Unsettled, DropCaller, IsSettings, Goto, Active,
         Armed, ExposedByRunning, lifeVars, lockVars, journalVars, Gated, IsWrite, OpConn
<1>8. OpenEffectLocks'
  BY ZenonT(60) DEF TypeOK, OpenEffectLocks, StageInv, Stage, Before, DropCaller, IsSettings, Goto, Active, Armed,
         ExposedByRunning, lifeVars, lockVars, journalVars
<1> QED BY <1>1, <1>2, <1>3, <1>4, <1>5, <1>6, <1>7, <1>8

-----------------------------------------------------------------------------
(* Processes and generations.                                              *)

\* What a start leaves behind, in short.
LEMMA StartEffect ==
    ASSUME TypeOK, NEW p \in Proc, NEW recovers \in BOOLEAN, StartProcess(p, recovers)
    PROVE  /\ ~up[p] /\ (recovers => \A q \in Proc : ~up[q])
           /\ \A q \in Proc : q # p => up'[q] = up[q] /\ disabled'[q] = disabled[q] /\ known'[q] = known[q]
           /\ up'[p] \in BOOLEAN /\ disabled'[p] \in BOOLEAN /\ (disabled'[p] => up'[p])
           /\ known'[p] \subseteq Conn
           /\ \A o \in Op : outcome'[o] = IF recovers /\ o \in intents /\ outcome[o] = "none"
                                       THEN "unknown" ELSE outcome[o]
           /\ UNCHANGED <<sink, gen, uncertain, pc, owed, intents, exposed, delivered>>
<1> DEFINE D == InDoubt(outcome')
<1>1. /\ outcome' = Recovered(recovers)
      /\ up' = [up EXCEPT ![p] = p \in Gui \/ NilConn \notin D]
      /\ disabled' = [disabled EXCEPT ![p] = p \in Gui /\ NilConn \in D]
      /\ known' = [known EXCEPT ![p] = IF p \in Gui THEN D \cap Conn ELSE {}]
      /\ ~up[p] /\ (recovers => \A q \in Proc : ~up[q])
      /\ UNCHANGED <<sink, gen, uncertain, pc, owed, intents, exposed, delivered>>
  BY DEF StartProcess
<1> HIDE DEF D
<1>2. \A o \in Op : outcome'[o] = IF recovers /\ o \in intents /\ outcome[o] = "none"
                              THEN "unknown" ELSE outcome[o]
  BY <1>1 DEF Recovered, Pending
<1>3. /\ up'[p] = (p \in Gui \/ NilConn \notin D)
      /\ disabled'[p] = (p \in Gui /\ NilConn \in D)
      /\ known'[p] = IF p \in Gui THEN D \cap Conn ELSE {}
  BY <1>1 DEF TypeOK
<1>4. \A q \in Proc : q # p => up'[q] = up[q] /\ disabled'[q] = disabled[q] /\ known'[q] = known[q]
  BY <1>1 DEF TypeOK
<1>5. up'[p] \in BOOLEAN /\ disabled'[p] \in BOOLEAN /\ (disabled'[p] => up'[p])
  BY <1>3, Zenon
<1>6. known'[p] \subseteq Conn
  BY <1>3
<1> QED BY <1>1, <1>2, <1>4, <1>5, <1>6, Zenon

\* Recovery runs while every call that had begun has crashed, and turns pending into unknown.
LEMMA StartProcessInv ==
    ASSUME GuardInv, NEW p \in Proc, NEW recovers \in BOOLEAN, StartProcess(p, recovers)
    PROVE  GuardInv'
<1> USE GuardShapes DEF GuardInv
<1>s. /\ ~up[p] /\ (recovers => \A q \in Proc : ~up[q])
      /\ \A q \in Proc : q # p => up'[q] = up[q] /\ disabled'[q] = disabled[q] /\ known'[q] = known[q]
      /\ up'[p] \in BOOLEAN /\ disabled'[p] \in BOOLEAN /\ (disabled'[p] => up'[p])
      /\ known'[p] \subseteq Conn
      /\ \A o \in Op : outcome'[o] = IF recovers /\ o \in intents /\ outcome[o] = "none"
                                  THEN "unknown" ELSE outcome[o]
      /\ UNCHANGED <<sink, gen, uncertain, pc, owed, intents, exposed, delivered>>
  BY StartEffect
<1>a. \A o \in Op : recovers => pc[o] \in {"idle", "crashed"}
  BY <1>s DEF CallInv, TypeOK
<1>1. TypeOK'
  <2>1. up' \in [Proc -> BOOLEAN] /\ disabled' \in [Proc -> BOOLEAN] /\ known' \in [Proc -> SUBSET Conn]
    <3>1. /\ up' = [up EXCEPT ![p] = up'[p]] /\ disabled' = [disabled EXCEPT ![p] = disabled'[p]]
          /\ known' = [known EXCEPT ![p] = known'[p]]
      BY DEF StartProcess, TypeOK
    <3> QED BY <3>1, <1>s DEF TypeOK
  <2>2. outcome' \in [Op -> Status]
    BY DEF StartProcess, Recovered, TypeOK, Status
  <2> QED BY <2>1, <2>2, <1>s DEF TypeOK
<1>2. LifeInv'
  BY <1>s DEF TypeOK, LifeInv
<1>3. CallInv'
  <2>1. \A q \in Proc : up[q] => up'[q]
    BY <1>s
  <2> QED BY <1>s, <2>1 DEF CallInv
<1>4. StageInv'
  BY <1>a, <1>s DEF StageInv, Stage, Before, Unsettled, SkipsIntent, MayRunUnaudited
<1>5. EffectsOnRecord'
  BY <1>s DEF EffectsOnRecord, MayRunUnaudited
<1>6. RecordTellsTruth'
  BY <1>s DEF TypeOK, RecordTellsTruth
<1>7. OneHolder'
  BY <1>s DEF OneHolder, Holding, Gated, IsWrite, OpConn
<1>8. OpenEffectLocks'
  BY <1>s DEF OpenEffectLocks
<1> QED BY <1>1, <1>2, <1>3, <1>4, <1>5, <1>6, <1>7, <1>8

\* A start without the journal touches the process alone.
LEMMA StartUnauditedInv ==
    ASSUME GuardInv, NEW p \in Proc, StartUnaudited(p)
    PROVE  GuardInv'
<1> USE GuardShapes DEF GuardInv
<1>1. TypeOK' /\ LifeInv' /\ CallInv'
  BY DEF TypeOK, LifeInv, CallInv, StartUnaudited, journalVars
<1>2. StageInv'
  BY DEF StageInv, Stage, StartUnaudited, journalVars, SkipsIntent, MayRunUnaudited
<1>3. EffectsOnRecord' /\ RecordTellsTruth' /\ OpenEffectLocks'
  BY DEF EffectsOnRecord, RecordTellsTruth, OpenEffectLocks, StartUnaudited, journalVars, MayRunUnaudited
<1>4. OneHolder'
  BY DEF OneHolder, Holding, StartUnaudited, journalVars, Gated, IsWrite, OpConn
<1> QED BY <1>1, <1>2, <1>3, <1>4

\* A generation opens when no call of it is under way.
LEMMA OpenGuardInv ==
    ASSUME GuardInv, NEW g \in Guard, OpenGuard(g)
    PROVE  GuardInv'
<1> USE GuardShapes DEF GuardInv
<1>1. TypeOK'
  BY DEF TypeOK, OpenGuard, PC, Active, Ended, Status, lifeVars, lockVars, journalVars
<1>2. LifeInv'
  BY DEF TypeOK, LifeInv, CallInv, OpenGuard, lifeVars, lockVars, journalVars
<1>3. CallInv'
  BY DEF TypeOK, CallInv, OpenGuard, lifeVars, lockVars, journalVars
<1>4. StageInv'
  BY DEF TypeOK, StageInv, Stage, Before, Unsettled, OpenGuard, lifeVars, lockVars, journalVars,
         IsWrite, SkipsIntent, MayRunUnaudited
<1>5. EffectsOnRecord'
  BY DEF TypeOK, EffectsOnRecord, StageInv, Stage, OpenGuard, lifeVars, lockVars, journalVars,
         MayRunUnaudited, SkipsIntent
<1>6. RecordTellsTruth'
  BY DEF TypeOK, RecordTellsTruth, StageInv, Stage, Before, Unsettled, OpenGuard, lifeVars,
         lockVars, journalVars
<1>7. OneHolder'
  BY DEF TypeOK, OneHolder, Holding, StageInv, Stage, Before, Unsettled, OpenGuard, lifeVars,
         lockVars, journalVars, Gated, IsWrite, OpConn
<1>8. OpenEffectLocks'
  BY DEF TypeOK, OpenEffectLocks, CallInv, StageInv, Stage, Before, OpenGuard, journalVars
<1> QED BY <1>1, <1>2, <1>3, <1>4, <1>5, <1>6, <1>7, <1>8

\* So does a replacement.
LEMMA ReconnectInv ==
    ASSUME GuardInv, NEW old \in Guard, NEW g \in Guard, Reconnect(old, g)
    PROVE  GuardInv'
<1> USE GuardShapes DEF GuardInv
<1>1. TypeOK'
  BY DEF TypeOK, Reconnect, PC, Active, Ended, Status, lifeVars, lockVars, journalVars
<1>2. LifeInv'
  BY DEF TypeOK, LifeInv, CallInv, Reconnect, lifeVars, lockVars, journalVars
<1>3. CallInv'
  BY DEF TypeOK, CallInv, Reconnect, lifeVars, lockVars, journalVars
<1>4. StageInv'
  BY DEF TypeOK, StageInv, Stage, Before, Unsettled, Reconnect, lifeVars, lockVars, journalVars,
         IsWrite, SkipsIntent, MayRunUnaudited
<1>5. EffectsOnRecord'
  BY DEF TypeOK, EffectsOnRecord, StageInv, Stage, Reconnect, lifeVars, lockVars, journalVars,
         MayRunUnaudited, SkipsIntent
<1>6. RecordTellsTruth'
  BY DEF TypeOK, RecordTellsTruth, StageInv, Stage, Before, Unsettled, Reconnect, lifeVars,
         lockVars, journalVars
<1>7. OneHolder'
  BY DEF TypeOK, OneHolder, Holding, StageInv, Stage, Before, Unsettled, Reconnect, lifeVars,
         lockVars, journalVars, Gated, IsWrite, OpConn
<1>8. OpenEffectLocks'
  BY DEF TypeOK, OpenEffectLocks, CallInv, StageInv, Stage, Before, Reconnect, journalVars
<1> QED BY <1>1, <1>2, <1>3, <1>4, <1>5, <1>6, <1>7, <1>8

\* A crash forgets the flags and ends the calls of one process.
LEMMA CrashInv ==
    ASSUME GuardInv, NEW p \in Proc, Crash(p)
    PROVE  GuardInv'
<1> USE GuardShapes DEF GuardInv
<1>1. TypeOK'
  BY DEF TypeOK, Crash, OpProc, PC, Active, Ended, Status, lifeVars, lockVars, journalVars
<1>2. LifeInv'
  BY DEF TypeOK, LifeInv, CallInv, Crash, OpProc, lifeVars, lockVars, journalVars
<1>3. CallInv'
  BY DEF TypeOK, CallInv, Crash, OpProc, lifeVars, lockVars, journalVars
<1>4. StageInv'
  BY DEF TypeOK, StageInv, Stage, Before, Unsettled, Crash, OpProc, lifeVars, lockVars,
         journalVars, IsWrite, SkipsIntent, MayRunUnaudited
<1>5. EffectsOnRecord'
  BY DEF TypeOK, EffectsOnRecord, StageInv, Stage, Crash, OpProc, lifeVars, lockVars, journalVars,
         MayRunUnaudited, SkipsIntent
<1>6. RecordTellsTruth'
  BY DEF TypeOK, RecordTellsTruth, StageInv, Stage, Before, Unsettled, Crash, OpProc, lifeVars,
         lockVars, journalVars
<1>7. OneHolder'
  BY DEF TypeOK, OneHolder, Holding, StageInv, Stage, Before, Unsettled, Crash, OpProc, lifeVars,
         lockVars, journalVars, Gated, IsWrite, OpConn
<1>8. OpenEffectLocks'
  BY DEF TypeOK, OpenEffectLocks, StageInv, Stage, Before, Crash, OpProc, lifeVars, lockVars,
         journalVars
<1> QED BY <1>1, <1>2, <1>3, <1>4, <1>5, <1>6, <1>7, <1>8

\* Every step of the guards preserves the invariant.
LEMMA GuardInvNext ==
    ASSUME GuardInv, [Next]_vars
    PROVE  GuardInv'
<1>1. ASSUME NEW o \in Op, Authorize(o)
      PROVE  GuardInv'
  BY <1>1, AuthorizeMoves, AuthStepInv, RecordRefusalInv DEF Authorize
<1>2. ASSUME NEW o \in Op, Execute(o)
      PROVE  GuardInv'
  BY <1>2, IntentRecordedInv, IntentRefusedInv, RecordRefusedIntentInv, IntentFailsInv,
     SettingsIntentFailsInv, RestoreDispatchesInv, DriverReturnsInv, OutcomeRecordedInv, ReadOutcomeFailsInv,
     WriteOutcomeFailsInv DEF Execute
<1>3. CASE Lifecycle
  BY <1>3, CrashInv, StartProcessInv, StartUnauditedInv, OpenGuardInv, ReconnectInv DEF Lifecycle
<1>4. CASE UNCHANGED vars
  <2>1. TypeOK' /\ LifeInv' /\ CallInv'
    BY <1>4 DEF vars, GuardInv, TypeOK, LifeInv, CallInv
  <2>2. StageInv'
    BY <1>4 DEF vars, GuardInv, StageInv, Stage, IsWrite, SkipsIntent, MayRunUnaudited
  <2>3. EffectsOnRecord' /\ RecordTellsTruth' /\ OpenEffectLocks'
    BY <1>4 DEF vars, GuardInv, EffectsOnRecord, RecordTellsTruth, OpenEffectLocks, SkipsIntent,
       MayRunUnaudited
  <2>4. OneHolder'
    BY <1>4 DEF vars, GuardInv, OneHolder, Holding, IsWrite, Gated, OpConn
  <2> QED BY <2>1, <2>2, <2>3, <2>4 DEF GuardInv
<1> QED
  BY <1>1, <1>2, <1>3, <1>4, DropCallerInv, DetachedEndsInv DEF Next

\* GuardInv holds before any process has started.
LEMMA GuardInvInit == Init => GuardInv
<1> SUFFICES ASSUME Init PROVE GuardInv
  OBVIOUS
<1>1. TypeOK
  BY GuardAssumption DEF Init, TypeOK, PC, Status
<1>2. LifeInv /\ CallInv
  BY GuardAssumption DEF Init, LifeInv, CallInv
<1>3. StageInv
  BY DEF Init, StageInv, Stage, Before, Unsettled
<1>4. EffectsOnRecord /\ RecordTellsTruth /\ OneHolder /\ OpenEffectLocks
  BY GuardAssumption DEF Init, EffectsOnRecord, RecordTellsTruth, OneHolder, Holding, OpenEffectLocks
<1> QED BY <1>1, <1>2, <1>3, <1>4 DEF GuardInv

\* The inductive invariant holds in every state the guards can reach.
THEOREM GuardInvariant == Spec => []GuardInv
BY GuardInvInit, GuardInvNext, PTL DEF Spec

\* The variables keep their types, for any number of processes, generations
\* and operations.
THEOREM GuardTypes == Spec => []TypeOK
BY GuardInvariant, PTL DEF GuardInv

\* No write reaches the driver before its intent is on record, except a local
\* one whose policy allows it.
THEOREM GuardEffectsOnRecord == Spec => []EffectsOnRecord
BY GuardInvariant, PTL DEF GuardInv

\* The journal never states how a write ended while its effect is open.
THEOREM GuardRecordTellsTruth == Spec => []RecordTellsTruth
BY GuardInvariant, PTL DEF GuardInv

\* A write whose effect is open after its call ended has its generation locked.
THEOREM GuardOpenEffectLocks == Spec => []OpenEffectLocks
BY GuardInvariant, PTL DEF GuardInv

\* At most one recorded write per connection has an open effect, over all
\* processes, generations, dropped calls and restarts.
THEOREM GuardOneOpenWrite == Spec => []OneOpenWrite
<1>1. GuardInv => OneOpenWrite
  BY DEF GuardInv, TypeOK, RecordTellsTruth, OneHolder, Holding, OneOpenWrite
<1> QED BY <1>1, GuardInvariant, PTL

-----------------------------------------------------------------------------
(* The lockdown.                                                           *)

\* AfterAllow lets no call of a checked kind past a lock.
LEMMA AfterAllowChecks ==
    ASSUME NEW o \in Op, ChecksLock(o), Locked(GuardOf[o])
    PROVE  AfterAllow(o) = "refused"
<1>1. ~SkipsIntent(o)
  BY DEF ChecksLock, SkipsIntent
<1> QED BY <1>1, Zenon DEF AfterAllow

\* An authorization step takes a locked call of a checked kind nowhere near
\* its intent.
LEMMA AuthorizeChecks ==
    ASSUME TypeOK, NEW o \in Op, Authorize(o), ChecksLock(o), Locked(GuardOf[o]),
           pc[o] \in {"idle", "estimating", "approving"}
    PROVE  pc'[o] \notin {"intending", "running"}
<1>1. ASSUME NEW d \in {"allow", "approve", "deny"}, Resolve(o, d)
      PROVE  pc'[o] \in {"refused", "approving", "denying"}
  BY <1>1, AfterAllowChecks DEF Resolve, Refuse, Goto, TypeOK
<1>2. KindOf[o] \notin {"restore", "backup", "settings"}
  BY DEF ChecksLock
<1> QED
  BY <1>1, <1>2 DEF Authorize, AuthorizeCategorical, AuthorizeEligible, AuthorizeAdministrative,
     EndTransaction, SettingsStarts, IsSettings, AfterEstimate, ApprovalAnswered, ApprovalInterrupted,
     RecordRefusal, Refuse, Goto, TypeOK

\* No step that leaves the processes alone clears a flag or moves a call that
\* is not being authorized back to its intent.
LEMMA CallsKeepLocks ==
    ASSUME GuardInv, NEW o \in Op, Authorize(o) \/ Execute(o) \/ DropCaller(o) \/ DetachedEnds(o)
    PROVE  /\ \A g \in Guard : Locked(g) => Locked(g)'
           /\ \A w \in Op : pc[w] \in {"idle", "estimating", "approving"} /\ ~Authorize(o)
                 => pc'[w] \notin {"intending", "running"}
           /\ \A w \in Op : w # o => pc'[w] = pc[w]
<1> USE GuardShapes DEF GuardInv, TypeOK
<1>1. CASE Authorize(o) /\ ~RecordRefusal(o)
  <2>1. AuthStep(o)
    BY <1>1, AuthorizeMoves DEF Authorize
  <2> QED BY <1>1, <2>1 DEF AuthStep, authFrame, lockVars, Locked
<1>2. CASE RecordRefusal(o)
  BY <1>2 DEF RecordRefusal, Append, AppendFails, Goto, lockVars, Locked
<1>3. CASE IntentRecorded(o) \/ IntentRefused(o) \/ RecordRefusedIntent(o) \/ IntentFails(o)
  <2>1. /\ \E l \in PC : pc' = [pc EXCEPT ![o] = l]
        /\ pc[o] \in {"intending", "refusing"}
    BY <1>3 DEF IntentRecorded, IntentRefused, RecordRefusedIntent, IntentFails, Run, Goto, PC, Active, Ended
  <2>2. \A g \in Guard : Locked(g) => Locked(g)'
    BY <1>3 DEF IntentRecorded, IntentRefused, RecordRefusedIntent, IntentFails, lockVars, Locked
  <2> QED BY <2>1, <2>2
<1>4. CASE RestoreDispatches(o)
  BY <1>4 DEF RestoreDispatches, lockVars, Locked
<1>5. CASE \E s \in Status : DriverReturns(o, s)
  BY <1>5 DEF DriverReturns, Goto, Locked
<1>6. CASE OutcomeRecorded(o) \/ ReadOutcomeFails(o) \/ WriteOutcomeFails(o)
  BY <1>6 DEF OutcomeRecorded, ReadOutcomeFails, WriteOutcomeFails, Append, AppendFails, Goto, lockVars, Locked
<1>7. CASE DropCaller(o) \/ DetachedEnds(o)
  BY <1>7 DEF DropCaller, DetachedEnds, Goto, lockVars, Locked
<1>8. CASE SettingsIntentFails(o)
  BY <1>8 DEF SettingsIntentFails, Goto, Locked
<1> QED BY <1>1, <1>2, <1>3, <1>4, <1>5, <1>6, <1>7, <1>8 DEF Execute

\* Neither does a start, a reconnect or a crash, for the processes that live on.
LEMMA LifecycleKeepsLocks ==
    ASSUME GuardInv, Lifecycle
    PROVE  LockdownStep
<1> USE GuardShapes DEF GuardInv, TypeOK
<1>1. ASSUME NEW p \in Proc, Crash(p)
      PROVE  LockdownStep
  BY <1>1 DEF Crash, LockdownStep, Locked, OpProc
<1>2. ASSUME NEW p \in Proc, NEW recovers \in BOOLEAN, StartProcess(p, recovers)
      PROVE  LockdownStep
  <2>1. /\ ~up[p] /\ \A q \in Proc : q # p => disabled'[q] = disabled[q]
        /\ UNCHANGED <<uncertain, pc>>
    BY <1>2, StartEffect
  <2>2. \A g \in Guard : Locked(g) => Locked(g)'
    BY <2>1 DEF Locked, LifeInv
  <2> QED BY <2>1, <2>2 DEF LockdownStep
<1>3. ASSUME NEW g \in Guard, OpenGuard(g)
      PROVE  LockdownStep
  BY <1>3 DEF OpenGuard, LockdownStep, Locked, LifeInv
<1>4. ASSUME NEW old \in Guard, NEW g \in Guard, Reconnect(old, g)
      PROVE  LockdownStep
  BY <1>4 DEF Reconnect, LockdownStep, Locked, LifeInv
<1>5. ASSUME NEW p \in Proc, StartUnaudited(p)
      PROVE  LockdownStep
  BY <1>5 DEF StartUnaudited, LockdownStep, Locked
<1> QED BY <1>1, <1>2, <1>3, <1>4, <1>5 DEF Lifecycle

\* A locked generation stays locked while its process lives, and no call that
\* has yet to pass the check gets past it.
THEOREM GuardLockdown == Spec => LockdownHolds
<1>1. ASSUME GuardInv, Next
      PROVE  LockdownStep
  <2>1. ASSUME NEW o \in Op, Authorize(o) \/ Execute(o) \/ DropCaller(o) \/ DetachedEnds(o)
        PROVE  LockdownStep
    BY <1>1, <2>1, CallsKeepLocks, AuthorizeChecks DEF LockdownStep, GuardInv
  <2> QED BY <1>1, <2>1, LifecycleKeepsLocks DEF Next
<1>2. GuardInv /\ [Next]_vars => [LockdownStep]_vars
  BY <1>1
<1> QED BY <1>2, GuardInvariant, PTL DEF Spec, LockdownHolds

-----------------------------------------------------------------------------
(* What is on record stays on record.                                      *)

\* No intent goes, no outcome changes, and an unknown outcome that is owed
\* stays owed.
Grows ==
    /\ intents \subseteq intents'
    /\ \A o \in Op : outcome[o] # "none" => outcome'[o] = outcome[o]
    /\ \A o \in Op : owed[o] # "none" => owed'[o] = owed[o]
    /\ \A o \in Op : pc[o] \in {"done", "crashed"} => pc'[o] \in {"done", "crashed"}
    /\ \A o \in Op : up'[ProcOf[GuardOf[o]]] =>
          /\ pc[o] \in {"failed", "refused"} => pc'[o] = pc[o]
          /\ pc[o] \in {"dropped", "detached"} => pc'[o] \in {"dropped", "detached"}

\* Every step of the guards grows the record.
LEMMA NextGrows ==
    ASSUME GuardInv, [Next]_vars
    PROVE  Grows
<1> USE GuardShapes DEF GuardInv, TypeOK
<1>1. ASSUME NEW o \in Op, AuthStep(o)
      PROVE  Grows
  <2>1. /\ intents' = intents /\ outcome' = outcome
        /\ pc[o] \in {"idle", "estimating", "approving"}
        /\ \A w \in Op : w # o => pc'[w] = pc[w] /\ owed'[w] = owed[w]
    BY <1>1 DEF AuthStep, authFrame, journalVars
  <2>2. owed[o] = "none"  BY <2>1 DEF StageInv, Stage
  <2> QED BY <2>1, <2>2 DEF Grows
<1>2. ASSUME NEW o \in Op, RecordRefusal(o)
      PROVE  Grows
  <2>1. pc[o] = "denying" /\ intents' = intents /\ owed' = owed
    BY <1>2 DEF RecordRefusal
  <2>2. \A w \in Op : w # o => pc'[w] = pc[w] /\ outcome'[w] = outcome[w]
    BY <1>2 DEF RecordRefusal, Append, AppendFails, Goto
  <2>3. outcome[o] = "none"
    BY <2>1 DEF StageInv, Stage, Unsettled
  <2> QED BY <2>1, <2>2, <2>3 DEF Grows
<1>3. ASSUME NEW o \in Op, IntentRecorded(o) \/ IntentFails(o)
      PROVE  Grows
  <2>1. pc[o] = "intending" /\ intents \subseteq intents' /\ UNCHANGED <<owed, outcome>>
    BY <1>3 DEF IntentRecorded, IntentFails
  <2>2. \A w \in Op : w # o => pc'[w] = pc[w]
    BY <1>3 DEF IntentRecorded, IntentFails, Run, Goto
  <2> QED BY <2>1, <2>2 DEF Grows
<1>4. ASSUME NEW o \in Op, IntentRefused(o)
      PROVE  Grows
  BY <1>4 DEF IntentRefused, IsSettings, Goto, Grows, journalVars, StageInv, Stage
<1>5. ASSUME NEW o \in Op, RecordRefusedIntent(o)
      PROVE  Grows
  <2>1. pc[o] = "refusing" /\ intents' = intents /\ owed' = owed
    BY <1>5 DEF RecordRefusedIntent
  <2>2. \A w \in Op : w # o => pc'[w] = pc[w] /\ outcome'[w] = outcome[w]
    BY <1>5 DEF RecordRefusedIntent, Append, AppendFails, Goto
  <2>3. outcome[o] = "none"
    BY <2>1 DEF StageInv, Stage, Unsettled
  <2> QED BY <2>1, <2>2, <2>3 DEF Grows
<1>6. ASSUME NEW o \in Op, RestoreDispatches(o)
      PROVE  Grows
  BY <1>6 DEF RestoreDispatches, Grows, journalVars
<1>7. ASSUME NEW o \in Op, NEW s \in Status, DriverReturns(o, s)
      PROVE  Grows
  BY <1>7 DEF DriverReturns, Goto, Grows, journalVars, StageInv, Stage
<1>8. ASSUME NEW o \in Op, OutcomeRecorded(o) \/ ReadOutcomeFails(o) \/ WriteOutcomeFails(o)
      PROVE  Grows
  <2>1. pc[o] = "settling" /\ intents' = intents /\ owed' = owed
    BY <1>8 DEF OutcomeRecorded, ReadOutcomeFails, WriteOutcomeFails
  <2>2. \A w \in Op : w # o => pc'[w] = pc[w] /\ outcome'[w] = outcome[w]
    BY <1>8 DEF OutcomeRecorded, ReadOutcomeFails, WriteOutcomeFails, Append, AppendFails, Goto
  <2>3. outcome[o] = "none"
    BY <2>1 DEF StageInv, Stage, Unsettled
  <2> QED BY <2>1, <2>2, <2>3 DEF Grows
<1>9. ASSUME NEW o \in Op, DropCaller(o)
      PROVE  Grows
  BY <1>9 DEF DropCaller, Active, Goto, Grows, journalVars
<1>10. ASSUME NEW o \in Op, DetachedEnds(o)
       PROVE  Grows
  BY <1>10 DEF DetachedEnds, Append, AppendFails, Goto, Grows, journalVars, StageInv, Stage, Unsettled
<1>11. CASE Lifecycle
  <2>1. CASE \E p \in Proc : Crash(p)
    BY <2>1 DEF Crash, OpProc, Grows, journalVars
  <2>2. CASE \E p \in Proc, recovers \in BOOLEAN : StartProcess(p, recovers)
    <3>1. PICK p \in Proc, recovers \in BOOLEAN : StartProcess(p, recovers)
      BY <2>2
    <3>2. /\ UNCHANGED <<pc, owed, intents>>
          /\ \A o \in Op : outcome'[o] = IF recovers /\ o \in intents /\ outcome[o] = "none"
                                      THEN "unknown" ELSE outcome[o]
      BY <3>1, StartEffect
    <3> QED BY <3>2 DEF Grows
  <2>3. CASE \/ \E g \in Guard : OpenGuard(g)
             \/ \E old, g \in Guard : Reconnect(old, g)
    BY <2>3 DEF OpenGuard, Reconnect, Grows, journalVars
  <2>4. CASE \E p \in Proc : StartUnaudited(p)
    BY <2>4 DEF StartUnaudited, Grows, journalVars
  <2> QED BY <1>11, <2>1, <2>2, <2>3, <2>4 DEF Lifecycle
<1>12. CASE UNCHANGED vars
  BY <1>12 DEF vars, Grows
<1>13. ASSUME NEW o \in Op, Authorize(o)
       PROVE  Grows
  BY <1>13, <1>1, <1>2, AuthorizeMoves DEF Authorize
<1>15. ASSUME NEW o \in Op, SettingsIntentFails(o)
       PROVE  Grows
  <2>1. pc[o] = "intending" /\ intents \subseteq intents' /\ UNCHANGED <<owed, outcome>>
    BY <1>15 DEF SettingsIntentFails
  <2>2. \A w \in Op : w # o => pc'[w] = pc[w]
    BY <1>15 DEF SettingsIntentFails, Goto
  <2> QED BY <2>1, <2>2 DEF Grows
<1>14. ASSUME NEW o \in Op, Execute(o)
       PROVE  Grows
  BY <1>14, <1>3, <1>4, <1>5, <1>6, <1>7, <1>8, <1>15 DEF Execute
<1> QED BY <1>9, <1>10, <1>11, <1>12, <1>13, <1>14 DEF Next

-----------------------------------------------------------------------------
(* Reads of agents.                                                        *)

\* The rows of a read are handed over when its call ends, after its outcome.
DeliveredInv ==
    \A o \in delivered :
        /\ pc[o] \in {"done", "crashed"}
        /\ IsAgent(o) => o \in intents /\ outcome[o] = "succeeded"

\* Rows are handed over only by the end of a call whose outcome is recorded,
\* or that of a human.
LEMMA DeliveryIsRecorded ==
    ASSUME GuardInv, Next
    PROVE  \A o \in delivered' \ delivered :
               /\ pc'[o] = "done"
               /\ IsAgent(o) => o \in intents' /\ outcome'[o] = "succeeded"
<1> USE GuardShapes DEF GuardInv, TypeOK
<1>1. ASSUME NEW o \in Op, OutcomeRecorded(o)
      PROVE  \A w \in delivered' \ delivered :
               /\ pc'[w] = "done"
               /\ IsAgent(w) => w \in intents' /\ outcome'[w] = "succeeded"
  BY <1>1 DEF OutcomeRecorded, Append, Deliver, Goto, IsAgent, StageInv, Stage, SkipsIntent, MayRunUnaudited
<1>2. ASSUME NEW o \in Op, ReadOutcomeFails(o)
      PROVE  \A w \in delivered' \ delivered :
               /\ pc'[w] = "done"
               /\ IsAgent(w) => w \in intents' /\ outcome'[w] = "succeeded"
  <2>1. CASE IsAgent(o)
    BY <1>2, <2>1 DEF ReadOutcomeFails
  <2>2. CASE ~IsAgent(o)
    <3>1. pc'[o] = "done" /\ delivered' \subseteq delivered \cup {o}
      BY <1>2, <2>2 DEF ReadOutcomeFails, Deliver, Goto
    <3> QED BY <2>2, <3>1
  <2> QED BY <2>1, <2>2
<1>3. ASSUME NEW o \in Op, Authorize(o)
      PROVE  delivered' = delivered
  BY <1>3, AuthorizeMoves DEF Authorize, AuthStep, authFrame, RecordRefusal
<1>4. ASSUME NEW o \in Op, Execute(o), ~OutcomeRecorded(o), ~ReadOutcomeFails(o)
      PROVE  delivered' = delivered
  BY <1>4 DEF Execute, IntentRecorded, IntentRefused, RecordRefusedIntent, IntentFails,
     SettingsIntentFails, RestoreDispatches, DriverReturns, WriteOutcomeFails
<1>5. ASSUME NEW o \in Op, DropCaller(o) \/ DetachedEnds(o)
      PROVE  delivered' = delivered
  BY <1>5 DEF DropCaller, DetachedEnds
<1>6. CASE Lifecycle
  BY <1>6 DEF Lifecycle, Crash, StartProcess, StartUnaudited, OpenGuard, Reconnect
<1> QED BY <1>1, <1>2, <1>3, <1>4, <1>5, <1>6 DEF Next

\* An agent sees the rows of a read only with the intent and the outcome of
\* that read on record.
THEOREM GuardAgentReads == Spec => []AgentReadsOnRecord
<1>1. Init => DeliveredInv
  BY DEF Init, DeliveredInv
<1>2. GuardInv /\ DeliveredInv /\ [Next]_vars => DeliveredInv'
  <2>1. CASE Next
    <3> SUFFICES ASSUME GuardInv, DeliveredInv, NEW o \in delivered'
                 PROVE  /\ pc'[o] \in {"done", "crashed"}
                        /\ CallerOf[o] = "agent" => o \in intents' /\ outcome'[o] = "succeeded"
      BY DEF DeliveredInv, IsAgent
    <3>1. CASE o \in delivered
      <4>1. o \in Op /\ Grows
        BY <2>1, <3>1, NextGrows DEF GuardInv, TypeOK
      <4> QED BY <3>1, <4>1 DEF Grows, DeliveredInv, IsAgent
    <3>2. CASE o \notin delivered
      BY <2>1, <3>2, DeliveryIsRecorded DEF IsAgent
    <3> QED BY <3>1, <3>2
  <2>2. CASE UNCHANGED vars
    BY <2>2 DEF vars, DeliveredInv, IsAgent
  <2> QED BY <2>1, <2>2
<1>3. DeliveredInv => AgentReadsOnRecord
  BY DEF DeliveredInv, AgentReadsOnRecord
<1> QED BY <1>1, <1>2, <1>3, GuardInvariant, PTL DEF Spec

-----------------------------------------------------------------------------
(* Locks have a cause.                                                     *)

Cause(o, g) ==
    \/ GuardOf[o] = g /\ KindOf[o] # "read" /\ (owed[o] = "unknown" \/ CutOff(o))
    \/ OpConn(o) \in {ConnOf[g], NilConn} /\ IsWrite(o) /\ outcome[o] = "unknown"
    \/ OpConn(o) = ConnOf[g] /\ IsWrite(o) /\ o \in intents /\ ConnOf[g] \in known[ProcOf[g]]
CauseOn(g) == \E o \in Op : Cause(o, g)

\* Why a process may be locked as a whole.
DisabledBy(o, p) ==
    \/ OpProc(o) = p /\ KindOf[o] # "read" /\ pc[o] = "failed" /\ (owed[o] # "none" \/ IsSettings(o))
    \/ IsSettings(o) /\ \/ o \in intents \/ outcome[o] = "unknown"
                        \/ OpProc(o) = p /\ pc[o] = "refused"
DisabledCause(p) == ~sink[p] \/ \E o \in Op : DisabledBy(o, p)

\* What a process noted as unresolved when it started is a write on record.
Noted(c) ==
    \E o \in Op : OpConn(o) = c /\ IsWrite(o) /\ (o \in intents \/ outcome[o] = "unknown")
KnownInv == \A p \in Proc : \A c \in known[p] : Noted(c)

\* The list of a live process stays as it was read at the start, and so does
\* what the process could open.
LEMMA ListStays ==
    ASSUME GuardInv, Next, NEW p \in Proc, up[p], up'[p]
    PROVE  known'[p] = known[p] /\ sink'[p] = sink[p]
<1> USE GuardShapes DEF GuardInv, TypeOK
<1>1. ASSUME NEW q \in Proc, NEW recovers \in BOOLEAN, StartProcess(q, recovers)
      PROVE  known'[p] = known[p] /\ sink'[p] = sink[p]
  BY <1>1, StartEffect
<1>2. ASSUME NEW q \in Proc, Crash(q) \/ StartUnaudited(q)
      PROVE  known'[p] = known[p] /\ sink'[p] = sink[p]
  BY <1>2 DEF Crash, StartUnaudited
<1>3. ASSUME NEW h \in Guard, NEW old \in Guard, OpenGuard(h) \/ Reconnect(old, h)
      PROVE  known'[p] = known[p] /\ sink'[p] = sink[p]
  BY <1>3 DEF OpenGuard, Reconnect
<1>4. ASSUME NEW o \in Op, Authorize(o) \/ Execute(o) \/ DropCaller(o) \/ DetachedEnds(o)
      PROVE  lifeVars' = lifeVars
  BY <1>4, AuthorizeMoves DEF Authorize, AuthStep, authFrame, RecordRefusal, Execute, IntentRecorded,
     IntentRefused, RecordRefusedIntent, IntentFails, SettingsIntentFails, RestoreDispatches,
     DriverReturns, OutcomeRecorded, ReadOutcomeFails, WriteOutcomeFails, DropCaller, DetachedEnds
<1> QED BY <1>1, <1>2, <1>3, <1>4 DEF Next, Lifecycle, lifeVars

\* The cause of a lock does not go away while the lock is there.
LEMMA CauseStays ==
    ASSUME GuardInv, Next, NEW g \in Guard, uncertain[g], uncertain'[g], GuardInv', CauseOn(g)
    PROVE  CauseOn(g)'
<1>1. PICK o \in Op : Cause(o, g)
  BY DEF CauseOn
<1>2. Grows
  BY NextGrows
<1>3. up[ProcOf[g]] /\ up'[ProcOf[g]] /\ ProcOf[g] \in Proc
  BY GuardAssumption DEF GuardInv, LifeInv
<1>4. known'[ProcOf[g]] = known[ProcOf[g]]
  BY <1>3, ListStays
<1>5. CASE GuardOf[o] = g /\ KindOf[o] # "read" /\ (owed[o] = "unknown" \/ CutOff(o))
  <2>1. owed'[o] = "unknown" \/ CutOff(o)'
    BY <1>2, <1>3, <1>5 DEF Grows, CutOff, MayRunUnaudited
  <2> QED BY <1>5, <2>1 DEF CauseOn, Cause
<1>6. CASE OpConn(o) \in {ConnOf[g], NilConn} /\ IsWrite(o) /\ outcome[o] = "unknown"
  <2>1. outcome'[o] = "unknown"
    BY <1>2, <1>6 DEF Grows
  <2> QED BY <1>6, <2>1 DEF CauseOn, Cause, OpConn, IsWrite
<1>7. CASE OpConn(o) = ConnOf[g] /\ IsWrite(o) /\ o \in intents /\ ConnOf[g] \in known[ProcOf[g]]
  <2>1. o \in intents' /\ ConnOf[g] \in known'[ProcOf[g]]
    BY <1>2, <1>4, <1>7 DEF Grows
  <2> QED BY <1>7, <2>1 DEF CauseOn, Cause, OpConn, IsWrite
<1> QED BY <1>1, <1>5, <1>6, <1>7 DEF Cause

\* Neither does the cause of a process-wide one.
LEMMA DisabledCauseStays ==
    ASSUME GuardInv, Next, NEW p \in Proc, disabled[p], disabled'[p], GuardInv', DisabledCause(p)
    PROVE  DisabledCause(p)'
<1>1. up[p] /\ up'[p]
  BY DEF GuardInv, LifeInv
<1>2. Grows
  BY NextGrows
<1>3. CASE ~sink[p]
  BY <1>1, <1>3, ListStays DEF DisabledCause
<1>4. CASE \E o \in Op : DisabledBy(o, p)
  <2>1. PICK o \in Op : DisabledBy(o, p)
    BY <1>4
  <2>2. IsSettings(o)' = IsSettings(o) /\ OpProc(o)' = OpProc(o)
    BY DEF IsSettings, OpProc
  <2>3. /\ o \in intents => o \in intents'
        /\ outcome[o] = "unknown" => outcome'[o] = "unknown"
        /\ owed[o] # "none" => owed'[o] # "none"
        /\ OpProc(o) = p /\ pc[o] \in {"failed", "refused"} => pc'[o] = pc[o]
    BY <1>1, <1>2 DEF Grows, OpProc
  <2>4. DisabledBy(o, p)'
    BY <2>1, <2>2, <2>3 DEF DisabledBy
  <2> QED BY <2>4 DEF DisabledCause
<1> QED BY <1>3, <1>4 DEF DisabledCause

\* Whatever newly locks a generation has a cause.
LEMMA NewLockHasCause ==
    ASSUME GuardInv, KnownInv, Next, NEW g \in Guard, uncertain'[g], ~uncertain[g]
    PROVE  CauseOn(g)'
<1> USE GuardShapes DEF GuardInv, TypeOK
<1>1. ASSUME NEW o \in Op, IntentRefused(o)
      PROVE  CauseOn(g)'
  <2>1. g = GuardOf[o] /\ BlockedByUnresolved(o) /\ KindOf[o] # "settings"
    BY <1>1 DEF IntentRefused, IsSettings
  <2>2. PICK u \in Op : outcome[u] = "unknown" /\ IsWrite(u) /\ Overlaps(o, u)
    BY <2>1 DEF BlockedByUnresolved, Unresolved
  <2>3. OpConn(u) \in {ConnOf[g], NilConn}
    BY <2>1, <2>2, SettingsScope DEF Overlaps, OpConn
  <2>4. outcome'[u] = "unknown"
    BY <1>1, <2>2 DEF IntentRefused, journalVars
  <2> QED BY <2>2, <2>3, <2>4 DEF CauseOn, Cause, OpConn, IsWrite
<1>2. ASSUME NEW o \in Op, NEW s \in Status, DriverReturns(o, s)
      PROVE  CauseOn(g)'
  <2>1. g = GuardOf[o] /\ KindOf[o] # "read" /\ owed'[o] = "unknown"
    BY <1>2 DEF DriverReturns
  <2> QED BY <2>1 DEF CauseOn, Cause
<1>3. ASSUME NEW o \in Op, WriteOutcomeFails(o)
      PROVE  CauseOn(g)'
  <2>1. g = GuardOf[o] /\ KindOf[o] # "read" /\ pc'[o] = "failed" /\ pc[o] = "settling" /\ owed' = owed
    BY <1>3 DEF WriteOutcomeFails, Goto
  <2>2. owed'[o] \notin {"none", "denied"}
    BY <2>1 DEF StageInv, Stage
  <2> QED BY <2>1, <2>2 DEF CauseOn, Cause, CutOff
<1>4. ASSUME NEW o \in Op, DropCaller(o)
      PROVE  CauseOn(g)'
  <2>1. /\ g = GuardOf[o] /\ pc'[o] \in {"detached", "dropped"} /\ intents' = intents
        /\ pc[o] \in {"running", "settling"} /\ Armed(o)
    BY <1>4 DEF DropCaller, Goto, journalVars
  <2>2. KindOf[o] # "read"
    BY <2>1 DEF Armed
  <2>3. o \in intents \/ MayRunUnaudited(o)
    BY <2>1, <2>2 DEF StageInv, Stage, SkipsIntent
  <2> QED BY <2>1, <2>2, <2>3 DEF CauseOn, Cause, CutOff, MayRunUnaudited
<1>5. ASSUME NEW h \in Guard, OpenGuard(h)
      PROVE  CauseOn(g)'
  <2>1. g = h /\ ConnOf[g] \in known[ProcOf[g]] /\ known' = known /\ intents' = intents /\ outcome' = outcome
    BY <1>5 DEF OpenGuard, journalVars
  <2>2. PICK o \in Op : OpConn(o) = ConnOf[g] /\ IsWrite(o) /\ (o \in intents \/ outcome[o] = "unknown")
    BY <2>1 DEF KnownInv, Noted
  <2>3. Cause(o, g)'
    BY <2>1, <2>2 DEF Cause, OpConn, IsWrite
  <2> QED BY <2>3 DEF CauseOn
<1>6. ASSUME NEW p \in Proc, Crash(p) \/ StartUnaudited(p)
      PROVE  FALSE
  BY <1>6 DEF Crash, StartUnaudited
<1>7. ASSUME NEW p \in Proc, NEW recovers \in BOOLEAN, StartProcess(p, recovers)
      PROVE  FALSE
  BY <1>7 DEF StartProcess
<1>8. ASSUME NEW old \in Guard, NEW h \in Guard, Reconnect(old, h)
      PROVE  FALSE
  BY <1>8 DEF Reconnect
<1>9. ASSUME NEW o \in Op, Authorize(o)
      PROVE  FALSE
  BY <1>9, AuthorizeMoves DEF Authorize, AuthStep, authFrame, RecordRefusal, lockVars
<1>10. ASSUME NEW o \in Op,
              \/ IntentRecorded(o) \/ RecordRefusedIntent(o) \/ IntentFails(o) \/ SettingsIntentFails(o)
              \/ RestoreDispatches(o) \/ OutcomeRecorded(o) \/ ReadOutcomeFails(o) \/ DetachedEnds(o)
       PROVE  FALSE
  BY <1>10 DEF IntentRecorded, RecordRefusedIntent, IntentFails, SettingsIntentFails, RestoreDispatches,
     OutcomeRecorded, ReadOutcomeFails, DetachedEnds, lockVars
<1> QED
  BY <1>1, <1>2, <1>3, <1>4, <1>5, <1>6, <1>7, <1>8, <1>9, <1>10 DEF Next, Lifecycle, Execute

\* What a starting process finds in doubt is on record.
LEMMA InDoubtIsNoted ==
    ASSUME NEW c \in InDoubt(outcome'), intents' = intents
    PROVE  Noted(c)'
<1>1. PICK o \in Op : /\ IsWrite(o) /\ OpConn(o) = c
                      /\ outcome'[o] = "unknown" \/ o \in intents
  BY DEF InDoubt
<1> QED BY <1>1 DEF Noted, IsWrite, OpConn

\* Whatever newly locks a process has a cause.
LEMMA NewDisableHasCause ==
    ASSUME GuardInv, Next, NEW p \in Proc, disabled'[p], ~disabled[p]
    PROVE  DisabledCause(p)'
<1> USE GuardShapes DEF GuardInv, TypeOK
<1>1. ASSUME NEW q \in Proc, NEW recovers \in BOOLEAN, StartProcess(q, recovers)
      PROVE  DisabledCause(p)'
  <2>1. NilConn \in InDoubt(outcome') /\ intents' = intents
    BY <1>1 DEF StartProcess
  <2>2. PICK o \in Op : OpConn(o) = NilConn /\ (o \in intents' \/ outcome'[o] = "unknown")
    BY <2>1, InDoubtIsNoted DEF Noted, OpConn
  <2>3. KindOf[o] = "settings"
    BY <2>2, SettingsScope
  <2> QED BY <2>2, <2>3 DEF DisabledCause, DisabledBy, IsSettings
<1>2. ASSUME NEW q \in Proc, StartUnaudited(q)
      PROVE  DisabledCause(p)'
  BY <1>2 DEF StartUnaudited, DisabledCause
<1>3. ASSUME NEW o \in Op, RecordRefusedIntent(o) \/ WriteOutcomeFails(o)
      PROVE  DisabledCause(p)'
  <2>1. /\ OpProc(o) = p /\ pc'[o] = "failed" /\ owed' = owed
        /\ pc[o] = "refusing" \/ (pc[o] = "settling" /\ KindOf[o] # "read")
    BY <1>3 DEF RecordRefusedIntent, WriteOutcomeFails, Goto, OpProc
  <2>2. KindOf[o] # "read" /\ owed'[o] # "none"
    BY <2>1 DEF StageInv, Stage
  <2> QED BY <2>1, <2>2 DEF DisabledCause, DisabledBy, OpProc
<1>4. ASSUME NEW o \in Op, SettingsIntentFails(o)
      PROVE  DisabledCause(p)'
  <2>1. OpProc(o) = p /\ pc'[o] \in {"failed", "refused"} /\ KindOf[o] = "settings"
    BY <1>4 DEF SettingsIntentFails, IsSettings, Goto, OpProc
  <2> QED BY <2>1 DEF DisabledCause, DisabledBy, OpProc, IsSettings
<1>5. ASSUME NEW q \in Proc, Crash(q)
      PROVE  FALSE
  BY <1>5 DEF Crash
<1>6. ASSUME NEW h \in Guard, NEW old \in Guard, OpenGuard(h) \/ Reconnect(old, h)
      PROVE  FALSE
  BY <1>6 DEF OpenGuard, Reconnect
<1>7. ASSUME NEW o \in Op, Authorize(o)
      PROVE  FALSE
  BY <1>7, AuthorizeMoves DEF Authorize, AuthStep, authFrame, RecordRefusal, lockVars
<1>8. ASSUME NEW o \in Op,
             \/ IntentRecorded(o) \/ IntentRefused(o) \/ IntentFails(o) \/ RestoreDispatches(o)
             \/ (\E s \in Status : DriverReturns(o, s)) \/ OutcomeRecorded(o) \/ ReadOutcomeFails(o)
             \/ DropCaller(o) \/ DetachedEnds(o)
      PROVE  FALSE
  BY <1>8 DEF IntentRecorded, IntentRefused, IntentFails, RestoreDispatches, DriverReturns,
     OutcomeRecorded, ReadOutcomeFails, DropCaller, DetachedEnds, lockVars
<1> QED BY <1>1, <1>2, <1>3, <1>4, <1>5, <1>6, <1>7, <1>8 DEF Next, Lifecycle, Execute

\* The list read at a start is of writes on record, which stay on record.
LEMMA KnownStep ==
    ASSUME GuardInv, KnownInv, Next, NEW p \in Proc, NEW c \in known'[p]
    PROVE  Noted(c)'
<1> USE GuardShapes DEF GuardInv, TypeOK
<1>1. CASE c \in known[p]
  <2>1. PICK o \in Op : OpConn(o) = c /\ IsWrite(o) /\ (o \in intents \/ outcome[o] = "unknown")
    BY <1>1 DEF KnownInv, Noted
  <2>2. o \in intents' \/ outcome'[o] = "unknown"
    BY <2>1, NextGrows DEF Grows
  <2> QED BY <2>1, <2>2 DEF Noted, IsWrite, OpConn
<1>2. CASE c \notin known[p]
  <2>1. ASSUME NEW q \in Proc, NEW recovers \in BOOLEAN, StartProcess(q, recovers)
        PROVE  Noted(c)'
    <3>1. c \in InDoubt(outcome') /\ intents' = intents
      BY <1>2, <2>1 DEF StartProcess
    <3> QED BY <3>1, InDoubtIsNoted
  <2>2. ASSUME NEW q \in Proc, Crash(q) \/ StartUnaudited(q)
        PROVE  FALSE
    BY <1>2, <2>2 DEF Crash, StartUnaudited
  <2>3. ASSUME NEW h \in Guard, NEW old \in Guard, OpenGuard(h) \/ Reconnect(old, h)
        PROVE  FALSE
    BY <1>2, <2>3 DEF OpenGuard, Reconnect
  <2>4. ASSUME NEW o \in Op, Authorize(o) \/ Execute(o) \/ DropCaller(o) \/ DetachedEnds(o)
        PROVE  FALSE
    <3>1. known' = known
      BY <2>4, AuthorizeMoves DEF Authorize, AuthStep, authFrame, RecordRefusal, Execute,
         IntentRecorded, IntentRefused, RecordRefusedIntent, IntentFails, SettingsIntentFails,
         RestoreDispatches, DriverReturns, OutcomeRecorded, ReadOutcomeFails, WriteOutcomeFails,
         DropCaller, DetachedEnds, lifeVars
    <3> QED BY <1>2, <3>1
  <2> QED BY <2>1, <2>2, <2>3, <2>4 DEF Next, Lifecycle
<1> QED BY <1>1, <1>2

\* Every lock has a cause.  A generation is locked for a call of its own that
\* ended in doubt or was cut off, for an unknown write in its scope, or for one
\* that was on record when its process started; a process without the journal,
\* for a record that was due and failed, or for a process-wide operation.
THEOREM GuardLockedForCause == Spec => []LockedForCause
<1> DEFINE CauseInv == /\ KnownInv
                       /\ \A g \in Guard : uncertain[g] => CauseOn(g)
                       /\ \A p \in Proc : disabled[p] => DisabledCause(p)
<1>1. Init => CauseInv
  BY DEF Init, KnownInv
<1>2. GuardInv /\ GuardInv' /\ CauseInv /\ [Next]_vars => CauseInv'
  <2> SUFFICES ASSUME GuardInv, GuardInv', CauseInv, [Next]_vars
               PROVE  CauseInv'
    OBVIOUS
  <2>1. CASE Next
    <3>1. ASSUME NEW g \in Guard, uncertain'[g]
          PROVE  CauseOn(g)'
      BY <2>1, <3>1, NewLockHasCause, CauseStays
    <3>2. ASSUME NEW p \in Proc, NEW c \in known'[p]
          PROVE  Noted(c)'
      BY <2>1, <3>2, KnownStep
    <3>3. ASSUME NEW p \in Proc, disabled'[p]
          PROVE  DisabledCause(p)'
      BY <2>1, <3>3, NewDisableHasCause, DisabledCauseStays
    <3> QED BY <3>1, <3>2, <3>3 DEF KnownInv
  <2>2. CASE UNCHANGED vars
    <3>1. /\ known' = known /\ sink' = sink /\ uncertain' = uncertain /\ disabled' = disabled
          /\ owed' = owed /\ outcome' = outcome /\ pc' = pc /\ intents' = intents
      BY <2>2 DEF vars
    <3>2. ASSUME NEW g \in Guard  PROVE CauseOn(g) => CauseOn(g)'
      BY <3>1 DEF CauseOn, Cause, CutOff, MayRunUnaudited, OpConn, IsWrite
    <3>6. ASSUME NEW c  PROVE Noted(c) => Noted(c)'
      BY <3>1 DEF Noted, OpConn, IsWrite
    <3>3. KnownInv'
      BY <3>1, <3>6 DEF KnownInv
    <3>4. \A g \in Guard : uncertain'[g] => CauseOn(g)'
      BY <3>1, <3>2
    <3>5. \A p \in Proc : disabled'[p] => DisabledCause(p)'
      BY <3>1 DEF DisabledCause, DisabledBy, OpProc, IsSettings
    <3> QED BY <3>3, <3>4, <3>5
  <2> QED BY <2>1, <2>2
<1>3. CauseInv => LockedForCause
  BY DEF CauseOn, Cause, DisabledCause, DisabledBy, LockedForCause
<1> QED BY <1>1, <1>2, <1>3, GuardInvariant, PTL DEF Spec

-----------------------------------------------------------------------------
(* The guards implement GovernedWrites.                                    *)

\* The claim of a write, case by case.
LEMMA ClaimCases ==
    ASSUME NEW o \in Op
    PROVE  /\ o \notin intents => ClaimOf(o) = "free"
           /\ o \in intents /\ outcome[o] = "none" => ClaimOf(o) = "held"
           /\ o \in intents /\ outcome[o] = "unknown" => ClaimOf(o) = "stuck"
           /\ o \in intents /\ outcome[o] \notin {"none", "unknown"} => ClaimOf(o) = "settled"
BY DEF ClaimOf

\* The same after a step.
LEMMA ClaimCasesNext ==
    ASSUME NEW o \in Op
    PROVE  /\ o \notin intents' => ClaimOf(o)' = "free"
           /\ o \in intents' /\ outcome'[o] = "none" => ClaimOf(o)' = "held"
           /\ o \in intents' /\ outcome'[o] = "unknown" => ClaimOf(o)' = "stuck"
           /\ o \in intents' /\ outcome'[o] \notin {"none", "unknown"} => ClaimOf(o)' = "settled"
BY DEF ClaimOf

\* Claims are read off the intents and the outcomes alone.
LEMMA ClaimSame ==
    ASSUME intents' = intents, outcome' = outcome
    PROVE  \A w \in WriteOp : ClaimOf(w)' = ClaimOf(w)
BY DEF ClaimOf

\* A step that leaves claims and open effects alone is a stutter.
LEMMA Stutters ==
    ASSUME \A w \in WriteOp : ClaimOf(w)' = ClaimOf(w), (exposed \cap intents)' = exposed \cap intents
    PROVE  UNCHANGED Abstract!claimVars
BY DEF Abstract!claimVars, WriteOp, IsWrite

\* An append of an outcome: a refusal, a detached one, or the end of a call.
\* It settles a held claim whose effect is closed, or makes it stick.
LEMMA OutcomeImplements ==
    ASSUME GuardInv, NEW o \in Op, outcome[o] = "none", NEW s \in Status, s # "none",
           o \in exposed => s = "unknown",
           outcome' \in {outcome, [outcome EXCEPT ![o] = s]}, intents' = intents, exposed' = exposed
    PROVE  [Abstract!ClaimNext]_Abstract!claimVars
<1>1. CASE outcome' = outcome \/ o \notin intents \/ o \notin WriteOp
  <2>1. \A w \in WriteOp : ClaimOf(w)' = ClaimOf(w)
    BY <1>1, ClaimCases, ClaimCasesNext DEF GuardInv, TypeOK, WriteOp
  <2> QED BY <2>1, Stutters
<1>2. CASE outcome' = [outcome EXCEPT ![o] = s] /\ o \in intents /\ o \in WriteOp
  <2>1. \A w \in WriteOp : w # o => ClaimOf(w)' = ClaimOf(w)
    BY <1>2, ClaimCases, ClaimCasesNext DEF GuardInv, TypeOK, WriteOp
  <2>2. ClaimOf(o) = "held"
    BY <1>2, ClaimCases
  <2>3. [w \in WriteOp |-> ClaimOf(w)]' = [[w \in WriteOp |-> ClaimOf(w)] EXCEPT ![o] = ClaimOf(o)']
    BY <2>1 DEF WriteOp, IsWrite
  <2>4. CASE s = "unknown"
    <3>1. ClaimOf(o)' = "stuck"
      BY <1>2, <2>4, ClaimCasesNext DEF GuardInv, TypeOK
    <3> QED BY <1>2, <2>2, <2>3, <3>1 DEF Abstract!ClaimNext, Abstract!Stick
  <2>5. CASE s # "unknown"
    <3>1. ClaimOf(o)' = "settled"
      BY <1>2, <2>5, ClaimCasesNext DEF GuardInv, TypeOK
    <3> QED BY <1>2, <2>2, <2>3, <2>5, <3>1 DEF Abstract!ClaimNext, Abstract!Settle
  <2> QED BY <2>4, <2>5
<1> QED BY <1>1, <1>2

\* An intent that passes the gate claims the connection; the driver may be
\* called in the same step.
LEMMA IntentImplements ==
    ASSUME GuardInv, NEW o \in Op, ~Blocked(o), outcome[o] = "none", o \notin intents, o \notin exposed,
           intents' = intents \cup {o}, outcome' = outcome,
           exposed' \in {exposed, exposed \cup {o}}, exposed' # exposed => IsWrite(o)
    PROVE  [Abstract!ClaimNext]_Abstract!claimVars
<1>1. \A w \in WriteOp : w # o => ClaimOf(w)' = ClaimOf(w)
  BY ClaimCases, ClaimCasesNext DEF GuardInv, TypeOK, WriteOp
<1>2. (exposed \cap intents)' \in {exposed \cap intents, (exposed \cap intents) \cup {o}}
  OBVIOUS
<1>3. CASE o \in WriteOp
  <2>1. ClaimOf(o) = "free" /\ ClaimOf(o)' = "held"
    BY ClaimCases, ClaimCasesNext
  <2>2. [w \in WriteOp |-> ClaimOf(w)]' = [[w \in WriteOp |-> ClaimOf(w)] EXCEPT ![o] = "held"]
    BY <1>1, <2>1 DEF WriteOp, IsWrite
  <2>3. ASSUME Gated(o), NEW v \in WriteOp, ClaimOf(v) \in {"held", "stuck"}
        PROVE  ~Overlaps(o, v)
    <3>1. v \in intents /\ outcome[v] \in {"none", "unknown"}
      BY <2>3, ClaimCases DEF WriteOp, GuardInv, TypeOK
    <3> QED
      BY <2>3, <3>1 DEF WriteOp, Blocked, BlockedByPending, BlockedByUnresolved, Pending, Unresolved
  <2>4. Abstract!Claim(o)
    BY <1>2, <1>3, <2>1, <2>2, <2>3 DEF Abstract!Claim, Abstract!Holds, Abstract!Overlap,
       Overlaps, WriteOp
  <2> QED BY <1>3, <2>4 DEF Abstract!ClaimNext
<1>4. CASE o \notin WriteOp
  <2>1. (exposed \cap intents)' = exposed \cap intents
    BY <1>4 DEF WriteOp
  <2> QED BY <1>1, <1>4, <2>1, Stutters
<1> QED BY <1>3, <1>4

\* A step that touches neither the journal nor the open effects.
LEMMA QuietImplements ==
    ASSUME UNCHANGED <<intents, outcome>>, (exposed \cap intents)' = exposed \cap intents
    PROVE  [Abstract!ClaimNext]_Abstract!claimVars
<1>1. \A w \in WriteOp : ClaimOf(w)' = ClaimOf(w)
  BY ClaimCases, ClaimCasesNext DEF WriteOp, ClaimOf
<1> QED BY <1>1, Stutters

\* Recovery makes every held claim stick.
LEMMA StartImplements ==
    ASSUME GuardInv, NEW p \in Proc, NEW recovers \in BOOLEAN, StartProcess(p, recovers)
    PROVE  [Abstract!ClaimNext]_Abstract!claimVars
<1>1. intents' = intents /\ exposed' = exposed
  BY DEF StartProcess
<1>2. CASE recovers
  <2>1. \A w \in WriteOp : ClaimOf(w)' = IF ClaimOf(w) = "held" THEN "stuck" ELSE ClaimOf(w)
    <3> SUFFICES ASSUME NEW w \in WriteOp
                 PROVE  ClaimOf(w)' = IF ClaimOf(w) = "held" THEN "stuck" ELSE ClaimOf(w)
      OBVIOUS
    <3>1. w \in Op
      BY DEF WriteOp
    <3>2. outcome'[w] = IF w \in intents /\ outcome[w] = "none" THEN "unknown" ELSE outcome[w]
      BY <1>2, <3>1, StartEffect DEF GuardInv
    <3> QED BY <1>1, <3>1, <3>2, ClaimCases, ClaimCasesNext
  <2>2. Abstract!StickAll
    BY <1>1, <2>1 DEF Abstract!StickAll, WriteOp, IsWrite
  <2> QED BY <2>2 DEF Abstract!ClaimNext
<1>3. CASE ~recovers
  <2>1. outcome' = outcome
    BY <1>3 DEF StartProcess, Recovered, GuardInv, TypeOK
  <2> QED BY <1>1, <2>1, QuietImplements
<1> QED BY <1>2, <1>3

\* Every step of the guards is a step of GovernedWrites or a stutter.
LEMMA NextImplements ==
    ASSUME GuardInv, [Next]_vars
    PROVE  [Abstract!ClaimNext]_Abstract!claimVars
<1> USE GuardShapes DEF GuardInv, TypeOK
<1>1. ASSUME NEW o \in Op, AuthStep(o)
      PROVE  [Abstract!ClaimNext]_Abstract!claimVars
  BY <1>1, QuietImplements DEF AuthStep, authFrame, journalVars
<1>2. ASSUME NEW o \in Op, RecordRefusal(o) \/ RecordRefusedIntent(o)
      PROVE  [Abstract!ClaimNext]_Abstract!claimVars
  <2>1. /\ outcome[o] = "none" /\ owed[o] \in Status /\ owed[o] # "none" /\ o \notin exposed
        /\ outcome' \in {outcome, [outcome EXCEPT ![o] = owed[o]]}
        /\ intents' = intents /\ exposed' = exposed
    BY <1>2 DEF RecordRefusal, RecordRefusedIntent, Append, AppendFails, StageInv, Stage, Before, Unsettled
  <2> QED BY <2>1, OutcomeImplements
<1>3. ASSUME NEW o \in Op, IntentRecorded(o)
      PROVE  [Abstract!ClaimNext]_Abstract!claimVars
  <2>1. /\ ~Blocked(o) /\ outcome[o] = "none" /\ o \notin intents /\ o \notin exposed
        /\ intents' = intents \cup {o} /\ outcome' = outcome
        /\ exposed' \in {exposed, exposed \cup {o}} /\ (exposed' # exposed => IsWrite(o))
    BY <1>3 DEF IntentRecorded, Run, ExposedByRunning, IsWrite, StageInv, Stage, Before, Unsettled
  <2> QED BY <2>1, IntentImplements
<1>4. ASSUME NEW o \in Op, IntentFails(o)
      PROVE  [Abstract!ClaimNext]_Abstract!claimVars
  <2>1. /\ outcome[o] = "none" /\ o \notin intents /\ o \notin exposed
        /\ outcome' = outcome
        /\ exposed' \in {exposed, exposed \cup {o}} /\ (exposed' # exposed => IsWrite(o))
    BY <1>4 DEF IntentFails, Run, ExposedByRunning, IsWrite, StageInv, Stage, Before, Unsettled
  <2>2. CASE intents' = intents
    BY <2>1, <2>2, QuietImplements
  <2>3. CASE ~Blocked(o) /\ intents' = intents \cup {o}
    BY <2>1, <2>3, IntentImplements
  <2> QED BY <1>4, <2>2, <2>3 DEF IntentFails
<1>5. ASSUME NEW o \in Op, RestoreDispatches(o)
      PROVE  [Abstract!ClaimNext]_Abstract!claimVars
  <2>1. o \in intents /\ outcome[o] = "none" /\ o \in WriteOp
    BY <1>5 DEF RestoreDispatches, StageInv, Stage, Unsettled, SkipsIntent, MayRunUnaudited,
           WriteOp, IsWrite
  <2>2. ClaimOf(o) = "held"
    BY <2>1, ClaimCases
  <2>3. (exposed \cap intents)' = (exposed \cap intents) \cup {o}
    BY <1>5, <2>1 DEF RestoreDispatches, journalVars
  <2>4. \A w \in WriteOp : ClaimOf(w)' = ClaimOf(w)
    BY <1>5, ClaimCases, ClaimCasesNext DEF RestoreDispatches, journalVars, WriteOp
  <2>5. Abstract!Open(o)
    BY <2>1, <2>2, <2>3, <2>4 DEF Abstract!Open, WriteOp, IsWrite
  <2> QED BY <2>1, <2>5 DEF Abstract!ClaimNext
<1>6. ASSUME NEW o \in Op, NEW s \in Status, DriverReturns(o, s)
      PROVE  [Abstract!ClaimNext]_Abstract!claimVars
  <2>1. intents' = intents /\ outcome' = outcome /\ exposed' \in {exposed, exposed \ {o}}
    BY <1>6 DEF DriverReturns, journalVars
  <2>2. CASE o \notin exposed \cap intents \/ exposed' = exposed
    BY <2>1, <2>2, QuietImplements
  <2>3. CASE o \in exposed \cap intents /\ exposed' = exposed \ {o}
    <3>1. o \in WriteOp
      BY <2>3 DEF StageInv, Stage, WriteOp, IsWrite
    <3>2. \A w \in WriteOp : ClaimOf(w)' = ClaimOf(w)
      BY <2>1, ClaimSame
    <3>3. (exposed \cap intents)' = (exposed \cap intents) \ {o}
      BY <2>1, <2>3
    <3>4. Abstract!Close(o)
      BY <2>3, <3>2, <3>3 DEF Abstract!Close, WriteOp, IsWrite
    <3> QED BY <3>1, <3>4 DEF Abstract!ClaimNext
  <2> QED BY <2>1, <2>2, <2>3
<1>7. ASSUME NEW o \in Op, OutcomeRecorded(o) \/ ReadOutcomeFails(o) \/ WriteOutcomeFails(o)
      PROVE  [Abstract!ClaimNext]_Abstract!claimVars
  <2>1. /\ outcome[o] = "none" /\ owed[o] \in Status /\ owed[o] # "none" /\ (o \in exposed => owed[o] = "unknown")
        /\ outcome' \in {outcome, [outcome EXCEPT ![o] = owed[o]]}
        /\ intents' = intents /\ exposed' = exposed
    BY <1>7 DEF OutcomeRecorded, ReadOutcomeFails, WriteOutcomeFails, Append, AppendFails, StageInv, Stage,
       Unsettled
  <2> QED BY <2>1, OutcomeImplements
<1>8. ASSUME NEW o \in Op, DetachedEnds(o)
      PROVE  [Abstract!ClaimNext]_Abstract!claimVars
  <2>1. outcome[o] = "none" /\ owed[o] \in Status /\ exposed' = exposed
    BY <1>8 DEF DetachedEnds, StageInv, Stage, Unsettled
  <2>2. CASE owed[o] = "none" /\ ~Blocked(o) /\ intents' = intents \cup {o} /\ outcome' = outcome
    <3>1. o \notin intents /\ o \notin exposed
      BY <1>8, <2>2 DEF DetachedEnds, StageInv, Stage
    <3> QED BY <2>1, <2>2, <3>1, IntentImplements
  <2>3. CASE owed[o] # "none" /\ outcome' = [outcome EXCEPT ![o] = owed[o]] /\ intents' = intents
    <3>1. o \in exposed => owed[o] = "unknown"
      BY <2>3 DEF StageInv, Stage
    <3> QED BY <2>1, <2>3, <3>1, OutcomeImplements
  <2>4. CASE UNCHANGED journalVars
    BY <2>1, <2>4, QuietImplements DEF journalVars
  <2> QED BY <1>8, <2>2, <2>3, <2>4 DEF DetachedEnds, Append
<1>15. ASSUME NEW o \in Op, SettingsIntentFails(o)
       PROVE  [Abstract!ClaimNext]_Abstract!claimVars
  <2>1. outcome[o] = "none" /\ o \notin intents /\ o \notin exposed /\ outcome' = outcome /\ exposed' = exposed
    BY <1>15 DEF SettingsIntentFails, StageInv, Stage, Before, Unsettled
  <2>2. CASE intents' = intents
    BY <2>1, <2>2, QuietImplements
  <2>3. CASE ~Blocked(o) /\ intents' = intents \cup {o}
    BY <2>1, <2>3, IntentImplements
  <2> QED BY <1>15, <2>2, <2>3 DEF SettingsIntentFails
<1>9. ASSUME NEW o \in Op, IntentRefused(o) \/ DropCaller(o)
      PROVE  [Abstract!ClaimNext]_Abstract!claimVars
  BY <1>9, QuietImplements DEF IntentRefused, DropCaller, journalVars
<1>10. ASSUME NEW o \in Op, Authorize(o) \/ Execute(o)
       PROVE  [Abstract!ClaimNext]_Abstract!claimVars
  BY <1>10, <1>1, <1>2, <1>3, <1>4, <1>5, <1>6, <1>7, <1>9, <1>15, AuthorizeMoves DEF Authorize, Execute
<1>11. ASSUME NEW p \in Proc, Crash(p) \/ StartUnaudited(p)
       PROVE  [Abstract!ClaimNext]_Abstract!claimVars
  BY <1>11, QuietImplements DEF Crash, StartUnaudited, journalVars
<1>12. ASSUME NEW old \in Guard, NEW g \in Guard, OpenGuard(g) \/ Reconnect(old, g)
       PROVE  [Abstract!ClaimNext]_Abstract!claimVars
  BY <1>12, QuietImplements DEF OpenGuard, Reconnect, journalVars
<1>13. CASE Lifecycle
  BY <1>13, <1>11, <1>12, StartImplements DEF Lifecycle
<1>14. CASE UNCHANGED vars
  BY <1>14, QuietImplements DEF vars
<1> QED BY <1>8, <1>9, <1>10, <1>13, <1>14 DEF Next

\* The guards of any number of processes and generations implement
\* GovernedWrites: one claim per connection, effects only under a claim, no
\* claim given back while its effect is open.
THEOREM GuardKeepsPromise == Spec => KeepsPromise
<1>1. Init => Abstract!ClaimInit
  BY DEF Init, Abstract!ClaimInit, ClaimOf, WriteOp, IsWrite
<1>2. GuardInv /\ [Next]_vars => [Abstract!ClaimNext]_Abstract!claimVars
  BY NextImplements
<1> QED BY <1>1, <1>2, GuardInvariant, PTL DEF Spec, KeepsPromise, Abstract!ClaimSpec
=============================================================================
