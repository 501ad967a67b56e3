----------------------- MODULE OperationControlProofs -----------------------
(***************************************************************************)
(* What a controlled call reports is true, with and without server-side    *)
(* cancellation.  That it returns is left to TLC.                          *)
(***************************************************************************)
EXTENDS OperationControl, TLAPS

\* A statement is at the server exactly once it was dispatched.
DispatchedOnce ==
    /\ phase = "start" => server = "idle"
    /\ phase \notin {"start", "returned"} => server # "idle"

\* A reply other than an error is the server's own.
RepliesAreProof ==
    /\ reply = "ok" => server = "applied"
    /\ reply = "aborted" => server = "aborted"

\* A call waiting for its cancellation knows why it was interrupted.
InterruptedForCause ==
    phase \in {"cancelling", "draining", "grace"} => why \in Interruption

CallInv == TypeOK /\ DispatchedOnce /\ RepliesAreProof /\ InterruptedForCause /\ ReportTellsTruth

\* A call starts with nothing dispatched and nothing answered.
LEMMA CallInvInit == Init => CallInv
BY DEF Init, CallInv, TypeOK, DispatchedOnce, RepliesAreProof, InterruptedForCause,
       ReportTellsTruth, Interruption

\* Caller, clock, server and network disturb no answer already given: a
\* statement that was aborted, failed or never sent does not take effect later.
LEMMA EnvironmentKeeps == CallInv /\ Environment => CallInv'
<1> SUFFICES ASSUME CallInv, Environment PROVE CallInv' OBVIOUS
<1> UNCHANGED cancellable BY DEF Environment
<1> USE DEF CallInv, TypeOK, DispatchedOnce, RepliesAreProof, InterruptedForCause,
            ReportTellsTruth, Interruption, clientVars, serverVars
<1>1. CASE Cancel BY <1>1 DEF Cancel
<1>2. CASE DeadlinePasses BY <1>2 DEF DeadlinePasses
<1>3. CASE ServerEnds BY <1>3 DEF ServerEnds
<1>4. CASE ReplyArrives BY <1>4 DEF ReplyArrives
<1>5. CASE ConnectionLost BY <1>5 DEF ConnectionLost
<1>6. CASE RequestAnswered BY <1>6 DEF RequestAnswered
<1> QED BY <1>1, <1>2, <1>3, <1>4, <1>5, <1>6 DEF Environment

\* Every step of the call answers what the server's state supports.
LEMMA CallKeeps == CallInv /\ Call => CallInv'
<1> SUFFICES ASSUME CallInv, Call PROVE CallInv' OBVIOUS
<1> UNCHANGED cancellable BY DEF Call
<1> USE DEF CallInv, TypeOK, DispatchedOnce, RepliesAreProof, InterruptedForCause,
            ReportTellsTruth, Interruption, serverVars, Return, TimeIsUp, Reason
<1>1. CASE RefuseDispatch BY <1>1 DEF RefuseDispatch
<1>2. CASE Dispatch BY <1>2 DEF Dispatch
<1>3. CASE Finish BY <1>3 DEF Finish
<1>4. CASE Abandon BY <1>4 DEF Abandon
<1>5. CASE Interrupt BY <1>5 DEF Interrupt
<1>6. CASE RequestExpires BY <1>6 DEF RequestExpires
<1>7. CASE EndsFirst BY <1>7 DEF EndsFirst
<1>8. CASE RequestSettled BY <1>8 DEF RequestSettled, Classify
<1>9. CASE EndsInGrace BY <1>9 DEF EndsInGrace, Classify
<1>10. CASE GraceExpires BY <1>10 DEF GraceExpires
<1> QED BY <1>1, <1>2, <1>3, <1>4, <1>5, <1>6, <1>7, <1>8, <1>9, <1>10 DEF Call

\* The inductive invariant of a controlled call holds for ever.
THEOREM CallInvariant == Spec => []CallInv
<1>1. CallInv /\ UNCHANGED vars => CallInv'
  BY DEF CallInv, TypeOK, DispatchedOnce, RepliesAreProof, InterruptedForCause,
         ReportTellsTruth, vars, clientVars, serverVars
<1>2. CallInv /\ [Next]_vars => CallInv'
  BY <1>1, EnvironmentKeeps, CallKeeps DEF Next
<1> QED BY CallInvInit, <1>2, PTL DEF Spec

\* A call has an answer exactly when it has returned, and its state its types.
THEOREM CallTypes == Spec => []TypeOK
<1>1. CallInv => TypeOK BY DEF CallInv
<1> QED BY CallInvariant, <1>1, PTL

\* A call that reports a cancellation or timeout left no effect behind and none
\* to come, and one that reports success took effect (classify_interrupted).
THEOREM CallTellsTruth == Spec => []ReportTellsTruth
<1>1. CallInv => ReportTellsTruth BY DEF CallInv
<1> QED BY CallInvariant, <1>1, PTL
=============================================================================
