-------------------------- MODULE OperationControl --------------------------
(***************************************************************************)
(* One statement under an OperationControl (crates/core/src/operation.rs). *)
(* run_server_cancellable asks the server to stop a statement whose caller *)
(* cancelled or whose deadline passed, and has to say how it ended.        *)
(* run_controlled does the same for engines that cannot be asked.          *)
(*                                                                         *)
(* Time is abstract: a deadline or timeout may pass at any moment.         *)
(***************************************************************************)
VARIABLES
    cancellable, \* the engine takes cancellation requests; never changes
    cancelled,  \* the caller cancelled the token
    due,        \* the deadline passed
    phase,      \* "start", "running", "cancelling", "draining", "grace", "returned"
    why,        \* interruption
    request,    \* the cancellation request: "unsent", "sent", "answered", "expired"
    server,     \* what the server does with the statement
    reply,      \* what the driver's future yields
    answer      \* what the caller is told

clientVars == <<phase, why, request, answer>>
serverVars == <<server, reply>>
vars == <<cancellable, cancelled, due, clientVars, serverVars>>

Interruption == {"cancelled", "timedout"}

\* A call has an answer exactly when it has returned.
TypeOK ==
    /\ cancellable \in BOOLEAN /\ cancelled \in BOOLEAN /\ due \in BOOLEAN
    /\ phase \in {"start", "running", "cancelling", "draining", "grace", "returned"}
    /\ why \in Interruption \cup {"none"}
    /\ request \in {"unsent", "sent", "answered", "expired"}
    /\ server \in {"idle", "executing", "applied", "aborted", "failed"}
    /\ reply \in {"none", "ok", "aborted", "error"}
    /\ answer \in Interruption \cup {"none", "ok", "error", "unknown"}
    /\ phase = "returned" <=> answer # "none"

Init ==
    /\ cancellable \in BOOLEAN
    /\ cancelled = FALSE /\ due = FALSE
    /\ phase = "start" /\ why = "none" /\ request = "unsent" /\ answer = "none"
    /\ server = "idle" /\ reply = "none"

-----------------------------------------------------------------------------
(* The caller, the clock, the server and the network.                      *)

Cancel == ~cancelled /\ cancelled' = TRUE /\ UNCHANGED <<due, clientVars, serverVars>>
DeadlinePasses == ~due /\ due' = TRUE /\ UNCHANGED <<cancelled, clientVars, serverVars>>

\* With or without a request: a server may abort a statement on its own.
ServerEnds ==
    /\ server = "executing"
    /\ server' \in {"applied", "aborted", "failed"}
    /\ UNCHANGED <<cancelled, due, clientVars, reply>>

\* An aborted statement fails with the error confirms_cancellation recognises.
ReplyArrives ==
    /\ reply = "none"
    /\ \/ server = "applied" /\ reply' = "ok"
       \/ server = "aborted" /\ reply' = "aborted"
       \/ server = "failed" /\ reply' = "error"
    /\ UNCHANGED <<cancelled, due, clientVars, server>>

ConnectionLost ==
    /\ reply = "none" /\ server # "idle"
    /\ reply' = "error"
    /\ UNCHANGED <<cancelled, due, clientVars, server>>

\* The request is delivered or refused; either way the future completes.
RequestAnswered ==
    /\ request = "sent"
    /\ request' = "answered"
    /\ UNCHANGED <<cancelled, due, phase, why, answer, serverVars>>

-----------------------------------------------------------------------------
(* The call.                                                               *)

Return(a) == phase' = "returned" /\ answer' = a
TimeIsUp == cancelled \/ due
Reason == IF cancelled THEN "cancelled" ELSE "timedout"

\* check_pre_dispatch.
RefuseDispatch ==
    /\ phase = "start" /\ TimeIsUp
    /\ Return(Reason)
    /\ UNCHANGED <<cancelled, due, why, request, serverVars>>

Dispatch ==
    /\ phase = "start" /\ ~TimeIsUp
    /\ phase' = "running" /\ server' = "executing"
    /\ UNCHANGED <<cancelled, due, why, request, answer, reply>>

\* The statement ends by itself.  run_controlled looks at the token first.
Finish ==
    /\ phase = "running" /\ reply # "none"
    /\ cancellable \/ ~TimeIsUp
    /\ Return(IF reply = "ok" THEN "ok" ELSE "error")
    /\ UNCHANGED <<cancelled, due, why, request, serverVars>>

\* run_controlled: nothing is known of a statement that was left behind.
Abandon ==
    /\ phase = "running" /\ TimeIsUp /\ ~cancellable
    /\ Return("unknown")
    /\ UNCHANGED <<cancelled, due, why, request, serverVars>>

\* Mutant: the interruption is not remembered.
InterruptUnnamed ==
    /\ phase = "running" /\ TimeIsUp /\ cancellable
    /\ reply = "none"
    /\ phase' = "cancelling" /\ request' = "sent"
    /\ UNCHANGED <<cancelled, due, why, answer, serverVars>>

Interrupt ==
    /\ phase = "running" /\ TimeIsUp /\ cancellable
    /\ reply = "none"
    /\ phase' = "cancelling" /\ why' = Reason /\ request' = "sent"
    /\ UNCHANGED <<cancelled, due, answer, serverVars>>

\* CANCELLATION_DISPATCH_TIMEOUT.
RequestExpires ==
    /\ request = "sent" /\ phase \in {"cancelling", "draining"}
    /\ request' = "expired"
    /\ UNCHANGED <<cancelled, due, phase, why, answer, serverVars>>

\* The statement ends while the request is on its way: wait for the request,
\* lest it hit the next statement.
EndsFirst ==
    /\ phase = "cancelling" /\ reply # "none"
    /\ phase' = "draining"
    /\ UNCHANGED <<cancelled, due, why, request, answer, serverVars>>

\* Mutant: after an interruption every error counts as its effect.
ClassifyAnyError == IF reply = "ok" THEN "unknown" ELSE why
\* classify_interrupted: only the engine's own abort error is proof.
Classify == IF reply = "aborted" THEN why ELSE "unknown"

\* The request is settled before the statement, or after it.
RequestSettled ==
    /\ request \in {"answered", "expired"}
    /\ \/ phase \in {"cancelling", "draining"} /\ request = "expired" /\ Return("unknown")
       \/ phase = "cancelling" /\ request = "answered" /\ phase' = "grace" /\ UNCHANGED answer
       \/ phase = "draining" /\ request = "answered" /\ Return(Classify)
    /\ UNCHANGED <<cancelled, due, why, request, serverVars>>

EndsInGrace ==
    /\ phase = "grace" /\ reply # "none"
    /\ Return(Classify)
    /\ UNCHANGED <<cancelled, due, why, request, serverVars>>

\* Mutant: the statement is awaited without a limit.
GraceExpiresOnReply ==
    /\ phase = "grace" /\ reply = "error"
    /\ Return("unknown")
    /\ UNCHANGED <<cancelled, due, why, request, serverVars>>

\* CANCELLATION_GRACE.
GraceExpires ==
    /\ phase = "grace" /\ reply = "none"
    /\ Return("unknown")
    /\ UNCHANGED <<cancelled, due, why, request, serverVars>>

Environment ==
    /\ Cancel \/ DeadlinePasses \/ ServerEnds \/ ReplyArrives \/ ConnectionLost \/ RequestAnswered
    /\ UNCHANGED cancellable

Call ==
    /\ \/ RefuseDispatch \/ Dispatch \/ Finish \/ Abandon \/ Interrupt \/ RequestExpires
       \/ EndsFirst \/ RequestSettled \/ EndsInGrace \/ GraceExpires
    /\ UNCHANGED cancellable

Next == Environment \/ Call

\* The runtime polls a call that can go on, and its timers fire.  Nothing is
\* assumed of the caller, the server or the network.
Spec == Init /\ [][Next]_vars /\ WF_vars(Call)

-----------------------------------------------------------------------------
(* Properties.                                                             *)

\* A caller told of a cancellation or timeout may rely on it: the statement is
\* not running and never took effect; and one told of success, that it did
\* (classify_interrupted).  The guard records those answers as final.
ReportTellsTruth ==
    /\ answer \in Interruption => server \notin {"executing", "applied"}
    /\ answer = "ok" => server = "applied"

\* A call that was cancelled or ran out of time returns, even if the server,
\* the network and the cancellation request never answer.
InterruptedReturns == TimeIsUp ~> phase = "returned"
=============================================================================
