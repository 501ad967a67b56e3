--------------------------- MODULE PolicySession ---------------------------
(***************************************************************************)
(* PolicySession of crates/policy/src/guard/session.rs: a connection that  *)
(* a caller keeps for itself, so that it can hold a transaction (the       *)
(* session's OpenBatch) and a cursor.  The session has to know, from the   *)
(* driver's answers alone, whether the server is in a transaction and how  *)
(* it ended; tx and fate are what is really the case.  It cannot know when *)
(* a statement it takes for an ordinary one begins or ends a transaction:  *)
(* statement() passes whatever the rules allow, and the engines differ in  *)
(* what DDL, SET, SAVEPOINT and errors do.  strayed says that one did.     *)
(*                                                                         *)
(* The session is used by one call at a time, but a call may be dropped at *)
(* an await, another call of the connection may bar writes, another write  *)
(* may hold the journal's gate, and the connection may go.  Refusals that  *)
(* only leave a record (refusal.rs) change nothing and are guards here.    *)
(***************************************************************************)
VARIABLES
    profile,    \* what kind of session it is; never changes
    batch,      \* OpenBatch; ~batch.open stands for None
    cursor,     \* ActiveCursor: "none", "open" or "complete"
    retired,    \* the session was given up
    pc,         \* where the call is
    call,       \* the call: kind, chain
    answer,     \* the driver's answer
    closing,    \* the call is close
    locked,     \* writes of the generation are disabled, by this session
    barred,     \* ... by another call, or because the journal failed
    conn,       \* the driver has its connection (Session::is_usable)
    dcursor,    \* the driver's cursor: "none", "open" or "failed"
    tx,         \* the server's transaction: "none", "open" or "aborted"
    fate,       \* how the last one ended
    strayed,    \* it began or ended otherwise than by begin and finish
    lie,        \* a wrong record of an end, dropped calls and strays aside
    owes,       \* a write went out in a batch whose end is not on record
    cut         \* a call was dropped

\* A failed statement of PostgreSQL aborts the transaction it is in; an agent
\* gets no rows without a record; the writes of a local human may be allowed
\* to run without an intent.
Profiles == {p \in [postgres : BOOLEAN, agent : BOOLEAN, unaudited : BOOLEAN] : ~(p.agent /\ p.unaudited)}
Postgres == profile.postgres
Agent == profile.agent
Unaudited == profile.unaudited

sessionVars == <<batch, cursor, retired>>
callVars == <<pc, call, answer, closing>>
lockVars == <<locked, barred>>
serverVars == <<conn, dcursor, tx, fate, strayed>>
pastVars == <<lie, owes, cut>>
vars == <<profile, sessionVars, callVars, lockVars, serverVars, pastVars>>

Statement == {"read", "write", "recover"}   \* recover: ROLLBACK TO SAVEPOINT
Finish == {"commit", "rollback"}
CursorCall == {"declare", "fetch"}
Kind == {"none", "begin", "snapshot", "columns", "count"} \cup Statement \cup Finish \cup CursorCall

\* "stopped": Cancelled or TimedOut, confirmed by the server; "early": the
\* same errors before anything was sent; "internal": the driver had lost its
\* connection before; "last": a page after which there is none.
Answer == {"none", "ok", "last", "query", "stopped", "early", "internal", "unknown", "lost"}
Fate == {"none", "committed", "rolledback"}

NoBatch == [open |-> FALSE, ro |-> FALSE, wrote |-> FALSE, uncertain |-> FALSE, aborted |-> FALSE]
NewBatch(ro) == [NoBatch EXCEPT !.open = TRUE, !.ro = ro]
NoCall == [kind |-> "none", chain |-> FALSE]

\* wrap_session.
Init ==
    /\ profile \in Profiles
    /\ batch = NoBatch /\ cursor = "none" /\ retired = FALSE
    /\ pc = "idle" /\ call = NoCall /\ answer = "none" /\ closing = FALSE
    /\ locked = FALSE /\ barred = FALSE
    /\ conn = TRUE /\ dcursor = "none" /\ tx = "none" /\ fate = "none" /\ strayed = FALSE
    /\ lie = "none" /\ owes = FALSE /\ cut = FALSE

-----------------------------------------------------------------------------
Usable == conn /\ ~retired
Locked == locked \/ barred
Ready == pc = "idle" /\ cursor = "none" /\ Usable

Failed(a) == a \notin {"ok", "last"}
\* is_ambiguous_post_dispatch.
Ambiguous(a) == a \in {"internal", "unknown", "lost"}
\* The errors after which note_statement calls the batch uncertain.
Doubtful(a) == a \in {"stopped", "early", "unknown", "lost"}

Writes(k) == k = "write"
\* The calls around which a PendingWrite is armed.
Armed(k) == Writes(k) \/ k \in Finish

Goto(l) == pc' = l
\* The call is over; the close that ran it goes on.
Return(l) == Goto(l) /\ call' = NoCall /\ answer' = "none" /\ UNCHANGED closing
Over == Return("idle")

-----------------------------------------------------------------------------
(* The server and the driver.                                              *)

\* A transaction that loses its connection is rolled back; a commit that was
\* under way may have made it.
LostFate(k) ==
    IF tx = "none" THEN {fate}
    ELSE IF k = "commit" /\ tx = "open" THEN {"committed", "rolledback"} ELSE {"rolledback"}

ConnectionGoes(k) ==
    /\ conn' = FALSE /\ dcursor' = "none" /\ tx' = "none"
    /\ fate' \in LostFate(k)
    /\ UNCHANGED strayed

\* The transaction begins or ends by itself.  A statement that succeeds: DDL
\* commits on MySQL, SAVEPOINT begins one on SQLite; after SET autocommit or SET
\* IMPLICIT_TRANSACTIONS any call may begin one.  A call that fails: an engine
\* rolls a deadlock victim or an interrupted write back, and SQLite keeps the
\* transaction it refuses to commit.
Strays(may) ==
    /\ strayed \/ may
    /\ strayed' = TRUE
    /\ tx' \in {"none", "open"}
    /\ fate' \in {fate, "committed", "rolledback"}

\* A server error: PostgreSQL refuses everything until the transaction ends.
\* A commit that fails ends the transaction.
ServerFails(k, a) ==
    /\ \/ /\ tx' = CASE k = "commit" /\ a = "query" -> "none"
                     [] tx = "open" /\ Postgres /\ k \notin Finish -> "aborted"
                     [] OTHER -> tx
          /\ fate' = IF k = "commit" /\ a = "query" /\ tx # "none" THEN "rolledback" ELSE fate
          /\ UNCHANGED strayed
       \/ Strays(tx = "open" /\ k # "rollback")
    /\ dcursor' = IF k = "fetch" THEN "failed" ELSE dcursor
    /\ UNCHANGED conn

ServerDoes(k, a) ==
    /\ tx = "aborted" => k \in Finish \cup {"recover"}
    /\ k \in CursorCall \cup {"recover"} => tx # "none"
    /\ \/ /\ tx' = CASE k \in {"begin", "snapshot", "recover"} -> "open"
                     [] k \in Finish -> IF call.chain /\ tx # "none" THEN "open" ELSE "none"
                     [] OTHER -> tx
          /\ fate' = CASE k \in Finish /\ tx # "none" ->
                              IF k = "commit" /\ tx = "open" THEN "committed" ELSE "rolledback"
                       [] k \in {"begin", "snapshot"} -> "none"
                       [] OTHER -> fate
          /\ UNCHANGED strayed
       \/ Strays(k \in Statement /\ ~batch.ro)
    /\ dcursor' = IF k = "declare" THEN "open" ELSE dcursor
    /\ UNCHANGED conn

\* PgSession and its siblings: an unknown outcome, a lost connection, or any
\* interruption of a cursor costs the connection.  The session does not look
\* at is_usable again between counting and running.
DriverAnswers(k, a) ==
    IF ~conn THEN a \in {"early", "internal"} /\ UNCHANGED serverVars
    ELSE CASE a = "early" -> UNCHANGED serverVars
           [] a \in {"unknown", "lost"} -> ConnectionGoes(k)
           [] a = "stopped" -> IF k \in CursorCall THEN ConnectionGoes(k) ELSE ServerFails(k, a)
           [] a = "query" -> ServerFails(k, a)
           [] a = "last" -> k = "fetch" /\ (ServerDoes(k, a) \/ ConnectionGoes(k))
           [] a = "ok" -> ServerDoes(k, a)
           [] OTHER -> FALSE

\* Another call of the connection, or a refusal whose record failed.
OthersBar ==
    /\ pc \notin {"closed", "gone"} /\ ~barred
    /\ barred' = TRUE
    /\ UNCHANGED <<sessionVars, callVars, locked, serverVars, pastVars>>

\* A panic of the driver's is_usable.
StatusPanics ==
    /\ pc = "idle" /\ ~retired
    /\ retired' = TRUE
    /\ UNCHANGED <<batch, cursor, callVars, lockVars, serverVars, pastVars>>

-----------------------------------------------------------------------------
(* What the session notes.                                                 *)

\* note_statement; a is the answer the caller gets, "refused" when the call
\* failed without one and "audit" when its record failed.
Noted(b, k, a) ==
    IF ~b.open THEN b
    ELSE [b EXCEPT !.wrote = @ \/ Writes(k),
                   !.uncertain = @ \/ Doubtful(a),
                   !.aborted = IF Postgres /\ (Failed(a) \/ k = "recover") THEN Failed(a) ELSE @]

\* note_cursor_error.
CursorNoted(b, a) ==
    IF ~b.open THEN b
    ELSE [b EXCEPT !.uncertain = @ \/ (~b.ro /\ a \in {"stopped", "early", "unknown"}),
                   !.aborted = @ \/ Postgres]

-----------------------------------------------------------------------------
(* Calls, up to the driver.                                                *)

Begin ==
    /\ Ready /\ ~batch.open
    /\ call' = [kind |-> "begin", chain |-> FALSE]
    /\ Goto("running")
    /\ UNCHANGED <<sessionVars, answer, closing, lockVars, serverVars, pastVars>>

BeginReadOnly ==
    /\ Ready /\ ~batch.open /\ Postgres
    /\ call' = [kind |-> "snapshot", chain |-> FALSE]
    /\ Goto("intending")
    /\ UNCHANGED <<sessionVars, answer, closing, lockVars, serverVars, pastVars>>

\* statement: a read-only batch takes no writes.
StartStatement(k) ==
    /\ Ready
    /\ ~(batch.open /\ batch.ro /\ Writes(k))
    /\ call' = [kind |-> k, chain |-> FALSE]
    /\ Goto("deciding")
    /\ UNCHANGED <<sessionVars, answer, closing, lockVars, serverVars, pastVars>>

\* estimate_blast_radius runs a count in the session itself; a count that
\* fails is no count, and its error is forgotten.
Count ==
    /\ pc = "deciding" /\ Writes(call.kind) /\ ~Locked
    /\ \E a \in Answer : DriverAnswers("count", a)
    /\ Goto("counted")
    /\ UNCHANGED <<sessionVars, call, answer, closing, lockVars, pastVars>>

\* authorize_classified fails: the error goes straight to the caller.
Denied ==
    /\ pc \in {"deciding", "counted"}
    /\ Over
    /\ UNCHANGED <<sessionVars, lockVars, serverVars, pastVars>>

\* require_writable of batch_statement and lone_write.
Allowed ==
    /\ pc \in {"deciding", "counted"}
    /\ IF Writes(call.kind) /\ Locked
       THEN Over /\ batch' = Noted(batch, call.kind, "refused")
       ELSE Goto("intending") /\ UNCHANGED <<batch, call, answer, closing>>
    /\ UNCHANGED <<cursor, retired, lockVars, serverVars, pastVars>>

\* finish, up to its intent.
StartFinish(k, chain) ==
    /\ Ready /\ batch.open
    /\ k = "commit" => ~Locked
    /\ call' = [kind |-> k, chain |-> chain]
    /\ Goto("intending")
    /\ UNCHANGED <<sessionVars, answer, closing, lockVars, serverVars, pastVars>>

\* open_query_cursor_controlled: only in a snapshot, one at a time.
OpenCursor ==
    /\ Ready /\ batch.open /\ batch.ro
    /\ call' = [kind |-> "declare", chain |-> FALSE]
    /\ Goto("intending")
    /\ UNCHANGED <<sessionVars, answer, closing, lockVars, serverVars, pastVars>>

\* fetch_completion_columns_controlled.
CompletionColumns ==
    /\ Ready
    /\ call' = [kind |-> "columns", chain |-> FALSE]
    /\ Goto("intending")
    /\ UNCHANGED <<sessionVars, answer, closing, lockVars, serverVars, pastVars>>

FetchPage ==
    /\ pc = "idle" /\ cursor # "none"
    /\ call' = [kind |-> "fetch", chain |-> FALSE]
    /\ Goto("running")
    /\ UNCHANGED <<sessionVars, answer, closing, lockVars, serverVars, pastVars>>

-----------------------------------------------------------------------------
(* The intent.                                                             *)

\* close after a rollback that failed.
GivesUp == IF batch.ro /\ ~batch.wrote THEN "ending" ELSE "abandoning"

Dispatch == Goto("running") /\ UNCHANGED <<batch, call, answer, closing>>
\* A statement's error is noted; a close that cannot roll back abandons.
NotDispatched ==
    /\ batch' = IF call.kind \in Statement THEN Noted(batch, call.kind, "refused") ELSE batch
    /\ Return(IF closing THEN GivesUp ELSE "idle")

IntentRecorded ==
    /\ pc = "intending"
    /\ Dispatch
    /\ UNCHANGED <<cursor, retired, lockVars, serverVars, pastVars>>

\* Another write is in flight, or one is unresolved and bars the generation.
IntentRefused ==
    /\ pc = "intending" /\ (Writes(call.kind) \/ call.kind = "commit")
    /\ NotDispatched
    /\ barred' \in {barred, TRUE}
    /\ UNCHANGED <<cursor, retired, locked, serverVars, pastVars>>

IntentFails ==
    /\ pc = "intending"
    /\ IF Writes(call.kind) /\ Unaudited THEN Dispatch ELSE NotDispatched
    /\ UNCHANGED <<cursor, retired, lockVars, serverVars, pastVars>>

-----------------------------------------------------------------------------
(* The answer, up to the record of the outcome.                            *)

\* A lost snapshot that wrote nothing has ended, and nothing is in doubt.
SnapshotEnded(k, a) == k \in Finish /\ Ambiguous(a) /\ batch.ro /\ ~batch.wrote

\* audit_transaction_result, audit_write_result and finish lock before they
\* record an answer that leaves the outcome open; the reads of a batch too.
AnswerLocks(k, a) ==
    /\ Ambiguous(a)
    /\ k \in Finish \/ Writes(k) \/ (k \in Statement /\ batch.open)
    /\ ~SnapshotEnded(k, a)

\* begin and begin_read_only remember the batch before anything is awaited.
Begun(k, a) == k \in {"begin", "snapshot"} /\ ~Failed(a)

DriverReturns(a) ==
    /\ pc = "running"
    /\ DriverAnswers(call.kind, a)
    /\ answer' = a
    /\ batch' = IF Begun(call.kind, a) THEN NewBatch(call.kind = "snapshot") ELSE batch
    /\ locked' = (locked \/ AnswerLocks(call.kind, a))
    /\ retired' = (retired \/ (a = "lost" /\ call.kind \in Finish \cup {"begin", "snapshot", "columns"}))
    /\ owes' = (owes \/ (Writes(call.kind) /\ batch.open /\ a # "early"))
    /\ Goto("recording")
    /\ UNCHANGED <<cursor, call, closing, barred, lie, cut>>

-----------------------------------------------------------------------------
(* The record of the outcome and what follows it.                          *)

LostRetires(a) == retired' = (retired \/ a = "lost")

\* Nothing is noted after these; a failed record costs an agent the answer.
EndUnnoted ==
    /\ pc = "recording" /\ call.kind \in {"begin", "snapshot", "columns"}
    /\ Over
    /\ UNCHANGED <<sessionVars, lockVars, serverVars, pastVars>>

\* batch_statement, lone_write, lone_read, then note_statement.
EndStatement(recorded) ==
    /\ pc = "recording" /\ call.kind \in Statement
    /\ LET k == call.kind
           write == Writes(k) \/ (batch.open /\ Failed(answer))
           seen == IF recorded \/ (~write /\ ~Agent) THEN answer ELSE "audit"
       IN /\ batch' = Noted(batch, k, seen)
          /\ LostRetires(seen)
          /\ barred' = (barred \/ (~recorded /\ write))
          /\ locked' = (locked \/ (~recorded /\ Armed(k)))
    /\ Over
    /\ UNCHANGED <<cursor, serverVars, pastVars>>

\* Mutant: an end the server refused counts as done.
OutcomeHasty(k, a) ==
    CASE SnapshotEnded(k, a) -> "rolledback"
      [] a \in {"ok", "query"} -> IF k = "commit" /\ ~batch.aborted THEN "committed" ELSE "rolledback"
      [] a \in {"stopped", "early"} -> "pending"
      [] OTHER -> "unknown"

\* finish_outcome.
Outcome(k, a) ==
    CASE SnapshotEnded(k, a) -> "rolledback"
      [] a = "ok" -> IF k = "commit" /\ ~batch.aborted THEN "committed" ELSE "rolledback"
      [] a \in {"stopped", "early"} -> "pending"
      [] a = "query" -> "failed"
      [] OTHER -> "unknown"

\* A record that says s of a transaction with another fate, no call having been
\* dropped and no transaction having strayed; how a snapshot that wrote nothing
\* ended makes no difference.
Lie(s) ==
    IF ~cut /\ ~strayed /\ ~batch.ro /\ s \in {"committed", "rolledback"} /\ fate # s THEN s ELSE lie

Definite(s) == s \in {"committed", "rolledback", "failed"}

\* Mutant: a commit the server refused keeps the batch.
AfterFinishKept(k, chain, a) ==
    CASE SnapshotEnded(k, a) -> NoBatch
      [] a = "ok" -> IF chain THEN NewBatch(batch.ro) ELSE NoBatch
      [] OTHER -> [batch EXCEPT !.uncertain = @ \/ Ambiguous(a)]

\* How finish leaves the batch.
AfterFinish(k, chain, a) ==
    CASE SnapshotEnded(k, a) -> NoBatch
      [] a = "ok" -> IF chain THEN NewBatch(batch.ro) ELSE NoBatch
      [] k = "commit" /\ a = "query" -> NoBatch
      [] OTHER -> [batch EXCEPT !.uncertain = @ \/ Ambiguous(a)]

EndFinish(recorded) ==
    /\ pc = "recording" /\ call.kind \in Finish
    /\ LET s == Outcome(call.kind, answer)
       IN /\ batch' = AfterFinish(call.kind, call.chain, answer)
          /\ barred' = (barred \/ ~recorded)
          /\ locked' = (locked \/ ~recorded)
          /\ lie' = IF recorded THEN Lie(s) ELSE lie
          /\ owes' = (owes /\ ~(recorded /\ Definite(s)))
          /\ Return(IF ~closing THEN "idle"
                    ELSE IF batch'.open /\ (Failed(answer) \/ ~recorded) THEN GivesUp ELSE "closed")
    /\ UNCHANGED <<cursor, retired, serverVars, cut>>

-----------------------------------------------------------------------------
(* Cursors.                                                                *)

\* open_authorized_cursor.
EndOpenCursor ==
    /\ pc = "recording" /\ call.kind = "declare"
    /\ IF Failed(answer)
       THEN /\ batch' = CursorNoted(batch, answer) /\ UNCHANGED cursor
            /\ retired' = (retired \/ answer \in {"unknown", "lost"})
       ELSE cursor' = "open" /\ UNCHANGED <<batch, retired>>
    /\ Over
    /\ UNCHANGED <<lockVars, serverVars, pastVars>>

\* CLOSE on the server: fine, or the connection is gone.
DriverClosesCursor(ok) ==
    /\ ok => conn /\ dcursor # "none"
    /\ dcursor' = "none"
    /\ IF ok \/ ~conn THEN UNCHANGED <<conn, tx, fate>>
       ELSE conn' = FALSE /\ tx' = "none" /\ fate' \in LostFate("fetch")
    /\ UNCHANGED strayed

\* fetch_query_cursor_page_controlled after the page: an error, or a page an
\* agent may not see for want of a record, gives the cursor up.
EndFetch(recorded) ==
    /\ pc = "recording" /\ call.kind = "fetch"
    /\ IF Failed(answer) \/ (~recorded /\ Agent)
       THEN \E ok \in BOOLEAN :
              /\ DriverClosesCursor(ok)
              /\ cursor' = "none"
              /\ batch' = IF Failed(answer) THEN CursorNoted(batch, answer) ELSE batch
              /\ retired' = (retired \/ answer \in {"unknown", "lost"} \/ ~ok \/ ~conn')
       ELSE /\ cursor' = IF answer = "last" THEN "complete" ELSE cursor
            /\ UNCHANGED <<batch, retired, serverVars>>
    /\ Over
    /\ UNCHANGED <<lockVars, pastVars>>

\* close_active_cursor; an agent's missing record retires the session too.
ReleaseCursor ==
    /\ cursor # "none"
    /\ cursor' = "none"
    /\ \E ok, recorded \in BOOLEAN :
          /\ DriverClosesCursor(ok)
          /\ retired' = (retired \/ ~ok \/ (Agent /\ ~recorded /\ cursor = "open"))
    /\ UNCHANGED batch

CloseCursor ==
    /\ pc = "idle"
    /\ ReleaseCursor
    /\ UNCHANGED <<callVars, lockVars, pastVars>>

-----------------------------------------------------------------------------
(* The end of the session.                                                 *)

Close ==
    /\ pc = "idle"
    /\ closing' = TRUE
    /\ Goto("closing")
    /\ IF cursor = "none" THEN UNCHANGED <<sessionVars, serverVars>> ELSE ReleaseCursor
    /\ UNCHANGED <<call, answer, lockVars, pastVars>>

\* What close does with an open batch: record that a lost snapshot ended, roll
\* back what it can, give up the rest.
CloseBatch ==
    /\ pc = "closing"
    /\ CASE ~batch.open -> Goto("closed") /\ UNCHANGED call
         [] batch.open /\ ~Usable /\ batch.ro /\ ~batch.wrote -> Goto("ending") /\ UNCHANGED call
         [] batch.open /\ Usable /\ ~batch.uncertain ->
                Goto("intending") /\ call' = [kind |-> "rollback", chain |-> FALSE]
         [] OTHER -> Goto("abandoning") /\ UNCHANGED call
    /\ UNCHANGED <<sessionVars, answer, closing, lockVars, serverVars, pastVars>>

\* handle_write_outcome_failure: a record that fails disables writes globally.
GiveUp(said, recorded) ==
    /\ barred' = (barred \/ ~recorded)
    /\ lie' = IF recorded THEN Lie(said) ELSE lie
    /\ batch' = NoBatch
    /\ Goto("closed")
    /\ UNCHANGED <<cursor, retired, call, answer, closing, serverVars, owes, cut>>

\* record_ended_read_only_batch.
RecordEnded(recorded) ==
    /\ pc = "ending"
    /\ GiveUp("rolledback", recorded)
    /\ UNCHANGED locked

\* Mutant: giving a transaction up does not lock.
AbandonQuietly(recorded) ==
    /\ pc = "abandoning"
    /\ GiveUp("unknown", recorded)
    /\ UNCHANGED locked

\* record_abandoned_transaction.
Abandon(recorded) ==
    /\ pc = "abandoning"
    /\ GiveUp("unknown", recorded)
    /\ locked' = TRUE

\* inner.close.
CloseDriver ==
    /\ pc = "closed" /\ conn
    /\ ConnectionGoes("none")
    /\ UNCHANGED <<sessionVars, callVars, lockVars, pastVars>>

\* The future of a call is dropped.  A connection handed to the driver goes
\* with it, and an armed PendingWrite locks; nothing else is noted.
DropCall ==
    /\ pc \in {"deciding", "counted", "intending", "running", "recording"}
    /\ ~(pc = "recording" /\ call.kind = "begin")
    /\ cut' = TRUE
    /\ locked' = (locked \/ (Armed(call.kind) /\ pc \in {"running", "recording"}))
    /\ IF pc = "running" /\ conn THEN ConnectionGoes(call.kind) ELSE UNCHANGED serverVars
    /\ owes' = (owes \/ (pc = "running" /\ Writes(call.kind) /\ batch.open))
    /\ Return(IF closing THEN "gone" ELSE "idle")
    /\ UNCHANGED <<sessionVars, barred, lie>>

\* The caller lets go of the session without closing it.
DropSession ==
    /\ pc = "idle"
    /\ Goto("gone")
    /\ ConnectionGoes("none")
    /\ UNCHANGED <<sessionVars, call, answer, closing, lockVars, pastVars>>

-----------------------------------------------------------------------------
Calls ==
    \/ Begin \/ BeginReadOnly
    \/ \E k \in Statement : StartStatement(k)
    \/ Count \/ Denied \/ Allowed
    \/ \E k \in Finish, chain \in BOOLEAN : StartFinish(k, chain)
    \/ CompletionColumns \/ OpenCursor \/ FetchPage \/ CloseCursor

Steps ==
    \/ IntentRecorded \/ IntentRefused \/ IntentFails
    \/ \E a \in Answer : DriverReturns(a)
    \/ EndUnnoted \/ EndOpenCursor
    \/ \E recorded \in BOOLEAN : EndStatement(recorded) \/ EndFinish(recorded) \/ EndFetch(recorded)

Ends ==
    \/ Close \/ CloseBatch \/ CloseDriver
    \/ \E recorded \in BOOLEAN : RecordEnded(recorded) \/ Abandon(recorded)
    \/ DropCall \/ DropSession

Next == (Calls \/ Steps \/ Ends \/ OthersBar \/ StatusPanics) /\ UNCHANGED profile

Spec == Init /\ [][Next]_vars

-----------------------------------------------------------------------------
(* Properties.                                                             *)

\* As long as the server's transactions begin and end only by the session's
\* own BEGIN, COMMIT and ROLLBACK, a usable session's idea of its transaction is
\* the server's.  When it tracks none there is none, so that the statement it
\* runs next takes effect by itself, as its record will say; when it tracks
\* one, and no call was dropped, there is one for a COMMIT to commit (begin,
\* begin_read_only, finish; over failed, chained, cancelled and lost ends).
TransactionTracked ==
    Usable /\ ~strayed =>
        /\ pc \in {"idle", "deciding", "counted", "intending"} /\ ~batch.open => tx = "none"
        /\ pc = "idle" /\ ~cut /\ batch.open => tx # "none"

\* A session closed while a write it sent in a batch has no recorded end has
\* barred further writes, whatever became of the server's transaction meanwhile
\* (close, record_abandoned_transaction).
ClosedAccounted == pc = "closed" /\ owes => Locked

\* Unless a call was dropped or a transaction strayed, a transaction on record
\* as committed was, and one on record as rolled back was (finish_outcome), on
\* the engines where a failed statement leaves the transaction alone.  On
\* PostgreSQL the session can only infer from the answers it noted whether the
\* server aborted.
EndTold == ~Postgres => lie = "none"

\* CHANGELOG.md: "the transaction BookiE tracks always matches the one on the
\* server".  It does not: statement() dispatches statements that begin or end a
\* transaction on MySQL, SQL Server and SQLite, and note_statement leaves the
\* batch open after an error that ended the transaction.
TransactionMatches ==
    Usable /\ ~Postgres /\ pc = "idle" /\ ~cut => (batch.open <=> tx # "none")
=============================================================================
