------------------------ MODULE PolicySessionProofs ------------------------
(***************************************************************************)
(* Proofs about PolicySession.                                             *)
(*                                                                         *)
(* The batch and the server's transaction are compared at every step of a  *)
(* call, not only between calls (Tracked): they differ while the answer to *)
(* COMMIT or ROLLBACK is being recorded, and then the answer says how they *)
(* differ (EndSeen).  Once the transaction has strayed nothing of this is  *)
(* claimed.  A write of a batch without a recorded end is in a batch that  *)
(* knows of it, or writes are barred (Owed), strayed or not.               *)
(***************************************************************************)
EXTENDS PolicySession, TLAPS

Batches == [open : BOOLEAN, ro : BOOLEAN, wrote : BOOLEAN, uncertain : BOOLEAN, aborted : BOOLEAN]
CallRecords == [kind : Kind, chain : BOOLEAN]

TypeOK ==
    /\ profile \in Profiles /\ batch \in Batches /\ call \in CallRecords
    /\ cursor \in {"none", "open", "complete"} /\ dcursor \in {"none", "open", "failed"}
    /\ pc \in {"idle", "deciding", "counted", "intending", "running", "recording", "closing",
               "ending", "abandoning", "closed", "gone"}
    /\ answer \in Answer
    /\ retired \in BOOLEAN /\ closing \in BOOLEAN /\ locked \in BOOLEAN /\ barred \in BOOLEAN
    /\ conn \in BOOLEAN /\ strayed \in BOOLEAN /\ owes \in BOOLEAN /\ cut \in BOOLEAN
    /\ tx \in {"none", "open", "aborted"} /\ fate \in Fate /\ lie \in Fate

\* The answer to COMMIT or ROLLBACK is being recorded.
Ending == pc = "recording" /\ call.kind \in Finish

\* A batch is open exactly while the server is in a transaction, up to a call
\* that was dropped, a lost connection and the answer that ends the two, as long
\* as the transaction does not stray.
Tracked ==
    /\ ~conn => tx = "none"
    /\ ~strayed /\ pc # "closed" /\ ~batch.open => tx = "none"
    /\ ~strayed /\ conn /\ ~cut /\ batch.open /\ ~Ending => tx # "none"

\* Once ROLLBACK was answered the transaction was rolled back, on PostgreSQL
\* too, unless a call was dropped or a transaction strayed.
RollbackTold ==
    Ending /\ call.kind = "rollback" /\ answer = "ok" /\ ~cut /\ ~strayed => fate = "rolledback"

\* What the answer to COMMIT or ROLLBACK says of the transaction.
EndSeen ==
    Ending =>
        /\ Ambiguous(answer) => locked \/ (batch.ro /\ ~batch.wrote)
        /\ answer # "last"
        /\ ~strayed =>
              /\ answer = "ok" /\ ~call.chain => tx = "none"
              /\ answer = "query" /\ call.kind = "commit" => tx = "none"
              /\ conn /\ ~cut => \/ answer = "ok" /\ ~call.chain
                                 \/ answer = "query" /\ call.kind = "commit"
                                 \/ tx # "none"
              /\ ~Postgres /\ ~cut /\ answer = "ok" =>
                    fate = IF call.kind = "commit" THEN "committed" ELSE "rolledback"
              /\ call.kind = "rollback" /\ answer = "ok" /\ ~cut => fate = "rolledback"

\* Only statements are decided on, only a batch is ended and none is begun in
\* another; an ambiguous answer costs the connection.
Dispatched ==
    /\ pc \in {"deciding", "counted"} => call.kind \in Statement
    /\ pc \in {"intending", "running", "recording"} /\ call.kind \in Finish => batch.open
    /\ pc \in {"intending", "running"} /\ call.kind \in {"begin", "snapshot"} => ~batch.open
    /\ pc = "recording" /\ Ambiguous(answer) => ~conn

\* close runs nothing but a rollback, and leaves no batch.
ClosingRollsBack ==
    /\ closing => pc \notin {"idle", "deciding", "counted"}
    /\ closing /\ pc \in {"intending", "running", "recording"} => call.kind = "rollback" /\ ~call.chain
    /\ pc = "ending" => batch.ro /\ ~batch.wrote
    /\ pc = "closed" => ~batch.open

\* A write without a recorded end is in an open batch that noted it, or is
\* about to, or writes are barred.
Owed ==
    owes => Locked \/ (batch.open /\ (batch.wrote \/ (pc = "recording" /\ Writes(call.kind))))

\* Only PostgreSQL aborts a transaction.
NoAbort == ~Postgres => tx # "aborted" /\ ~batch.aborted

SessionInv ==
    TypeOK /\ Tracked /\ EndSeen /\ Dispatched /\ ClosingRollsBack /\ Owed /\ NoAbort /\ EndTold

-----------------------------------------------------------------------------
(* What the session notes.                                                 *)

\* note_statement keeps the batch open and its mode, and remembers a write.
LEMMA NotedFacts ==
    ASSUME NEW b \in Batches, NEW k, NEW a
    PROVE  /\ Noted(b, k, a) \in Batches
           /\ Noted(b, k, a).open = b.open
           /\ Noted(b, k, a).ro = b.ro
           /\ b.wrote => Noted(b, k, a).wrote
           /\ b.open /\ Writes(k) => Noted(b, k, a).wrote
           /\ ~Postgres => Noted(b, k, a).aborted = b.aborted
<1>1. CASE ~b.open
  BY <1>1 DEF Noted
<1>2. CASE b.open
  <2> DEFINE ab == IF Postgres /\ (Failed(a) \/ k = "recover") THEN Failed(a) ELSE b.aborted
             n == [b EXCEPT !.wrote = @ \/ Writes(k), !.uncertain = @ \/ Doubtful(a), !.aborted = ab]
  <2>1. Noted(b, k, a) = n
    BY <1>2 DEF Noted
  <2>2. ab \in BOOLEAN /\ (~Postgres => ab = b.aborted)
    BY DEF Batches, Failed
  <2>3. n \in Batches
    BY <2>2 DEF Batches, Writes, Doubtful
  <2>4. n.open = b.open /\ n.ro = b.ro /\ n.wrote = (b.wrote \/ Writes(k)) /\ n.aborted = ab
    BY DEF Batches
  <2> QED BY <2>1, <2>2, <2>3, <2>4
<1> QED BY <1>1, <1>2

\* note_cursor_error keeps the batch open, its mode and its writes.
LEMMA CursorNotedFacts ==
    ASSUME NEW b \in Batches, NEW a
    PROVE  /\ CursorNoted(b, a) \in Batches
           /\ CursorNoted(b, a).open = b.open
           /\ CursorNoted(b, a).ro = b.ro
           /\ CursorNoted(b, a).wrote = b.wrote
           /\ ~Postgres => CursorNoted(b, a).aborted = b.aborted
<1>1. CASE ~b.open
  BY <1>1 DEF CursorNoted
<1>2. CASE b.open
  <2> DEFINE un == b.uncertain \/ (~b.ro /\ a \in {"stopped", "early", "unknown"})
             ab == b.aborted \/ Postgres
             n == [b EXCEPT !.uncertain = un, !.aborted = ab]
  <2>1. CursorNoted(b, a) = n
    BY <1>2 DEF CursorNoted
  <2>2. un \in BOOLEAN /\ ab \in BOOLEAN /\ (~Postgres => ab = b.aborted)
    BY DEF Batches
  <2>3. n \in Batches
    BY <2>2 DEF Batches
  <2>4. n.open = b.open /\ n.ro = b.ro /\ n.wrote = b.wrote /\ n.aborted = ab
    BY DEF Batches
  <2> QED BY <2>1, <2>2, <2>3, <2>4
<1> QED BY <1>1, <1>2

\* No batch is open after its end; a new one has written nothing.
LEMMA NewBatchFacts ==
    /\ NoBatch \in Batches /\ ~NoBatch.open /\ ~NoBatch.aborted
    /\ \A ro \in BOOLEAN :
          /\ NewBatch(ro) \in Batches /\ NewBatch(ro).open /\ NewBatch(ro).ro = ro
          /\ ~NewBatch(ro).wrote /\ ~NewBatch(ro).aborted
BY DEF NoBatch, NewBatch, Batches

\* The records of calls.
LEMMA CallFacts ==
    /\ NoCall \in CallRecords /\ NoCall.kind = "none"
    /\ \A k \in Kind, c \in BOOLEAN : [kind |-> k, chain |-> c] \in CallRecords
BY DEF NoCall, CallRecords, Kind

\* finish keeps a batch that it does not end, but for the doubt.
LEMMA KeptFacts ==
    ASSUME NEW b \in Batches, NEW doubt \in BOOLEAN
    PROVE  LET n == [b EXCEPT !.uncertain = @ \/ doubt]
           IN  /\ n \in Batches /\ n.open = b.open /\ n.ro = b.ro /\ n.wrote = b.wrote
               /\ n.aborted = b.aborted
BY DEF Batches

-----------------------------------------------------------------------------
(* The server and the driver.                                              *)

\* What an answer of the driver says of the connection and the transaction.
LEMMA AnswerFacts ==
    ASSUME TypeOK, ~conn => tx = "none", NEW k \in Kind, NEW a \in Answer, DriverAnswers(k, a)
    PROVE  /\ conn' \in BOOLEAN /\ dcursor' \in {"none", "open", "failed"}
           /\ tx' \in {"none", "open", "aborted"} /\ fate' \in Fate
           /\ ~conn' => tx' = "none"
           /\ conn' => conn
           /\ Ambiguous(a) => ~conn'
           /\ a = "last" => k = "fetch"
           /\ ~Postgres /\ tx # "aborted" => tx' # "aborted"
           /\ strayed' \in BOOLEAN /\ (strayed => strayed')
           /\ ~strayed' =>
                 /\ k \notin Finish /\ conn' /\ tx # "none" => tx' # "none"
                 /\ k \notin Finish /\ tx = "none" => tx' = "none" \/ Begun(k, a)
                 /\ Begun(k, a) => tx' = "open"
<1>1. CASE ~conn
  BY <1>1 DEF DriverAnswers, serverVars, TypeOK, Ambiguous, Begun, Failed
<1>2. CASE conn /\ a = "early"
  BY <1>2 DEF DriverAnswers, serverVars, TypeOK, Ambiguous, Begun, Failed
<1>3. CASE conn /\ ConnectionGoes(k) /\ a \in {"unknown", "lost", "stopped", "last"} /\ (a = "last" => k = "fetch")
  <2>1. fate' \in Fate
    BY <1>3 DEF ConnectionGoes, LostFate, TypeOK, Fate
  <2> QED BY <1>3, <2>1 DEF ConnectionGoes, TypeOK, Ambiguous, Begun, Failed
<1>s. ASSUME NEW may, Strays(may)
      PROVE  /\ tx' \in {"none", "open"} /\ fate' \in Fate /\ strayed' = TRUE
  BY <1>s DEF Strays, TypeOK, Fate
<1>4. CASE conn /\ ServerFails(k, a) /\ a \in {"stopped", "query"}
  <2>1. conn' = conn /\ dcursor' \in {"none", "open", "failed"}
    BY <1>4 DEF ServerFails, TypeOK
  <2>2. CASE Strays(tx = "open" /\ k # "rollback")
    BY <1>4, <1>s, <2>1, <2>2 DEF Ambiguous
  <2>3. CASE ~Strays(tx = "open" /\ k # "rollback")
    BY <1>4, <2>1, <2>3 DEF ServerFails, TypeOK, Ambiguous, Begun, Failed, Finish, Fate
  <2> QED BY <2>2, <2>3
<1>5. CASE conn /\ ServerDoes(k, a) /\ a \in {"ok", "last"} /\ (a = "last" => k = "fetch")
  <2>1. conn' = conn /\ dcursor' \in {"none", "open", "failed"}
    BY <1>5 DEF ServerDoes, TypeOK
  <2> DEFINE stray == Strays(k \in Statement /\ ~batch.ro)
  <2>2. CASE stray
    BY <1>5, <1>s, <2>1, <2>2 DEF Ambiguous
  <2>3. CASE ~stray
    <3>1. fate' \in Fate /\ strayed' = strayed
      BY <1>5, <2>3 DEF ServerDoes, TypeOK, Fate
    <3>2. tx' \in {"none", "open", "aborted"} /\ (~Postgres /\ tx # "aborted" => tx' # "aborted")
      BY <1>5, <2>3 DEF ServerDoes, TypeOK
    <3>3. k \notin Finish => /\ tx # "none" => tx' # "none"
                             /\ tx = "none" => tx' = "none" \/ Begun(k, a)
      BY <1>5, <2>3 DEF ServerDoes, TypeOK, Begun, Failed, Finish, CursorCall
    <3>4. Begun(k, a) => tx' = "open"
      BY <1>5, <2>3 DEF ServerDoes, Begun, Finish
    <3> QED BY <1>5, <2>1, <3>1, <3>2, <3>3, <3>4 DEF Ambiguous, TypeOK
  <2> QED BY <2>2, <2>3
<1> QED BY <1>1, <1>2, <1>3, <1>4, <1>5 DEF DriverAnswers, Answer

\* What the answer to COMMIT or ROLLBACK says of them.
LEMMA FinishFacts ==
    ASSUME TypeOK, ~conn => tx = "none", NEW a \in Answer, call.kind \in Finish,
           DriverAnswers(call.kind, a), ~strayed'
    PROVE  /\ a # "last"
           /\ a = "ok" => /\ tx' = IF call.chain /\ tx # "none" THEN "open" ELSE "none"
                          /\ tx = "open" => fate' = IF call.kind = "commit" THEN "committed" ELSE "rolledback"
                          /\ tx # "none" /\ call.kind = "rollback" => fate' = "rolledback"
           /\ a = "query" /\ call.kind = "commit" => tx' = "none"
           /\ conn' /\ a # "ok" /\ ~(a = "query" /\ call.kind = "commit") => tx' = tx
<1>1. CASE ~conn
  BY <1>1 DEF DriverAnswers, serverVars, TypeOK
<1>2. CASE conn /\ (a = "early" \/ ConnectionGoes(call.kind)) /\ a # "ok" /\ a # "last" /\ a # "query"
  BY <1>2 DEF DriverAnswers, serverVars, ConnectionGoes, Answer
<1>3. CASE conn /\ ServerFails(call.kind, a) /\ a \in {"stopped", "query"}
  BY <1>3 DEF ServerFails, Strays, Finish
<1>4. CASE conn /\ ServerDoes(call.kind, a) /\ a = "ok"
  BY <1>4 DEF ServerDoes, Strays, Finish
<1> QED BY <1>1, <1>2, <1>3, <1>4 DEF DriverAnswers, Answer, Finish, CursorCall

\* Closing a cursor keeps the connection and with it the transaction, or loses
\* both.
LEMMA CursorFacts ==
    ASSUME TypeOK, ~conn => tx = "none", NEW ok \in BOOLEAN, DriverClosesCursor(ok)
    PROVE  /\ conn' \in BOOLEAN /\ dcursor' \in {"none", "open", "failed"}
           /\ tx' \in {"none", tx} /\ fate' \in Fate
           /\ ~conn' => tx' = "none"
           /\ conn' => conn /\ tx' = tx
           /\ strayed' = strayed
<1>1. CASE ok \/ ~conn
  BY <1>1 DEF DriverClosesCursor, TypeOK
<1>2. CASE ~ok /\ conn
  <2>1. fate' \in Fate
    BY <1>2 DEF DriverClosesCursor, LostFate, TypeOK, Fate
  <2> QED BY <1>2, <2>1 DEF DriverClosesCursor, TypeOK
<1> QED BY <1>1, <1>2

-----------------------------------------------------------------------------
(* Steps that leave the batch, the server and the past alone.              *)

\* A session is wrapped with no batch and no transaction.
LEMMA SessionInit == Init => SessionInv
BY NewBatchFacts, CallFacts
DEF Init, SessionInv, TypeOK, Tracked, EndSeen, Ending, Dispatched, ClosingRollsBack, Owed, NoAbort,
    EndTold, NoCall, Fate, Answer, Finish, Locked

\* Such a step keeps the invariant if the call it leads to is in order.
LEMMA QuietStep ==
    ASSUME SessionInv, TypeOK', UNCHANGED <<profile, batch, serverVars, pastVars>>,
           Locked => Locked',
           pc' \notin {"recording", "closed"}, pc # "closed",
           pc' \in {"deciding", "counted"} => call'.kind \in Statement,
           pc' \in {"intending", "running"} /\ call'.kind \in Finish => batch.open,
           pc' \in {"intending", "running"} /\ call'.kind \in {"begin", "snapshot"} => ~batch.open,
           ~Ending, ~(pc = "recording" /\ Writes(call.kind)),
           ClosingRollsBack'
    PROVE  SessionInv'
<1> USE DEF SessionInv
<1>1. Tracked' /\ EndSeen' /\ Dispatched'
  BY DEF Tracked, EndSeen, Dispatched, Ending, serverVars, pastVars, Postgres
<1>2. Owed' /\ NoAbort' /\ EndTold'
  BY DEF Owed, NoAbort, EndTold, Writes, serverVars, pastVars, Postgres
<1> QED BY <1>1, <1>2

\* The calls of an idle session, up to their first await.
LEMMA StartKeeps ==
    ASSUME SessionInv, UNCHANGED profile,
           \/ Begin \/ BeginReadOnly \/ CompletionColumns \/ OpenCursor \/ FetchPage
           \/ \E k \in Statement : StartStatement(k)
           \/ \E k \in Finish, chain \in BOOLEAN : StartFinish(k, chain)
    PROVE  SessionInv'
<1> DEFINE InOrder == /\ call' \in CallRecords /\ (call'.kind \in Finish => batch.open)
                      /\ call'.kind \in {"begin", "snapshot"} => ~batch.open
<1>1. ASSUME NEW k \in Kind, NEW c \in BOOLEAN, call' = [kind |-> k, chain |-> c], k \in Finish => batch.open,
             k \in {"begin", "snapshot"} => ~batch.open
      PROVE  InOrder
  BY <1>1, CallFacts
<1>2. /\ pc = "idle" /\ pc' \in {"running", "intending", "deciding"}
      /\ UNCHANGED <<sessionVars, answer, closing, lockVars, serverVars, pastVars>>
  BY DEF Begin, BeginReadOnly, CompletionColumns, OpenCursor, FetchPage, StartStatement, StartFinish,
         Goto, Ready
<1>3. InOrder
  <2> HIDE DEF InOrder
  <2>1. CASE Begin \/ BeginReadOnly \/ CompletionColumns
    BY <1>1, <2>1 DEF Begin, BeginReadOnly, CompletionColumns, Kind, Finish
  <2>2. CASE OpenCursor \/ FetchPage
    BY <1>1, <2>2 DEF OpenCursor, FetchPage, Kind, Finish, CursorCall
  <2>3. CASE \E k \in Statement : StartStatement(k)
    BY <1>1, <2>3 DEF StartStatement, Kind, Statement, Finish
  <2>4. CASE \E k \in Finish, chain \in BOOLEAN : StartFinish(k, chain)
    BY <1>1, <2>4 DEF StartFinish, Kind, Finish
  <2> QED BY <2>1, <2>2, <2>3, <2>4
<1>4. pc' \in {"deciding", "counted"} => call'.kind \in Statement
  BY DEF Begin, BeginReadOnly, CompletionColumns, OpenCursor, FetchPage, StartStatement, StartFinish,
         Goto
<1>5. TypeOK'
  BY <1>2, <1>3 DEF SessionInv, TypeOK, sessionVars, lockVars, serverVars, pastVars
<1>6. ClosingRollsBack'
  BY <1>2 DEF SessionInv, ClosingRollsBack, sessionVars
<1> QED BY <1>2, <1>3, <1>4, <1>5, <1>6, QuietStep DEF sessionVars, lockVars, Locked, Ending

\* Another call bars writes, or the driver's status panics.
LEMMA OthersKeep ==
    ASSUME SessionInv, UNCHANGED profile, OthersBar \/ StatusPanics
    PROVE  SessionInv'
<1> USE DEF SessionInv
<1>1. /\ UNCHANGED <<batch, pc, call, answer, closing, locked, serverVars, pastVars>>
      /\ barred => barred'
  BY DEF OthersBar, StatusPanics, sessionVars, callVars, lockVars
<1>2. TypeOK'
  <2>1. barred' \in BOOLEAN /\ retired' \in BOOLEAN /\ cursor' = cursor
    BY DEF OthersBar, StatusPanics, TypeOK, sessionVars, lockVars
  <2> QED BY <1>1, <2>1 DEF TypeOK, serverVars, pastVars
<1>3. Tracked' /\ EndSeen' /\ Dispatched' /\ ClosingRollsBack'
  BY <1>1 DEF Tracked, EndSeen, Ending, Dispatched, ClosingRollsBack, serverVars, pastVars, Postgres
<1>4. Owed' /\ NoAbort' /\ EndTold'
  BY <1>1 DEF Owed, Locked, NoAbort, EndTold, serverVars, pastVars, Postgres
<1> QED BY <1>2, <1>3, <1>4

\* A denied call, an intent on record, and the end of a call after which
\* nothing is noted.
LEMMA PassKeeps ==
    ASSUME SessionInv, UNCHANGED profile, Denied \/ IntentRecorded \/ EndUnnoted
    PROVE  SessionInv'
<1>1. /\ UNCHANGED <<sessionVars, closing, lockVars, serverVars, pastVars>>
      /\ \/ pc \in {"deciding", "counted"} /\ pc' = "idle" /\ call' = NoCall /\ answer' = "none"
         \/ pc = "intending" /\ pc' = "running" /\ UNCHANGED <<call, answer>>
         \/ /\ pc = "recording" /\ call.kind \in {"begin", "snapshot", "columns"}
            /\ pc' = "idle" /\ call' = NoCall /\ answer' = "none"
  BY DEF Denied, IntentRecorded, EndUnnoted, Over, Return, Goto, Dispatch, sessionVars
<1>2. TypeOK'
  BY <1>1, CallFacts DEF SessionInv, TypeOK, sessionVars, lockVars, serverVars, pastVars, Answer
<1>3. ClosingRollsBack'
  BY <1>1, CallFacts DEF SessionInv, ClosingRollsBack, sessionVars
<1>4. pc' \in {"intending", "running"} =>
        /\ call'.kind \in Finish => batch.open
        /\ call'.kind \in {"begin", "snapshot"} => ~batch.open
  BY <1>1 DEF SessionInv, Dispatched
<1>5. ~Ending /\ ~(pc = "recording" /\ Writes(call.kind))
  BY <1>1 DEF Ending, Writes, Finish
<1> QED BY <1>1, <1>2, <1>3, <1>4, <1>5, QuietStep DEF sessionVars, lockVars, Locked

-----------------------------------------------------------------------------
(* Statements up to the driver.                                            *)

\* The count runs in the session, so it may abort the transaction or lose it.
LEMMA CountKeeps ==
    ASSUME SessionInv, UNCHANGED profile, Count
    PROVE  SessionInv'
<1> USE DEF SessionInv
<1>1. PICK a \in Answer : DriverAnswers("count", a)
  BY DEF Count
<1>2. /\ pc = "deciding" /\ pc' = "counted"
      /\ UNCHANGED <<batch, cursor, retired, call, answer, closing, locked, barred, lie, owes, cut>>
  BY DEF Count, Goto, sessionVars, lockVars, pastVars
<1>3. /\ conn' \in BOOLEAN /\ dcursor' \in {"none", "open", "failed"}
      /\ tx' \in {"none", "open", "aborted"} /\ fate' \in Fate
      /\ ~conn' => tx' = "none"
      /\ conn' => conn
      /\ ~Postgres /\ tx # "aborted" => tx' # "aborted"
      /\ strayed' \in BOOLEAN /\ (strayed => strayed')
      /\ ~strayed' => (conn' /\ tx # "none" => tx' # "none") /\ (tx = "none" => tx' = "none")
  BY <1>1, AnswerFacts DEF Tracked, Kind, Statement, Finish, Begun
<1>4. TypeOK'
  BY <1>2, <1>3 DEF TypeOK
<1>5. Tracked' /\ EndSeen' /\ Dispatched'
  BY <1>2, <1>3 DEF Tracked, EndSeen, Ending, Dispatched
<1>6. ClosingRollsBack' /\ Owed' /\ NoAbort' /\ EndTold'
  BY <1>2, <1>3 DEF ClosingRollsBack, Owed, Locked, NoAbort, EndTold, Postgres
<1> QED BY <1>4, <1>5, <1>6

\* A call that ends before it reaches the driver: a statement is noted, a close
\* gives the batch up.
LEMMA UndoneKeeps ==
    ASSUME SessionInv, UNCHANGED <<profile, cursor, retired, closing, locked, serverVars, pastVars>>,
           pc \in {"deciding", "counted", "intending"},
           barred => barred', barred' \in BOOLEAN,
           \/ batch' = batch
           \/ batch' = Noted(batch, call.kind, "refused") /\ call.kind \in Statement,
           call' = NoCall, answer' = "none",
           pc' = IF closing THEN GivesUp ELSE "idle"
    PROVE  SessionInv'
<1> USE DEF SessionInv
<1>1. /\ batch' \in Batches /\ batch'.open = batch.open /\ batch'.ro = batch.ro
      /\ batch.wrote => batch'.wrote
      /\ ~Postgres => batch'.aborted = batch.aborted
  BY NotedFacts DEF TypeOK
<1>2. /\ pc' \in {"idle", "ending", "abandoning"} /\ (closing => pc' # "idle")
      /\ pc' = "ending" => batch.ro /\ ~batch.wrote /\ batch' = batch
  BY DEF GivesUp, ClosingRollsBack, Statement
<1>3. TypeOK'
  BY <1>1, <1>2, CallFacts DEF TypeOK, serverVars, pastVars, Answer
<1>4. Tracked' /\ EndSeen' /\ Dispatched'
  BY <1>1, <1>2 DEF Tracked, EndSeen, Ending, Dispatched, serverVars, pastVars
<1>5. ClosingRollsBack'
  BY <1>1, <1>2 DEF ClosingRollsBack
<1>6. Owed' /\ NoAbort' /\ EndTold'
  BY <1>1, <1>2 DEF Owed, Locked, NoAbort, EndTold, Postgres, serverVars, pastVars
<1> QED BY <1>3, <1>4, <1>5, <1>6

\* An allowed call goes to its intent, or meets the lock and is noted.
LEMMA AllowedKeeps ==
    ASSUME SessionInv, UNCHANGED profile, Allowed
    PROVE  SessionInv'
<1>1. CASE Writes(call.kind) /\ Locked
  <2>1. ~closing
    BY DEF SessionInv, ClosingRollsBack, Allowed
  <2> QED
    BY <1>1, <2>1, UndoneKeeps
    DEF Allowed, Over, Return, Goto, lockVars, Writes, Statement, SessionInv, TypeOK
<1>2. CASE ~(Writes(call.kind) /\ Locked)
  <2>1. /\ pc \in {"deciding", "counted"} /\ pc' = "intending"
        /\ UNCHANGED <<batch, call, answer, closing, cursor, retired, lockVars, serverVars, pastVars>>
    BY <1>2 DEF Allowed, Goto
  <2>2. TypeOK'
    BY <2>1 DEF SessionInv, TypeOK, lockVars, serverVars, pastVars
  <2>3. ~closing /\ ClosingRollsBack'
    BY <2>1 DEF SessionInv, ClosingRollsBack
  <2>4. call.kind \notin Finish /\ call.kind \notin {"begin", "snapshot"}
    BY <2>1 DEF SessionInv, Dispatched, Statement, Finish
  <2> QED BY <2>1, <2>2, <2>3, <2>4, QuietStep DEF lockVars, Locked, Ending
<1> QED BY <1>1, <1>2

\* The intent is refused or fails: the call is not dispatched, unless writes may
\* run without a record.
LEMMA IntentKeeps ==
    ASSUME SessionInv, UNCHANGED profile, IntentRefused \/ IntentFails
    PROVE  SessionInv'
<1>1. CASE IntentFails /\ Writes(call.kind) /\ Unaudited
  <2>1. /\ pc = "intending" /\ pc' = "running"
        /\ UNCHANGED <<batch, call, answer, closing, cursor, retired, lockVars, serverVars, pastVars>>
    BY <1>1 DEF IntentFails, Dispatch, Goto
  <2>2. TypeOK'
    BY <2>1 DEF SessionInv, TypeOK, lockVars, serverVars, pastVars
  <2>3. ClosingRollsBack'
    BY <2>1 DEF SessionInv, ClosingRollsBack
  <2> QED BY <1>1, <2>1, <2>2, <2>3, QuietStep DEF lockVars, Locked, Ending, Writes, Finish
<1>2. CASE NotDispatched /\ pc = "intending" /\ barred' \in {barred, TRUE}
           /\ UNCHANGED <<cursor, retired, locked, serverVars, pastVars>>
  BY <1>2, UndoneKeeps DEF NotDispatched, Return, Goto, SessionInv, TypeOK
<1> QED BY <1>1, <1>2 DEF IntentRefused, IntentFails, lockVars

-----------------------------------------------------------------------------
(* The answer.                                                             *)

\* The driver's answer changes the server and, for a beginning, the batch with
\* it; an ambiguous end or write locks before anything is recorded.
LEMMA ReturnKeeps ==
    ASSUME SessionInv, UNCHANGED profile, NEW a \in Answer, DriverReturns(a)
    PROVE  SessionInv'
<1> USE DEF SessionInv
<1> DEFINE k == call.kind
<1>1. /\ pc = "running" /\ pc' = "recording" /\ answer' = a
      /\ UNCHANGED <<cursor, call, closing, barred, lie, cut>>
      /\ locked' = (locked \/ AnswerLocks(k, a))
      /\ owes' = (owes \/ (Writes(k) /\ batch.open /\ a # "early"))
      /\ batch' = IF Begun(k, a) THEN NewBatch(k = "snapshot") ELSE batch
      /\ DriverAnswers(k, a)
  BY DEF DriverReturns, Goto
<1>2. k \in Kind
  BY DEF TypeOK, CallRecords
<1>3. /\ conn' \in BOOLEAN /\ dcursor' \in {"none", "open", "failed"}
      /\ tx' \in {"none", "open", "aborted"} /\ fate' \in Fate
      /\ ~conn' => tx' = "none"
      /\ conn' => conn
      /\ Ambiguous(a) => ~conn'
      /\ ~Postgres /\ tx # "aborted" => tx' # "aborted"
      /\ strayed' \in BOOLEAN /\ (strayed => strayed')
      /\ ~strayed' =>
            /\ k \notin Finish /\ conn' /\ tx # "none" => tx' # "none"
            /\ k \notin Finish /\ tx = "none" => tx' = "none" \/ Begun(k, a)
            /\ Begun(k, a) => tx' = "open"
  BY <1>1, <1>2, AnswerFacts DEF Tracked
<1>4. /\ batch' \in Batches
      /\ Begun(k, a) => batch'.open /\ ~batch'.aborted
      /\ ~Begun(k, a) => batch' = batch
  BY <1>1, NewBatchFacts DEF TypeOK
<1>5. TypeOK'
  <2>1. locked' \in BOOLEAN /\ owes' \in BOOLEAN /\ retired' \in BOOLEAN
    BY <1>1 DEF TypeOK, DriverReturns
  <2> QED BY <1>1, <1>3, <1>4, <2>1 DEF TypeOK
<1>6. Tracked'
  <2>1. k \in Finish => batch.open /\ ~Begun(k, a)
    BY <1>1 DEF Dispatched, Begun, Finish
  <2>2. ~strayed' /\ ~batch'.open => tx' = "none"
    BY <1>1, <1>3, <1>4, <2>1 DEF Tracked
  <2>3. ~strayed' /\ conn' /\ ~cut' /\ batch'.open /\ k \notin Finish => tx' # "none"
    BY <1>1, <1>3, <1>4 DEF Tracked, Ending
  <2> QED BY <1>1, <1>3, <2>2, <2>3 DEF Tracked, Ending
<1>7. EndSeen'
  <2> SUFFICES ASSUME k \in Finish PROVE EndSeen'
    BY <1>1 DEF EndSeen, Ending
  <2>1. batch.open /\ batch' = batch
    BY <1>1, <1>4 DEF Dispatched, Begun, Finish
  <2>2. ~strayed /\ conn /\ ~cut => tx # "none"
    BY <1>1, <2>1 DEF Tracked, Ending
  <2>3. ~strayed' =>
        /\ a = "ok" => /\ tx' = IF call.chain /\ tx # "none" THEN "open" ELSE "none"
                       /\ tx = "open" => fate' = IF k = "commit" THEN "committed" ELSE "rolledback"
                       /\ tx # "none" /\ k = "rollback" => fate' = "rolledback"
        /\ a = "query" /\ k = "commit" => tx' = "none"
        /\ conn' /\ a # "ok" /\ ~(a = "query" /\ k = "commit") => tx' = tx
    BY <1>1, FinishFacts DEF Tracked
  <2>4. (Ambiguous(a) => locked' \/ (batch.ro /\ ~batch.wrote)) /\ a # "last"
    BY <1>1, <1>2, AnswerFacts DEF AnswerLocks, SnapshotEnded, Finish, Tracked
  <2>5. ~strayed /\ ~cut /\ a = "ok" => tx # "none" /\ (~Postgres => tx = "open")
    <3>1. a = "ok" => conn
      BY <1>1 DEF DriverAnswers
    <3> QED BY <2>2, <3>1 DEF NoAbort, TypeOK
  <2>6. CASE strayed'
    BY <1>1, <2>1, <2>4, <2>6 DEF EndSeen, Ending
  <2>7. CASE ~strayed'
    <3>1. ~strayed
      BY <1>3, <2>7
    <3> QED BY <1>1, <1>3, <2>1, <2>2, <2>3, <2>4, <2>5, <2>7, <3>1 DEF EndSeen, Ending, Postgres
  <2> QED BY <1>3, <2>6, <2>7
<1>8. Dispatched' /\ ClosingRollsBack'
  BY <1>1, <1>3, <1>4 DEF Dispatched, ClosingRollsBack, Begun, Finish
<1>9. Owed'
  <2>1. CASE owes
    <3>1. ~Locked => batch.open /\ batch.wrote
      BY <1>1, <2>1 DEF Owed
    <3>2. ~Locked => ~Begun(k, a)
      BY <1>1, <3>1 DEF Dispatched, Begun
    <3> QED BY <1>1, <1>4, <3>1, <3>2 DEF Owed, Locked
  <2>2. CASE Writes(k) /\ batch.open
    <3>1. batch.open /\ ~Begun(k, a)
      BY <2>2 DEF Writes, Begun
    <3> QED BY <1>1, <1>4, <2>2, <3>1 DEF Owed
  <2> QED BY <1>1, <2>1, <2>2 DEF Owed
<1>10. NoAbort' /\ EndTold'
  BY <1>1, <1>3, <1>4 DEF NoAbort, EndTold, Postgres
<1> QED BY <1>5, <1>6, <1>7, <1>8, <1>9, <1>10

\* The record of a statement: the batch notes it.
LEMMA StatementKeeps ==
    ASSUME SessionInv, UNCHANGED profile, NEW recorded \in BOOLEAN, EndStatement(recorded)
    PROVE  SessionInv'
<1> USE DEF SessionInv
<1> DEFINE k == call.kind
<1>1. /\ pc = "recording" /\ k \in Statement
      /\ pc' = "idle" /\ call' = NoCall /\ answer' = "none"
      /\ UNCHANGED <<closing, cursor, conn, dcursor, tx, fate, strayed, lie, owes, cut>>
  BY DEF EndStatement, Over, Return, Goto, serverVars, pastVars
<1>2. /\ \E seen : batch' = Noted(batch, k, seen)
      /\ retired' \in BOOLEAN /\ barred' \in BOOLEAN /\ locked' \in BOOLEAN
      /\ barred => barred'
      /\ locked => locked'
  BY DEF EndStatement, LostRetires, TypeOK
<1>3. /\ batch' \in Batches /\ batch'.open = batch.open /\ batch'.ro = batch.ro
      /\ batch.wrote => batch'.wrote
      /\ batch.open /\ Writes(k) => batch'.wrote
      /\ ~Postgres => batch'.aborted = batch.aborted
  BY <1>2, NotedFacts DEF TypeOK
<1>4. TypeOK'
  BY <1>1, <1>2, <1>3, CallFacts DEF TypeOK, Answer
<1>5. ~Ending /\ ~closing
  BY <1>1 DEF Ending, Statement, Finish, ClosingRollsBack
<1>6. Tracked' /\ EndSeen' /\ Dispatched' /\ ClosingRollsBack'
  BY <1>1, <1>3, <1>5 DEF Tracked, EndSeen, Ending, Dispatched, ClosingRollsBack
<1>7. Owed' /\ NoAbort' /\ EndTold'
  BY <1>1, <1>2, <1>3 DEF Owed, Locked, NoAbort, EndTold, Postgres
<1> QED BY <1>4, <1>6, <1>7

\* How finish leaves the batch and what it records, case by case.
LEMMA FinishCases ==
    ASSUME TypeOK, NEW k \in Finish
    PROVE  LET b == AfterFinish(k, call.chain, answer)
               s == Outcome(k, answer)
           IN  \/ SnapshotEnded(k, answer) /\ b = NoBatch /\ s = "rolledback"
               \/ /\ answer = "ok" /\ ~SnapshotEnded(k, answer)
                  /\ b = IF call.chain THEN NewBatch(batch.ro) ELSE NoBatch
                  /\ s = IF k = "commit" /\ ~batch.aborted THEN "committed" ELSE "rolledback"
               \/ answer = "query" /\ k = "commit" /\ b = NoBatch /\ s = "failed"
               \/ /\ answer # "ok" /\ ~(answer = "query" /\ k = "commit") /\ ~SnapshotEnded(k, answer)
                  /\ b = [batch EXCEPT !.uncertain = @ \/ Ambiguous(answer)]
                  /\ s \in {"pending", "failed", "unknown"}
<1>1. CASE SnapshotEnded(k, answer)
  BY <1>1 DEF AfterFinish, Outcome, Ambiguous, SnapshotEnded
<1>2. CASE ~SnapshotEnded(k, answer) /\ answer = "ok"
  BY <1>2 DEF AfterFinish, Outcome
<1>3. CASE ~SnapshotEnded(k, answer) /\ answer = "query" /\ k = "commit"
  BY <1>3 DEF AfterFinish, Outcome
<1>4. CASE ~SnapshotEnded(k, answer) /\ answer # "ok" /\ ~(answer = "query" /\ k = "commit")
  BY <1>4 DEF AfterFinish, Outcome
<1> QED BY <1>1, <1>2, <1>3, <1>4

\* The record of COMMIT or ROLLBACK.  What is on record as definite was seen on
\* the server; what is not keeps the batch, or writes are barred.
LEMMA FinishKeeps ==
    ASSUME SessionInv, UNCHANGED profile, NEW recorded \in BOOLEAN, EndFinish(recorded)
    PROVE  SessionInv'
<1> USE DEF SessionInv
<1> DEFINE k == call.kind
           s == Outcome(k, answer)
<1>1. /\ Ending /\ k \in Finish /\ call' = NoCall /\ answer' = "none"
      /\ UNCHANGED <<closing, cursor, retired, conn, dcursor, tx, fate, strayed, cut>>
      /\ batch' = AfterFinish(k, call.chain, answer)
      /\ barred' = (barred \/ ~recorded)
      /\ locked' = (locked \/ ~recorded)
      /\ lie' = IF recorded THEN Lie(s) ELSE lie
      /\ owes' = (owes /\ ~(recorded /\ Definite(s)))
      /\ pc' = IF ~closing THEN "idle"
               ELSE IF batch'.open /\ (Failed(answer) \/ ~recorded) THEN GivesUp ELSE "closed"
  BY DEF EndFinish, Ending, Return, Goto, serverVars
<1>2. /\ batch.open /\ (Ambiguous(answer) => ~conn)
      /\ closing => ~call.chain
      /\ pc' \in {"idle", "ending", "abandoning", "closed"}
  BY <1>1 DEF Ending, Dispatched, ClosingRollsBack, GivesUp
<1>3. \/ SnapshotEnded(k, answer) /\ batch' = NoBatch /\ s = "rolledback"
      \/ /\ answer = "ok" /\ ~SnapshotEnded(k, answer)
         /\ batch' = IF call.chain THEN NewBatch(batch.ro) ELSE NoBatch
         /\ s = IF k = "commit" /\ ~batch.aborted THEN "committed" ELSE "rolledback"
      \/ answer = "query" /\ k = "commit" /\ batch' = NoBatch /\ s = "failed"
      \/ /\ answer # "ok" /\ ~(answer = "query" /\ k = "commit") /\ ~SnapshotEnded(k, answer)
         /\ batch' = [batch EXCEPT !.uncertain = @ \/ Ambiguous(answer)]
         /\ s \in {"pending", "failed", "unknown"}
  BY <1>1, FinishCases
<1> HIDE DEF s
<1>4. /\ batch' \in Batches
      /\ batch'.open => \/ answer = "ok" /\ call.chain
                        \/ /\ answer # "ok" /\ ~(answer = "query" /\ k = "commit")
                           /\ batch'.ro = batch.ro /\ batch'.wrote = batch.wrote
      /\ ~batch'.open => \/ SnapshotEnded(k, answer)
                         \/ answer = "ok" /\ ~call.chain
                         \/ answer = "query" /\ k = "commit"
      /\ ~Postgres => ~batch'.aborted
  <2>1. NoBatch \in Batches /\ ~NoBatch.open /\ ~NoBatch.aborted
    BY NewBatchFacts
  <2>2. NewBatch(batch.ro) \in Batches /\ NewBatch(batch.ro).open /\ ~NewBatch(batch.ro).aborted
    BY NewBatchFacts DEF TypeOK, Batches
  <2> DEFINE kept == [batch EXCEPT !.uncertain = @ \/ Ambiguous(answer)]
  <2>3. /\ kept \in Batches /\ kept.open = batch.open /\ kept.ro = batch.ro
        /\ kept.wrote = batch.wrote /\ kept.aborted = batch.aborted
    BY KeptFacts DEF TypeOK, Ambiguous
  <2>4. batch' = kept => batch'.open /\ (~Postgres => ~batch'.aborted)
    BY <1>2, <2>3 DEF NoAbort
  <2>5. \/ SnapshotEnded(k, answer) /\ batch' = NoBatch
        \/ answer = "ok" /\ batch' = IF call.chain THEN NewBatch(batch.ro) ELSE NoBatch
        \/ answer = "query" /\ k = "commit" /\ batch' = NoBatch
        \/ answer # "ok" /\ ~(answer = "query" /\ k = "commit") /\ batch' = kept
    BY <1>3
  <2> HIDE DEF kept
  <2> QED BY <2>1, <2>2, <2>3, <2>4, <2>5
<1>5. TypeOK'
  <2>1. lie' \in Fate /\ owes' \in BOOLEAN /\ barred' \in BOOLEAN /\ locked' \in BOOLEAN
    BY <1>1 DEF TypeOK, Lie, Fate
  <2>2. call' \in CallRecords /\ answer' \in Answer
    BY <1>1, CallFacts DEF Answer
  <2>3. UNCHANGED <<profile, cursor, retired, closing, conn, dcursor, tx, fate, strayed, cut>>
    BY <1>1
  <2> QED BY <1>2, <1>4, <2>1, <2>2, <2>3 DEF TypeOK
<1>6. Tracked'
  <2>1. ~strayed /\ ~batch'.open => tx = "none"
    BY <1>1, <1>2, <1>4 DEF EndSeen, Tracked, SnapshotEnded
  <2>2. ~strayed /\ conn /\ ~cut /\ batch'.open => tx # "none"
    BY <1>1, <1>4 DEF EndSeen
  <2> QED BY <1>1, <2>1, <2>2 DEF Tracked
<1>7. EndSeen' /\ Dispatched'
  BY <1>2 DEF EndSeen, Ending, Dispatched
<1>8. ClosingRollsBack'
  <2>1. batch'.open /\ closing => Failed(answer) /\ batch'.ro = batch.ro /\ batch'.wrote = batch.wrote
    BY <1>1, <1>2, <1>4 DEF EndSeen, Failed
  <2> QED BY <1>1, <1>2, <2>1 DEF ClosingRollsBack, GivesUp
<1>9. Owed'
  <2> SUFFICES ASSUME owes, recorded, ~Definite(s), ~Locked PROVE batch'.open /\ batch'.wrote
    BY <1>1 DEF Owed, Locked
  <2>1. batch.wrote
    BY <1>1 DEF Owed, Writes, Finish
  <2>2. batch' = [batch EXCEPT !.uncertain = @ \/ Ambiguous(answer)]
    BY <1>3 DEF Definite
  <2> QED BY <1>2, <2>1, <2>2, KeptFacts DEF TypeOK, Ambiguous
<1>10. NoAbort'
  BY <1>1, <1>4 DEF NoAbort, Postgres
<1>11. EndTold'
  <2> SUFFICES ASSUME ~Postgres, recorded PROVE Lie(s) = lie
    BY <1>1 DEF EndTold, Postgres
  <2>1. CASE strayed \/ batch.ro \/ s \notin {"committed", "rolledback"}
    BY <2>1 DEF Lie
  <2>2. CASE ~strayed /\ answer = "ok" /\ s = IF k = "commit" /\ ~batch.aborted THEN "committed" ELSE "rolledback"
    BY <1>1, <2>2 DEF Lie, EndSeen, NoAbort
  <2> QED BY <1>3, <2>1, <2>2 DEF SnapshotEnded
<1> QED BY <1>5, <1>6, <1>7, <1>8, <1>9, <1>10, <1>11

-----------------------------------------------------------------------------
(* Cursors.                                                                *)

\* A step of a cursor: the batch is noted at most, and the transaction goes with
\* the connection.
LEMMA CursorStep ==
    ASSUME SessionInv, TypeOK', UNCHANGED <<profile, lockVars, pastVars>>,
           batch'.open = batch.open, batch'.ro = batch.ro, batch'.wrote = batch.wrote,
           ~Postgres => batch'.aborted = batch.aborted,
           tx' \in {"none", tx}, ~conn' => tx' = "none", conn' => conn /\ tx' = tx,
           strayed' = strayed, ~Ending, ~(pc = "recording" /\ Writes(call.kind)),
           pc # "closed", pc' \in {"idle", "closing"}, closing' => pc' = "closing"
    PROVE  SessionInv'
<1> USE DEF SessionInv
<1>1. Tracked' /\ EndSeen' /\ Dispatched' /\ ClosingRollsBack'
  BY DEF Tracked, EndSeen, Ending, Dispatched, ClosingRollsBack, pastVars
<1>2. Owed' /\ NoAbort' /\ EndTold'
  BY DEF Owed, Locked, NoAbort, EndTold, Postgres, lockVars, pastVars
<1> QED BY <1>1, <1>2

\* A cursor is declared, or its error noted.
LEMMA OpenCursorKeeps ==
    ASSUME SessionInv, UNCHANGED profile, EndOpenCursor
    PROVE  SessionInv'
<1> USE DEF SessionInv
<1>1. /\ pc = "recording" /\ call.kind = "declare" /\ pc' = "idle" /\ call' = NoCall /\ answer' = "none"
      /\ UNCHANGED <<closing, lockVars, serverVars, pastVars>>
      /\ batch' \in {batch, CursorNoted(batch, answer)}
  BY DEF EndOpenCursor, Over, Return, Goto
<1>2. /\ batch' \in Batches /\ batch'.open = batch.open /\ batch'.ro = batch.ro
      /\ batch'.wrote = batch.wrote /\ (~Postgres => batch'.aborted = batch.aborted)
  BY <1>1, CursorNotedFacts DEF TypeOK
<1>3. TypeOK'
  <2>1. retired' \in BOOLEAN /\ cursor' \in {"none", "open", "complete"}
    BY DEF EndOpenCursor, TypeOK
  <2> QED BY <1>1, <1>2, <2>1, CallFacts DEF TypeOK, lockVars, serverVars, pastVars, Answer
<1>4. ~Ending /\ ~Writes(call.kind) /\ ~closing
  BY <1>1 DEF Ending, Finish, Writes, ClosingRollsBack
<1> QED BY <1>1, <1>2, <1>3, <1>4, CursorStep DEF Tracked, serverVars

\* A page is delivered, or its error gives the cursor up.
LEMMA FetchKeeps ==
    ASSUME SessionInv, UNCHANGED profile, NEW recorded \in BOOLEAN, EndFetch(recorded)
    PROVE  SessionInv'
<1> USE DEF SessionInv
<1>1. /\ pc = "recording" /\ call.kind = "fetch" /\ pc' = "idle" /\ call' = NoCall /\ answer' = "none"
      /\ UNCHANGED <<closing, lockVars, pastVars>>
      /\ batch' \in {batch, CursorNoted(batch, answer)}
      /\ (\E ok \in BOOLEAN : DriverClosesCursor(ok)) \/ UNCHANGED <<conn, dcursor, tx, fate, strayed>>
  BY DEF EndFetch, Over, Return, Goto, serverVars
<1>2. /\ batch' \in Batches /\ batch'.open = batch.open /\ batch'.ro = batch.ro
      /\ batch'.wrote = batch.wrote /\ (~Postgres => batch'.aborted = batch.aborted)
  BY <1>1, CursorNotedFacts DEF TypeOK
<1>3. /\ conn' \in BOOLEAN /\ dcursor' \in {"none", "open", "failed"}
      /\ tx' \in {"none", tx} /\ fate' \in Fate
      /\ ~conn' => tx' = "none"
      /\ conn' => conn /\ tx' = tx
      /\ strayed' = strayed
  <2>1. CASE \E ok \in BOOLEAN : DriverClosesCursor(ok)
    BY <2>1, CursorFacts DEF Tracked
  <2>2. CASE UNCHANGED <<conn, dcursor, tx, fate, strayed>>
    BY <2>2 DEF Tracked, TypeOK
  <2> QED BY <1>1, <2>1, <2>2
<1>4. TypeOK'
  <2>1. retired' \in BOOLEAN /\ cursor' \in {"none", "open", "complete"}
    BY DEF EndFetch, TypeOK
  <2> QED BY <1>1, <1>2, <1>3, <2>1, CallFacts DEF TypeOK, lockVars, pastVars, Answer
<1>5. ~Ending /\ ~Writes(call.kind) /\ ~closing
  BY <1>1 DEF Ending, Finish, Writes, ClosingRollsBack
<1> QED BY <1>1, <1>2, <1>3, <1>4, <1>5, CursorStep

\* The cursor is closed, by itself or by close.
LEMMA CloseCursorKeeps ==
    ASSUME SessionInv, UNCHANGED profile, CloseCursor \/ Close
    PROVE  SessionInv'
<1> USE DEF SessionInv
<1>1. /\ pc = "idle" /\ pc' \in {"idle", "closing"} /\ (closing' => pc' = "closing")
      /\ closing' \in BOOLEAN
      /\ UNCHANGED <<batch, call, answer, lockVars, pastVars>>
      /\ (\E ok \in BOOLEAN : DriverClosesCursor(ok)) \/ UNCHANGED <<conn, dcursor, tx, fate, strayed>>
  <2>1. CASE CloseCursor
    <3>1. pc = "idle" /\ ~closing
      BY <2>1 DEF CloseCursor, ClosingRollsBack
    <3> QED BY <2>1, <3>1 DEF CloseCursor, ReleaseCursor, callVars, TypeOK
  <2>2. CASE Close
    <3>1. batch' = batch
      BY <2>2 DEF Close, ReleaseCursor, sessionVars
    <3>2. (\E ok \in BOOLEAN : DriverClosesCursor(ok)) \/ UNCHANGED <<conn, dcursor, tx, fate, strayed>>
      BY <2>2 DEF Close, ReleaseCursor, serverVars
    <3> QED BY <2>2, <3>1, <3>2 DEF Close, Goto
  <2> QED BY <2>1, <2>2
<1>2. retired' \in BOOLEAN /\ cursor' \in {"none", "open", "complete"}
  <2>1. CASE Close /\ cursor = "none"
    BY <2>1 DEF Close, sessionVars, TypeOK
  <2>2. CASE ReleaseCursor
    BY <2>2 DEF ReleaseCursor, TypeOK
  <2> QED BY <2>1, <2>2 DEF CloseCursor, Close
<1>3. /\ conn' \in BOOLEAN /\ dcursor' \in {"none", "open", "failed"}
      /\ tx' \in {"none", tx} /\ fate' \in Fate
      /\ ~conn' => tx' = "none"
      /\ conn' => conn /\ tx' = tx
      /\ strayed' = strayed
  <2>1. CASE \E ok \in BOOLEAN : DriverClosesCursor(ok)
    BY <2>1, CursorFacts DEF Tracked
  <2>2. CASE UNCHANGED <<conn, dcursor, tx, fate, strayed>>
    BY <2>2 DEF Tracked, TypeOK
  <2> QED BY <1>1, <2>1, <2>2
<1>4. TypeOK'
  BY <1>1, <1>2, <1>3 DEF TypeOK, lockVars, pastVars
<1> QED BY <1>1, <1>3, <1>4, CursorStep DEF Ending

-----------------------------------------------------------------------------
(* The end of the session.                                                 *)

\* close rolls back what it can, records a snapshot's end, gives up the rest.
LEMMA CloseBatchKeeps ==
    ASSUME SessionInv, UNCHANGED profile, CloseBatch
    PROVE  SessionInv'
<1> USE DEF SessionInv
<1>1. /\ pc = "closing" /\ UNCHANGED <<sessionVars, answer, closing, lockVars, serverVars, pastVars>>
      /\ \/ ~batch.open /\ pc' = "closed" /\ call' = call
         \/ batch.open /\ batch.ro /\ ~batch.wrote /\ pc' = "ending" /\ call' = call
         \/ batch.open /\ pc' = "intending" /\ call' = [kind |-> "rollback", chain |-> FALSE]
         \/ batch.open /\ pc' = "abandoning" /\ call' = call
  BY DEF CloseBatch, Goto
<1>2. /\ call' \in CallRecords
      /\ pc' = "intending" => call'.kind = "rollback" /\ ~call'.chain
  <2> DEFINE back == [kind |-> "rollback", chain |-> FALSE]
  <2>1. back \in CallRecords /\ back.kind = "rollback" /\ ~back.chain
    BY CallFacts DEF Kind, Finish
  <2>2. (pc' # "intending" /\ call' = call) \/ call' = back
    BY <1>1
  <2> HIDE DEF back
  <2> QED BY <2>1, <2>2 DEF TypeOK
<1>3. TypeOK'
  <2>1. /\ UNCHANGED <<profile, batch, cursor, retired, answer, closing, locked, barred, conn, dcursor,
                       tx, fate, strayed, lie, owes, cut>>
        /\ pc' \in {"closed", "ending", "intending", "abandoning"}
    BY <1>1 DEF sessionVars, lockVars, serverVars, pastVars
  <2> QED BY <1>2, <2>1 DEF TypeOK
<1>4. ClosingRollsBack'
  BY <1>1, <1>2 DEF ClosingRollsBack, sessionVars
<1>5. Tracked' /\ EndSeen' /\ Dispatched'
  BY <1>1, <1>2 DEF Tracked, EndSeen, Ending, Dispatched, sessionVars, serverVars, pastVars
<1>6. Owed' /\ NoAbort' /\ EndTold'
  BY <1>1 DEF Owed, Locked, NoAbort, EndTold, Postgres, sessionVars, lockVars, serverVars, pastVars
<1> QED BY <1>3, <1>4, <1>5, <1>6

\* A batch is given up: a snapshot that wrote nothing with a record of its end,
\* any other with a lock.
LEMMA GiveUpKeeps ==
    ASSUME SessionInv, UNCHANGED profile, NEW recorded \in BOOLEAN,
           RecordEnded(recorded) \/ Abandon(recorded)
    PROVE  SessionInv'
<1> USE DEF SessionInv
<1>1. /\ batch' = NoBatch /\ pc' = "closed" /\ pc \in {"ending", "abandoning"}
      /\ UNCHANGED <<cursor, retired, call, answer, closing, serverVars, owes, cut>>
      /\ barred' = (barred \/ ~recorded)
      /\ pc = "ending" => locked' = locked
      /\ pc = "abandoning" => locked' = TRUE
      /\ lie' = lie
  <2>1. pc = "ending" => batch.ro
    BY DEF ClosingRollsBack
  <2>2. pc = "ending" => Lie("rolledback") = lie
    BY <2>1 DEF Lie
  <2>3. Lie("unknown") = lie
    BY DEF Lie
  <2> QED BY <2>2, <2>3 DEF RecordEnded, Abandon, GiveUp, Goto
<1>2. batch' \in Batches /\ ~batch'.open /\ ~batch'.aborted
  BY <1>1, NewBatchFacts
<1>3. TypeOK'
  <2>1. locked' \in BOOLEAN /\ barred' \in BOOLEAN
    BY <1>1 DEF TypeOK
  <2>2. UNCHANGED <<conn, dcursor, tx, fate, strayed>>
    BY <1>1 DEF serverVars
  <2> QED BY <1>1, <1>2, <2>1, <2>2 DEF TypeOK
<1>4. Tracked' /\ EndSeen' /\ Dispatched' /\ ClosingRollsBack'
  BY <1>1, <1>2 DEF Tracked, EndSeen, Ending, Dispatched, ClosingRollsBack, serverVars
<1>5. Owed'
  <2>1. pc = "ending" /\ owes => Locked
    BY <1>1 DEF Owed, ClosingRollsBack
  <2>2. CASE pc = "ending"
    <3>1. Locked => Locked'
      BY <1>1, <2>2 DEF Locked
    <3> QED BY <1>1, <2>1, <2>2, <3>1 DEF Owed
  <2>3. CASE pc = "abandoning"
    <3>1. Locked'
      BY <1>1, <2>3 DEF Locked
    <3> QED BY <3>1 DEF Owed
  <2> QED BY <1>1, <2>2, <2>3
<1>6. NoAbort' /\ EndTold'
  BY <1>1, <1>2 DEF NoAbort, EndTold, Postgres, serverVars
<1> QED BY <1>3, <1>4, <1>5, <1>6

\* The connection is closed, or goes with the session.
LEMMA GoneKeeps ==
    ASSUME SessionInv, UNCHANGED profile, CloseDriver \/ DropSession
    PROVE  SessionInv'
<1> USE DEF SessionInv
<1>1. /\ pc' \in {pc, "gone"} /\ pc \in {"idle", "closed"}
      /\ UNCHANGED <<sessionVars, call, answer, closing, lockVars, pastVars>>
      /\ conn' = FALSE /\ dcursor' = "none" /\ tx' = "none" /\ fate' \in LostFate("none")
      /\ strayed' = strayed
  BY DEF CloseDriver, DropSession, ConnectionGoes, Goto, callVars
<1>2. fate' \in Fate
  BY <1>1 DEF LostFate, TypeOK, Fate
<1>3. TypeOK'
  BY <1>1, <1>2 DEF TypeOK, sessionVars, lockVars, pastVars
<1>4. Tracked' /\ EndSeen' /\ Dispatched' /\ ClosingRollsBack'
  BY <1>1 DEF Tracked, EndSeen, Ending, Dispatched, ClosingRollsBack, sessionVars
<1>5. Owed' /\ NoAbort' /\ EndTold'
  BY <1>1 DEF Owed, Locked, NoAbort, EndTold, Postgres, sessionVars, lockVars, pastVars
<1> QED BY <1>3, <1>4, <1>5

\* A call is dropped: one that is with the driver takes the connection with it,
\* one that is armed locks.
LEMMA DropKeeps ==
    ASSUME SessionInv, UNCHANGED profile, DropCall
    PROVE  SessionInv'
<1> USE DEF SessionInv
<1>1. /\ pc \in {"deciding", "counted", "intending", "running", "recording"}
      /\ pc' = IF closing THEN "gone" ELSE "idle"
      /\ call' = NoCall /\ answer' = "none" /\ cut' = TRUE
      /\ UNCHANGED <<sessionVars, closing, barred, lie>>
      /\ locked' = (locked \/ (Armed(call.kind) /\ pc \in {"running", "recording"}))
      /\ owes' = (owes \/ (pc = "running" /\ Writes(call.kind) /\ batch.open))
      /\ ConnectionGoes(call.kind) \/ UNCHANGED serverVars
  BY DEF DropCall, Return, Goto
<1>2. /\ conn' \in BOOLEAN /\ dcursor' \in {"none", "open", "failed"} /\ fate' \in Fate
      /\ tx' \in {"none", tx} /\ (~conn' => tx' = "none") /\ strayed' = strayed
  <2>1. CASE ConnectionGoes(call.kind)
    BY <2>1 DEF ConnectionGoes, LostFate, TypeOK, Fate
  <2>2. CASE UNCHANGED serverVars
    BY <2>2 DEF serverVars, Tracked, TypeOK
  <2> QED BY <1>1, <2>1, <2>2
<1>3. TypeOK'
  <2>1. locked' \in BOOLEAN /\ owes' \in BOOLEAN
    BY <1>1 DEF TypeOK
  <2>2. pc' \in {"idle", "gone"} /\ tx' \in {"none", "open", "aborted"}
    BY <1>1, <1>2 DEF TypeOK
  <2> QED BY <1>1, <1>2, <2>1, <2>2, CallFacts DEF TypeOK, sessionVars, Answer
<1>4. Tracked' /\ EndSeen' /\ Dispatched' /\ ClosingRollsBack'
  BY <1>1, <1>2 DEF Tracked, EndSeen, Ending, Dispatched, ClosingRollsBack, sessionVars
<1>5. Owed'
  BY <1>1 DEF Owed, Locked, Armed, Writes, sessionVars
<1>6. NoAbort' /\ EndTold'
  BY <1>1, <1>2 DEF NoAbort, EndTold, Postgres, sessionVars
<1> QED BY <1>3, <1>4, <1>5, <1>6

-----------------------------------------------------------------------------
(* Theorems.                                                               *)

\* Every step of the session preserves the invariant.
LEMMA SessionStep == SessionInv /\ [Next]_vars => SessionInv'
<1> SUFFICES ASSUME SessionInv, [Next]_vars PROVE SessionInv'
  OBVIOUS
<1>1. CASE Calls /\ UNCHANGED profile
  BY <1>1, StartKeeps, CountKeeps, PassKeeps, AllowedKeeps, CloseCursorKeeps DEF Calls
<1>2. CASE Steps /\ UNCHANGED profile
  BY <1>2, PassKeeps, IntentKeeps, ReturnKeeps, OpenCursorKeeps, StatementKeeps, FinishKeeps, FetchKeeps
  DEF Steps
<1>3. CASE Ends /\ UNCHANGED profile
  BY <1>3, CloseCursorKeeps, CloseBatchKeeps, GoneKeeps, GiveUpKeeps, DropKeeps DEF Ends
<1>4. CASE UNCHANGED vars
  <2>1. UNCHANGED <<profile, batch, cursor, retired, pc, call, answer, closing, locked, barred, conn,
                    dcursor, tx, fate, strayed, lie, owes, cut>>
    BY <1>4 DEF vars, sessionVars, callVars, lockVars, serverVars, pastVars
  <2>2. TypeOK'
    BY <2>1 DEF SessionInv, TypeOK
  <2>3. Tracked' /\ Dispatched' /\ ClosingRollsBack'
    BY <2>1 DEF SessionInv, Tracked, Ending, Dispatched, ClosingRollsBack
  <2>4. EndSeen'
    BY <2>1 DEF SessionInv, EndSeen, Ending, Postgres
  <2>5. Owed' /\ NoAbort' /\ EndTold'
    BY <2>1 DEF SessionInv, Owed, Locked, NoAbort, EndTold, Postgres
  <2> QED BY <2>2, <2>3, <2>4, <2>5 DEF SessionInv
<1> QED BY <1>1, <1>2, <1>3, <1>4, OthersKeep DEF Next

\* The inductive invariant of a session holds for ever, whatever the driver
\* answers and wherever a call is dropped.
THEOREM SessionInvariant == Spec => []SessionInv
BY SessionInit, SessionStep, PTL DEF Spec

\* Until the server's transaction strays, a usable session tracks no transaction
\* only if the server has none, and one only if the server is in it (begin,
\* begin_read_only, finish).
THEOREM SessionTracked == Spec => []TransactionTracked
<1>1. SessionInv => TransactionTracked
  BY DEF SessionInv, Tracked, Ending, TransactionTracked, Usable
<1> QED BY SessionInvariant, <1>1, PTL

\* A closed session whose batch has a write without a recorded end has barred
\* further writes, also when the transaction strayed (close,
\* record_abandoned_transaction).
THEOREM SessionAccounted == Spec => []ClosedAccounted
<1>1. SessionInv => ClosedAccounted
  BY DEF SessionInv, Owed, ClosingRollsBack, ClosedAccounted
<1> QED BY SessionInvariant, <1>1, PTL

\* Until a transaction strays or a call is dropped, no end is on record that the
\* server did not give the transaction, where a failed statement leaves the
\* transaction alone (finish_outcome).
THEOREM SessionEndTold == Spec => []EndTold
<1>1. SessionInv => EndTold
  BY DEF SessionInv
<1> QED BY SessionInvariant, <1>1, PTL

\* Unless a call was dropped or a transaction strayed, a ROLLBACK the server
\* answered rolled the transaction back, on PostgreSQL too: finish_outcome is
\* right to record it so.
THEOREM SessionRollback == Spec => []RollbackTold
<1>1. SessionInv => RollbackTold
  BY DEF SessionInv, EndSeen, RollbackTold
<1> QED BY SessionInvariant, <1>1, PTL

\* While the session lasts, a write sent in a batch whose end is not on record is
\* one the open batch knows of, or writes are barred: no path forgets it, even
\* when the server's transaction has long ended by itself (note_statement,
\* finish, PendingWrite).
THEOREM SessionOwes == Spec => []Owed
<1>1. SessionInv => Owed
  BY DEF SessionInv
<1> QED BY SessionInvariant, <1>1, PTL

\* What a session has given up: writes, its connection, itself.
GivenUp == (Locked => Locked') /\ (~Usable => ~Usable')

\* No answer brings a connection back.
LEMMA AnswerGivesUp ==
    ASSUME TypeOK, ~conn => tx = "none", NEW k \in Kind, NEW a \in Answer, DriverAnswers(k, a)
    PROVE  conn' => conn
BY AnswerFacts

\* Neither the lock nor the loss of a session is ever taken back.
LEMMA StepGivesUp == SessionInv /\ [Next]_vars => GivenUp
<1> SUFFICES ASSUME SessionInv, [Next]_vars PROVE GivenUp
  OBVIOUS
<1>0. TypeOK /\ (~conn => tx = "none") /\ call.kind \in Kind /\ "count" \in Kind
  BY DEF SessionInv, Tracked, TypeOK, CallRecords, Kind, Statement
<1>1. ASSUME UNCHANGED <<lockVars, conn, retired>> PROVE GivenUp
  BY <1>1 DEF GivenUp, Locked, Usable, lockVars
<1>2. CASE Calls /\ ~Count /\ ~CloseCursor
  <2>1. CASE Begin \/ BeginReadOnly \/ CompletionColumns \/ OpenCursor \/ FetchPage
    BY <1>1, <2>1 DEF Begin, BeginReadOnly, CompletionColumns, OpenCursor, FetchPage, sessionVars, serverVars
  <2>2. CASE \/ \E k \in Statement : StartStatement(k)
             \/ \E k \in Finish, chain \in BOOLEAN : StartFinish(k, chain)
    BY <1>1, <2>2 DEF StartStatement, StartFinish, sessionVars, serverVars
  <2>3. CASE Denied \/ Allowed
    BY <1>1, <2>3 DEF Denied, Allowed, sessionVars, serverVars
  <2> QED BY <1>2, <2>1, <2>2, <2>3 DEF Calls
<1>3. CASE Count
  <2>1. (conn' => conn) /\ UNCHANGED <<retired, lockVars>>
    BY <1>0, <1>3, AnswerGivesUp DEF Count, sessionVars
  <2> QED BY <2>1 DEF GivenUp, Locked, Usable, lockVars
<1>4. CASE CloseCursor \/ Close
  <2>1. (conn' => conn) /\ (retired => retired') /\ UNCHANGED lockVars
    BY <1>0, <1>4, CursorFacts DEF CloseCursor, Close, ReleaseCursor, sessionVars, serverVars
  <2> QED BY <2>1 DEF GivenUp, Locked, Usable, lockVars
<1>5. CASE IntentRecorded \/ IntentRefused \/ IntentFails
  <2>1. UNCHANGED <<conn, retired, locked>> /\ (barred => barred')
    <3>1. CASE IntentRecorded
      BY <3>1 DEF IntentRecorded, sessionVars, lockVars, serverVars
    <3>2. CASE IntentRefused
      <4>1. barred' = barred \/ barred' = TRUE
        BY <3>2 DEF IntentRefused
      <4>2. barred => barred'
        BY <4>1
      <4>3. UNCHANGED <<conn, retired, locked>>
        BY <3>2 DEF IntentRefused, serverVars
      <4> QED BY <4>2, <4>3
    <3>3. CASE IntentFails
      BY <3>3 DEF IntentFails, sessionVars, lockVars, serverVars
    <3> QED BY <1>5, <3>1, <3>2, <3>3
  <2> QED BY <2>1 DEF GivenUp, Locked, Usable
<1>6. CASE \E a \in Answer : DriverReturns(a)
  <2>1. (conn' => conn) /\ (retired => retired') /\ (locked => locked') /\ barred' = barred
    BY <1>0, <1>6, AnswerGivesUp DEF DriverReturns
  <2> QED BY <2>1 DEF GivenUp, Locked, Usable
<1>7. CASE EndUnnoted \/ EndOpenCursor \/ \E recorded \in BOOLEAN : EndStatement(recorded) \/ EndFinish(recorded)
  <2>1. conn' = conn /\ (retired => retired') /\ (locked => locked') /\ (barred => barred')
    <3>1. CASE EndUnnoted
      BY <3>1 DEF EndUnnoted, sessionVars, lockVars, serverVars
    <3>2. CASE EndOpenCursor
      BY <3>2 DEF EndOpenCursor, lockVars, serverVars
    <3>3. ASSUME NEW recorded \in BOOLEAN, EndStatement(recorded) PROVE conn' = conn /\ (retired => retired') /\ (locked => locked') /\ (barred => barred')
      BY <3>3 DEF EndStatement, LostRetires, serverVars
    <3>4. ASSUME NEW recorded \in BOOLEAN, EndFinish(recorded) PROVE conn' = conn /\ (retired => retired') /\ (locked => locked') /\ (barred => barred')
      BY <3>4 DEF EndFinish, serverVars
    <3> QED BY <1>7, <3>1, <3>2, <3>3, <3>4
  <2> QED BY <2>1 DEF GivenUp, Locked, Usable
<1>8. CASE \E recorded \in BOOLEAN : EndFetch(recorded)
  <2>1. (conn' => conn) /\ (retired => retired') /\ UNCHANGED lockVars
    BY <1>0, <1>8, CursorFacts DEF EndFetch, serverVars
  <2> QED BY <2>1 DEF GivenUp, Locked, Usable, lockVars
<1>9. CASE CloseBatch \/ \E recorded \in BOOLEAN : RecordEnded(recorded) \/ Abandon(recorded)
  <2>1. conn' = conn /\ retired' = retired /\ (locked => locked') /\ (barred => barred')
    <3>1. CASE CloseBatch
      BY <3>1 DEF CloseBatch, sessionVars, lockVars, serverVars
    <3>2. ASSUME NEW recorded \in BOOLEAN, RecordEnded(recorded)
          PROVE  conn' = conn /\ retired' = retired /\ (locked => locked') /\ (barred => barred')
      BY <3>2 DEF RecordEnded, GiveUp, serverVars
    <3>3. ASSUME NEW recorded \in BOOLEAN, Abandon(recorded)
          PROVE  conn' = conn /\ retired' = retired /\ locked' /\ (barred => barred')
      BY <3>3 DEF Abandon, GiveUp, serverVars
    <3> QED BY <1>9, <3>1, <3>2, <3>3
  <2> QED BY <2>1 DEF GivenUp, Locked, Usable
<1>10. CASE CloseDriver \/ DropCall \/ DropSession
  <2>1. (conn' => conn) /\ retired' = retired /\ (locked => locked') /\ barred' = barred
    <3>1. CASE CloseDriver
      BY <3>1 DEF CloseDriver, ConnectionGoes, sessionVars, lockVars
    <3>2. CASE DropCall
      BY <3>2 DEF DropCall, ConnectionGoes, sessionVars, serverVars
    <3>3. CASE DropSession
      BY <3>3 DEF DropSession, ConnectionGoes, sessionVars, lockVars
    <3> QED BY <1>10, <3>1, <3>2, <3>3
  <2> QED BY <2>1 DEF GivenUp, Locked, Usable
<1>11. CASE OthersBar \/ StatusPanics
  <2>1. conn' = conn /\ (retired => retired') /\ locked' = locked /\ (barred => barred')
    BY <1>11 DEF OthersBar, StatusPanics, sessionVars, lockVars, serverVars
  <2> QED BY <2>1 DEF GivenUp, Locked, Usable
<1>12. CASE UNCHANGED vars
  BY <1>1, <1>12 DEF vars, sessionVars, serverVars
<1> QED
  BY <1>2, <1>3, <1>4, <1>5, <1>6, <1>7, <1>8, <1>9, <1>10, <1>11, <1>12 DEF Next, Calls, Steps, Ends

\* A session that was retired or lost its connection is never usable again, and
\* a generation it locked stays locked: TransactionTracked and ClosedAccounted
\* cannot be undone by what the session does next.
THEOREM SessionGivesUpForGood == Spec => [][GivenUp]_vars
<1>1. SessionInv /\ [Next]_vars => [GivenUp]_vars
  BY StepGivesUp
<1> QED BY SessionInvariant, <1>1, PTL DEF Spec
=============================================================================
