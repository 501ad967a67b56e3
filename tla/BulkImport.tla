----------------------------- MODULE BulkImport -----------------------------
(***************************************************************************)
(* A CSV import: ImportRun of apps/linux/app/src/ui/app/import.rs over the *)
(* approval scope of crates/policy/src/guard/bulk.rs.  One approval covers *)
(* many batches, each a transaction of its own, and one audit record has   *)
(* to tell at the end what is in the table.  The task is dropped when its  *)
(* window goes, at any await.                                              *)
(***************************************************************************)
EXTENDS Naturals

CONSTANTS
    Total,        \* rows of the plan
    BatchRows     \* DEFAULT_IMPORT_BATCH_ROWS

ASSUME ImportAssumption == Total \in Nat \ {0} /\ BatchRows \in Nat \ {0}

VARIABLES
    sequences,    \* the plan fills auto-increment columns of PostgreSQL
    unaudited,    \* the policy lets the user write without an intent
    pc,           \* where the task is
    token,        \* the user pressed Cancel
    progress,     \* csv_import_progress: the progress window is up
    scope,        \* BulkInsertScope: "none", "open", "closed" or dropped "open"
    committed,    \* scope.committed
    offered,      \* rows of the plan taken up by batches so far
    end,          \* how the batches ended
    entry,        \* the import's record in the journal
    locked,       \* this import disabled governed writes
    barred,       \* another call did, or the journal failed
    stored,       \* rows in the table
    report        \* CsvImportReport

kindVars == <<sequences, unaudited>>
vars == <<kindVars, pc, token, progress, scope, committed, offered, end, entry, locked, barred, stored, report>>

NoReport == [given |-> FALSE, committed |-> 0, error |-> FALSE]
NoEntry == [state |-> "none", rows |-> 0]
Ends == {"none", "completed", "cancelled", "failed", "partly", "unknown"}

Entries == [state : {"none", "pending", "denied", "committed", "rolledback", "failed", "unknown"}, rows : 0 .. Total]
Reports == [given : BOOLEAN, committed : 0 .. Total, error : BOOLEAN]

TypeOK ==
    /\ sequences \in BOOLEAN /\ unaudited \in BOOLEAN
    /\ pc \in {"idle", "creating", "asking", "intending", "batch", "running", "syncing",
               "finishing", "recording", "reporting", "over", "gone"}
    /\ token \in BOOLEAN /\ progress \in BOOLEAN
    /\ scope \in {"none", "open", "closed", "droppedOpen"}
    /\ committed \in 0 .. Total /\ offered \in 0 .. Total /\ end \in Ends
    /\ entry \in Entries
    /\ locked \in BOOLEAN /\ barred \in BOOLEAN
    /\ stored \in 0 .. Total
    /\ report \in Reports

Init ==
    /\ sequences \in BOOLEAN /\ unaudited \in BOOLEAN
    /\ pc = "idle" /\ token = FALSE /\ progress = FALSE
    /\ scope = "none" /\ committed = 0 /\ offered = 0 /\ end = "none"
    /\ entry = NoEntry /\ locked = FALSE /\ barred = FALSE
    /\ stored = 0 /\ report = NoReport

Locked == locked \/ barred
Goto(l) == pc' = l
\* ImportRun::execute returns its report.
Report(n, failed) == Goto("reporting") /\ report' = [given |-> TRUE, committed |-> n, error |-> failed]

-----------------------------------------------------------------------------
(* The application.                                                        *)

\* import_refusal, then the progress window and the task.
StartCsvImport ==
    /\ pc = "idle" /\ ~Locked
    /\ progress' = TRUE
    /\ \E creates \in BOOLEAN : Goto(IF creates THEN "creating" ELSE "asking")
    /\ UNCHANGED <<token, scope, committed, offered, end, entry, locked, barred, stored, report>>

PressCancel ==
    /\ progress /\ ~token
    /\ token' = TRUE
    /\ UNCHANGED <<pc, progress, scope, committed, offered, end, entry, locked, barred, stored, report>>

CsvImportFinished ==
    /\ pc = "reporting"
    /\ progress' = FALSE
    /\ Goto("over")
    /\ UNCHANGED <<token, scope, committed, offered, end, entry, locked, barred, stored, report>>

\* Another call of the connection.
OthersBar ==
    /\ pc \notin {"over", "gone"} /\ ~barred
    /\ barred' = TRUE
    /\ UNCHANGED <<pc, token, progress, scope, committed, offered, end, entry, locked, stored, report>>

-----------------------------------------------------------------------------
(* ImportRun::execute up to the scope.                                     *)

\* create_table: a governed write of its own, with its own records.
CreateTable(ok, unclear) ==
    /\ pc = "creating"
    /\ IF ok THEN Goto("asking") /\ UNCHANGED report ELSE Report(0, TRUE)
    /\ locked' = (locked \/ (~ok /\ unclear))
    /\ UNCHANGED <<token, progress, scope, committed, offered, end, entry, barred, stored>>

\* begin_bulk_insert up to the decision: the lock, the checks of the request,
\* the rules and the user; a refusal is recorded, and its record may fail.
Refused ==
    /\ pc = "asking"
    /\ Report(0, TRUE)
    /\ barred' \in {barred, TRUE}
    /\ UNCHANGED <<token, progress, scope, committed, offered, end, entry, locked, stored>>

Granted ==
    /\ pc = "asking"
    /\ scope' = "open"
    /\ Goto("intending")
    /\ UNCHANGED <<token, progress, committed, offered, end, entry, locked, barred, stored, report>>

\* Drop for BulkInsertScope.
DropScope ==
    /\ scope' = IF scope = "open" THEN "droppedOpen" ELSE scope
    /\ locked' = (locked \/ scope = "open")

IntentRecorded ==
    /\ pc = "intending"
    /\ entry' = [NoEntry EXCEPT !.state = "pending"]
    /\ Goto("batch")
    /\ UNCHANGED <<token, progress, scope, committed, offered, end, locked, barred, stored, report>>

\* Another write is in flight or unresolved: record_intent records the denial.
IntentRefused ==
    /\ pc = "intending"
    /\ entry' = [NoEntry EXCEPT !.state = "denied"]
    /\ barred' \in {barred, TRUE}
    /\ DropScope
    /\ Report(0, TRUE)
    /\ UNCHANGED <<token, progress, committed, offered, end, stored>>

IntentFails ==
    /\ pc = "intending"
    /\ IF unaudited THEN Goto("batch") /\ UNCHANGED <<scope, locked, report>>
       ELSE DropScope /\ Report(0, TRUE)
    /\ UNCHANGED <<token, progress, committed, offered, end, entry, barred, stored>>

-----------------------------------------------------------------------------
(* run_batches and execute_bulk_batch.                                     *)

Smaller(a, b) == IF a < b THEN a ELSE b
\* InsertPlan::batches.
NextRows == Smaller(BatchRows, Total - offered)

Stop(e) == end' = e /\ Goto("finishing")

BatchesEnd ==
    /\ pc = "batch" /\ offered = Total
    /\ Stop("completed")
    /\ UNCHANGED <<token, progress, scope, committed, offered, entry, locked, barred, stored, report>>

CancelSeen ==
    /\ pc = "batch" /\ offered < Total /\ token
    /\ Stop("cancelled")
    /\ UNCHANGED <<token, progress, scope, committed, offered, entry, locked, barred, stored, report>>

\* admit, the lock and check_pre_dispatch: what they refuse closes the scope.
BatchRefused(e) ==
    /\ pc = "batch" /\ offered < Total /\ ~token
    /\ scope' = "closed"
    /\ token' = (e = "cancelled")
    /\ Stop(e)
    /\ UNCHANGED <<progress, committed, offered, entry, locked, barred, stored, report>>

BatchAdmitted ==
    /\ pc = "batch" /\ offered < Total /\ ~token
    /\ scope = "open" /\ NextRows <= Total - committed /\ ~Locked
    /\ Goto("running")
    /\ UNCHANGED <<token, progress, scope, committed, offered, end, entry, locked, barred, stored, report>>

\* execute_in_transaction_controlled commits the batch.
BatchCommits ==
    /\ pc = "running"
    /\ stored' = stored + NextRows
    /\ committed' = committed + NextRows
    /\ offered' = offered + NextRows
    /\ Goto(IF sequences THEN "syncing" ELSE "batch")
    /\ UNCHANGED <<token, progress, scope, end, entry, locked, barred, report>>

\* It fails: rolled back, partly applied by an engine without transactions, or
\* nobody knows.
BatchFails(e) ==
    /\ pc = "running"
    /\ e = "cancelled" => token
    /\ stored' \in CASE e = "partly" -> stored .. stored + NextRows
                     [] e = "unknown" -> {stored, stored + NextRows}
                     [] e \in {"cancelled", "failed"} -> {stored}
    /\ scope' = "closed"
    /\ Stop(e)
    /\ UNCHANGED <<token, progress, committed, offered, entry, locked, barred, report>>

\* synchronize_auto_increment_sequences_controlled, under its own five seconds;
\* an error leaves the scope open and the rows counted.
SequencesSynced ==
    /\ pc = "syncing"
    /\ Goto("batch")
    /\ UNCHANGED <<token, progress, scope, committed, offered, end, entry, locked, barred, stored, report>>

SequenceSyncFails(e) ==
    /\ pc = "syncing"
    /\ Stop(e)
    /\ UNCHANGED <<token, progress, scope, committed, offered, entry, locked, barred, stored, report>>

-----------------------------------------------------------------------------
(* finish_bulk_insert.                                                     *)

\* Mutant: a stopped import is rolled back.
PartialNone(n) == "rolledback"

\* partial_transaction_outcome.
Partial(n) == IF n = 0 THEN "rolledback" ELSE "committed"

\* bulk_terminal.
Terminal(e, n) ==
    CASE e = "completed" -> "committed"
      [] e = "unknown" -> "unknown"
      [] e = "partly" -> "failed"
      [] e \in {"cancelled", "failed"} -> Partial(n)

\* Mutant: an unknown end does not lock.
FinishQuietly ==
    /\ pc = "finishing"
    /\ scope' = "closed"
    /\ Goto("recording")
    /\ UNCHANGED <<token, progress, committed, offered, end, entry, locked, barred, stored, report>>

\* finish_bulk_insert before its record: the scope is closed, an unknown end
\* locks.
Finish ==
    /\ pc = "finishing"
    /\ scope' = "closed"
    /\ locked' = (locked \/ Terminal(end, committed) = "unknown")
    /\ Goto("recording")
    /\ UNCHANGED <<token, progress, committed, offered, end, entry, barred, stored, report>>

FinishRecorded(ok) ==
    /\ pc = "recording"
    /\ entry' = IF ok THEN [state |-> Terminal(end, committed), rows |-> committed] ELSE entry
    /\ barred' = (barred \/ ~ok)
    /\ Report(committed, end # "completed")
    /\ UNCHANGED <<token, progress, scope, committed, offered, end, locked, stored>>

\* The task is dropped with its window: drop_on_shutdown.  A batch under way
\* commits or not.
DropRun ==
    /\ pc \in {"creating", "asking", "intending", "batch", "running", "syncing", "recording"}
    /\ stored' \in IF pc = "running" THEN {stored, stored + NextRows} ELSE {stored}
    /\ DropScope
    /\ progress' = FALSE
    /\ Goto("gone")
    /\ UNCHANGED <<token, committed, offered, end, entry, barred, report>>

-----------------------------------------------------------------------------
Run ==
    \/ \E ok, unclear \in BOOLEAN : CreateTable(ok, unclear)
    \/ Refused \/ Granted \/ IntentRecorded \/ IntentRefused \/ IntentFails
    \/ BatchesEnd \/ CancelSeen \/ BatchAdmitted \/ BatchCommits
    \/ \E e \in {"cancelled", "failed", "partly", "unknown"} : BatchFails(e)
    \/ \E e \in {"cancelled", "failed"} : BatchRefused(e)
    \/ SequencesSynced
    \/ \E e \in {"failed", "unknown"} : SequenceSyncFails(e)
    \/ Finish \/ \E ok \in BOOLEAN : FinishRecorded(ok)
    \/ CsvImportFinished

Next == (StartCsvImport \/ PressCancel \/ OthersBar \/ Run \/ DropRun) /\ UNCHANGED kindVars

Spec == Init /\ [][Next]_vars

-----------------------------------------------------------------------------
(* Properties.                                                             *)

Settled == entry.state \in {"committed", "rolledback"}

\* A terminal record that calls the import committed or rolled back names the
\* rows that are in the table, whatever batch stopped it (bulk_terminal).
RecordCountsRows ==
    Settled => entry.rows = stored /\ (entry.state = "rolledback" => stored = 0)

\* The user is told of a success only when every row is in, and of the number
\* of rows that are when the end is known (CsvImportReport).
ReportTellsTruth ==
    report.given => /\ ~report.error => stored = Total
                    /\ end \notin {"partly", "unknown"} => report.committed = stored

\* When the task is over, rows without a record that accounts for them bar
\* further writes: the intent is still pending, or writes are disabled.  A
\* partly applied batch is on record as failed.
OpenRowsBlock ==
    pc \in {"over", "gone"} /\ stored > 0 /\ ~unaudited
        => Settled \/ entry.state \in {"pending", "failed"} \/ Locked

=============================================================================
