-------------------------- MODULE BulkImportProofs --------------------------
(***************************************************************************)
(* Proofs about BulkImport for every number of rows and every batch size.  *)
(*                                                                         *)
(* The properties are about the end of an import; what makes them hold is  *)
(* a count kept on the way (Counted): between batches the rows in the      *)
(* table, the scope's count and the rows taken from the plan are the same  *)
(* number, and only a batch that failed partly or with an unknown outcome, *)
(* or a task dropped while one ran, may leave more rows than were counted. *)
(***************************************************************************)
EXTENDS BulkImport, TLAPS

Before == {"idle", "creating", "asking", "intending"}

\* The rows of the table against the rows counted.
Counted ==
    /\ offered = committed /\ committed <= Total
    /\ pc \in Before => committed = 0
    /\ committed <= stored /\ stored <= Total
    /\ pc # "gone" /\ end \notin {"partly", "unknown"} => stored = committed
    /\ end = "completed" => committed = Total
    /\ pc \in Before \cup {"batch", "running", "syncing"} => end = "none"
    /\ pc = "running" => offered < Total

\* The record and the report against the count.
Told ==
    /\ entry.state \in {"committed", "rolledback", "failed", "unknown"} =>
          pc \in {"reporting", "over"} /\ end # "none"
            /\ entry.state = Terminal(end, committed) /\ entry.rows = committed
    /\ report.given => pc \in {"reporting", "over"} /\ report.committed = committed
                       /\ (~report.error => end = "completed")
    /\ pc \in {"finishing", "recording"} => end # "none"

\* Rows that nothing accounts for bar writes: the intent of an audited import
\* stays pending from its first batch to its record, and an unknown end locks.
Barred ==
    /\ pc \in {"batch", "running", "syncing", "finishing", "recording"} /\ ~unaudited => entry.state = "pending"
    /\ pc \in {"idle", "creating", "asking", "intending"} => entry.state = "none" /\ stored = 0
    /\ end = "unknown" /\ pc \in {"recording", "reporting", "over"} => locked
    /\ pc \in {"over", "gone", "reporting"} /\ stored > 0 /\ ~unaudited =>
          entry.state \in {"pending", "committed", "rolledback", "failed"} \/ Locked

IInv == TypeOK /\ Counted /\ Told /\ Barred

-----------------------------------------------------------------------------
(* The batches.                                                            *)

\* What InsertPlan::batches takes up next is part of what is left.
LEMMA NextRowsFits ==
    ASSUME offered \in 0 .. Total, offered < Total
    PROVE  NextRows \in 1 .. Total /\ offered + NextRows <= Total
  BY ImportAssumption DEF NextRows, Smaller

\* An import that ended has one of the outcomes of bulk_terminal.
LEMMA TerminalType ==
    ASSUME end \in Ends, end # "none"
    PROVE  Terminal(end, committed) \in {"committed", "rolledback", "failed", "unknown"}
  BY DEF Ends, Terminal, Partial

\* The reports of ImportRun and the records of an import have their types.
LEMMA ReportType ==
    ASSUME NEW n \in 0 .. Total, NEW failed \in BOOLEAN
    PROVE  [given |-> TRUE, committed |-> n, error |-> failed] \in Reports
  BY Zenon DEF Reports

LEMMA NoRows == 0 \in 0 .. Total
  BY ImportAssumption

LEMMA ErrorReportType ==
    NoReport \in Reports /\ [given |-> TRUE, committed |-> 0, error |-> TRUE] \in Reports
<1>1. TRUE \in BOOLEAN /\ FALSE \in BOOLEAN
  OBVIOUS
<1> QED BY <1>1, NoRows, Zenon DEF NoReport, Reports

LEMMA EntryType ==
    ASSUME NEW n \in 0 .. Total,
           NEW st \in {"none", "pending", "denied", "committed", "rolledback", "failed", "unknown"}
    PROVE  [state |-> st, rows |-> n] \in Entries
  BY Zenon DEF Entries

LEMMA IntentType ==
    /\ NoEntry \in Entries
    /\ [NoEntry EXCEPT !.state = "pending"] \in Entries
    /\ [NoEntry EXCEPT !.state = "denied"] \in Entries
  BY NoRows, EntryType DEF NoEntry, Entries

-----------------------------------------------------------------------------
(* The invariant.                                                          *)

\* A new import has counted, told and barred nothing.
LEMMA InitIInv == Init => IInv
<1> SUFFICES ASSUME Init PROVE IInv
  OBVIOUS
<1>1. TypeOK
  <2>1. entry \in Entries /\ report \in Reports
    BY ErrorReportType, IntentType DEF Init
  <2>2. committed \in 0 .. Total /\ offered \in 0 .. Total /\ stored \in 0 .. Total
    BY NoRows DEF Init
  <2> QED BY <2>1, <2>2, Zenon DEF Init, TypeOK, Ends
<1>2. Counted
  BY ImportAssumption DEF Init, Counted, Before
<1>3. Told
  BY DEF Init, Told, NoEntry, NoReport
<1>4. Barred
  BY DEF Init, Barred, NoEntry
<1> QED BY <1>1, <1>2, <1>3, <1>4 DEF IInv

\* Every step keeps it: one step of the proof for each action.
LEMMA StepIInv == IInv /\ [Next]_vars => IInv'
<1> SUFFICES ASSUME IInv, [Next]_vars PROVE IInv'
  OBVIOUS
<1> USE ImportAssumption DEF IInv, Before
<1>k. CASE Next
  <2> UNCHANGED kindVars
    BY <1>k DEF Next
  <2> USE DEF kindVars
  <2>1. ASSUME StartCsvImport PROVE IInv'
    <3>1. TypeOK'
      BY <2>1 DEF TypeOK, Ends, StartCsvImport, Goto
    <3>2. Counted'
      BY <2>1 DEF TypeOK, Counted, StartCsvImport, Goto
    <3>3. Told'
      BY <2>1 DEF TypeOK, Counted, Told, Barred, Entries, Reports, Terminal, Partial, StartCsvImport, Goto
    <3>4. Barred'
      BY <2>1 DEF TypeOK, Counted, Told, Barred, Entries, Reports, Locked, Terminal, Partial, StartCsvImport, Goto
    <3> QED BY <3>1, <3>2, <3>3, <3>4
  <2>2. ASSUME PressCancel PROVE IInv'
    <3>1. TypeOK'
      BY <2>2 DEF TypeOK, Ends, PressCancel
    <3>2. Counted'
      BY <2>2 DEF TypeOK, Counted, PressCancel
    <3>3. Told'
      BY <2>2 DEF TypeOK, Counted, Told, Barred, Entries, Reports, Terminal, Partial, PressCancel
    <3>4. Barred'
      BY <2>2 DEF TypeOK, Counted, Told, Barred, Entries, Reports, Locked, Terminal, Partial, PressCancel
    <3> QED BY <3>1, <3>2, <3>3, <3>4
  <2>3. ASSUME OthersBar PROVE IInv'
    <3>1. TypeOK'
      BY <2>3 DEF TypeOK, Ends, OthersBar
    <3>2. Counted'
      BY <2>3 DEF TypeOK, Counted, OthersBar
    <3>3. Told'
      BY <2>3 DEF TypeOK, Counted, Told, Barred, Entries, Reports, Terminal, Partial, OthersBar
    <3>4. Barred'
      BY <2>3 DEF TypeOK, Counted, Told, Barred, Entries, Reports, Locked, Terminal, Partial, OthersBar
    <3> QED BY <3>1, <3>2, <3>3, <3>4
  <2>4. ASSUME NEW ok \in BOOLEAN, NEW unclear \in BOOLEAN, CreateTable(ok, unclear) PROVE IInv'
    <3>1. TypeOK'
      <4>1. report' \in Reports
        BY <2>4, ErrorReportType DEF TypeOK, CreateTable, Report
      <4> QED BY <2>4, <4>1 DEF TypeOK, Ends, CreateTable, Goto, Report
    <3>2. Counted'
      BY <2>4 DEF TypeOK, Counted, CreateTable, Goto, Report
    <3>3. Told'
      BY <2>4 DEF TypeOK, Counted, Told, Barred, Entries, Reports, Terminal, Partial, CreateTable, Goto, Report
    <3>4. Barred'
      BY <2>4 DEF TypeOK, Counted, Told, Barred, Entries, Reports, Locked, Terminal, Partial, CreateTable, Goto, Report
    <3> QED BY <3>1, <3>2, <3>3, <3>4
  <2>5. ASSUME Refused PROVE IInv'
    <3>1. TypeOK'
      <4>1. report' \in Reports
        BY <2>5, ErrorReportType DEF Refused, Report
      <4> QED BY <2>5, <4>1 DEF TypeOK, Refused, Goto, Report
    <3>2. Counted'
      BY <2>5 DEF TypeOK, Counted, Refused, Goto, Report
    <3>3. Told'
      BY <2>5 DEF TypeOK, Counted, Told, Barred, Entries, Reports, Terminal, Partial, Refused, Goto, Report
    <3>4. Barred'
      BY <2>5 DEF TypeOK, Counted, Told, Barred, Entries, Reports, Locked, Terminal, Partial, Refused, Goto, Report
    <3> QED BY <3>1, <3>2, <3>3, <3>4
  <2>6. ASSUME Granted PROVE IInv'
    <3>1. TypeOK'
      BY <2>6 DEF TypeOK, Ends, Granted, Goto
    <3>2. Counted'
      BY <2>6 DEF TypeOK, Counted, Granted, Goto
    <3>3. Told'
      BY <2>6 DEF TypeOK, Counted, Told, Barred, Entries, Reports, Terminal, Partial, Granted, Goto
    <3>4. Barred'
      BY <2>6 DEF TypeOK, Counted, Told, Barred, Entries, Reports, Locked, Terminal, Partial, Granted, Goto
    <3> QED BY <3>1, <3>2, <3>3, <3>4
  <2>7. ASSUME IntentRecorded PROVE IInv'
    <3>1. TypeOK'
      <4>1. entry' \in Entries
        BY <2>7, IntentType DEF IntentRecorded
      <4> QED BY <2>7, <4>1 DEF TypeOK, IntentRecorded, Goto
    <3>2. Counted'
      BY <2>7 DEF TypeOK, Counted, IntentRecorded, Goto, NoEntry
    <3>3. Told'
      BY <2>7 DEF TypeOK, Counted, Told, Barred, Entries, Reports, Terminal, Partial, IntentRecorded, Goto, NoEntry
    <3>4. Barred'
      BY <2>7 DEF TypeOK, Counted, Told, Barred, Entries, Reports, Locked, Terminal, Partial, IntentRecorded, Goto, NoEntry
    <3> QED BY <3>1, <3>2, <3>3, <3>4
  <2>8. ASSUME IntentRefused PROVE IInv'
    <3>1. TypeOK'
      <4>1. report' \in Reports
        BY <2>8, ErrorReportType DEF IntentRefused, Report
      <4>2. entry' \in Entries
        BY <2>8, IntentType DEF IntentRefused
      <4> QED BY <2>8, <4>1, <4>2 DEF TypeOK, IntentRefused, DropScope, Goto, Report
    <3>2. Counted'
      BY <2>8 DEF TypeOK, Counted, IntentRefused, DropScope, Goto, Report, NoEntry
    <3>3. Told'
      BY <2>8 DEF TypeOK, Counted, Told, Barred, Entries, Reports, Terminal, Partial, IntentRefused, DropScope, Goto, Report, NoEntry
    <3>4. Barred'
      BY <2>8 DEF TypeOK, Counted, Told, Barred, Entries, Reports, Locked, Terminal, Partial, IntentRefused, DropScope, Goto, Report, NoEntry
    <3> QED BY <3>1, <3>2, <3>3, <3>4
  <2>9. ASSUME IntentFails PROVE IInv'
    <3>1. TypeOK'
      <4>1. report' \in Reports
        BY <2>9, ErrorReportType DEF TypeOK, IntentFails, Report
      <4>2. /\ pc' \in {"batch", "reporting"} /\ locked' \in BOOLEAN
            /\ scope' \in {"none", "open", "closed", "droppedOpen"}
        BY <2>9 DEF TypeOK, IntentFails, DropScope, Goto, Report
      <4>3. UNCHANGED <<sequences, unaudited, token, progress, committed, offered, end, entry, barred, stored>>
        BY <2>9 DEF IntentFails
      <4> QED BY <4>1, <4>2, <4>3 DEF TypeOK
    <3>2. Counted'
      BY <2>9 DEF TypeOK, Counted, IntentFails, DropScope, Goto, Report
    <3>3. Told'
      BY <2>9 DEF TypeOK, Counted, Told, Barred, Entries, Reports, Terminal, Partial, IntentFails, DropScope, Goto, Report
    <3>4. Barred'
      BY <2>9 DEF TypeOK, Counted, Told, Barred, Entries, Reports, Locked, Terminal, Partial, IntentFails, DropScope, Goto, Report
    <3> QED BY <3>1, <3>2, <3>3, <3>4
  <2>10. ASSUME BatchesEnd PROVE IInv'
    <3>1. TypeOK'
      BY <2>10 DEF TypeOK, Ends, BatchesEnd, Stop, Goto
    <3>2. Counted'
      BY <2>10 DEF TypeOK, Counted, BatchesEnd, Stop, Goto
    <3>3. Told'
      BY <2>10 DEF TypeOK, Counted, Told, Barred, Entries, Reports, Terminal, Partial, BatchesEnd, Stop, Goto
    <3>4. Barred'
      BY <2>10 DEF TypeOK, Counted, Told, Barred, Entries, Reports, Locked, Terminal, Partial, BatchesEnd, Stop, Goto
    <3> QED BY <3>1, <3>2, <3>3, <3>4
  <2>11. ASSUME CancelSeen PROVE IInv'
    <3>1. TypeOK'
      BY <2>11 DEF TypeOK, Ends, CancelSeen, Stop, Goto
    <3>2. Counted'
      BY <2>11 DEF TypeOK, Counted, CancelSeen, Stop, Goto
    <3>3. Told'
      BY <2>11 DEF TypeOK, Counted, Told, Barred, Entries, Reports, Terminal, Partial, CancelSeen, Stop, Goto
    <3>4. Barred'
      BY <2>11 DEF TypeOK, Counted, Told, Barred, Entries, Reports, Locked, Terminal, Partial, CancelSeen, Stop, Goto
    <3> QED BY <3>1, <3>2, <3>3, <3>4
  <2>12. ASSUME BatchAdmitted PROVE IInv'
    <3>1. TypeOK'
      BY <2>12 DEF TypeOK, Ends, BatchAdmitted, Goto
    <3>2. Counted'
      BY <2>12 DEF TypeOK, Counted, BatchAdmitted, Goto
    <3>3. Told'
      BY <2>12 DEF TypeOK, Counted, Told, Barred, Entries, Reports, Terminal, Partial, BatchAdmitted, Goto
    <3>4. Barred'
      BY <2>12 DEF TypeOK, Counted, Told, Barred, Entries, Reports, Locked, Terminal, Partial, BatchAdmitted, Goto
    <3> QED BY <3>1, <3>2, <3>3, <3>4
  <2>13. ASSUME BatchCommits PROVE IInv'
    <3>1. NextRows \in 1 .. Total /\ offered + NextRows <= Total
      BY <2>13, NextRowsFits DEF TypeOK, Counted, BatchCommits
    <3>2. TypeOK'
      BY <2>13, <3>1 DEF TypeOK, Counted, Ends, BatchCommits, Goto
    <3>3. Counted'
      BY <2>13, <3>1 DEF TypeOK, Counted, BatchCommits, Goto
    <3>4. Told'
      BY <2>13, <3>1 DEF TypeOK, Counted, Told, Barred, Entries, Reports, Terminal, Partial, BatchCommits, Goto
    <3>5. Barred'
      BY <2>13, <3>1 DEF TypeOK, Counted, Told, Barred, Entries, Reports, Locked, Terminal, Partial, BatchCommits, Goto
    <3> QED BY <3>2, <3>3, <3>4, <3>5
  <2>14. ASSUME NEW e \in {"cancelled", "failed", "partly", "unknown"}, BatchFails(e) PROVE IInv'
    <3>1. NextRows \in 1 .. Total /\ offered + NextRows <= Total
      BY <2>14, NextRowsFits DEF TypeOK, Counted, BatchFails
    <3>2. TypeOK'
      BY <2>14, <3>1 DEF TypeOK, Counted, Ends, BatchFails, Stop, Goto
    <3>3. Counted'
      BY <2>14, <3>1 DEF TypeOK, Counted, BatchFails, Stop, Goto
    <3>4. Told'
      BY <2>14, <3>1 DEF TypeOK, Counted, Told, Barred, Entries, Reports, Terminal, Partial, BatchFails, Stop, Goto
    <3>5. Barred'
      BY <2>14, <3>1 DEF TypeOK, Counted, Told, Barred, Entries, Reports, Locked, Terminal, Partial, BatchFails, Stop, Goto
    <3> QED BY <3>2, <3>3, <3>4, <3>5
  <2>15. ASSUME NEW e \in {"cancelled", "failed"}, BatchRefused(e) PROVE IInv'
    <3>1. TypeOK'
      BY <2>15 DEF TypeOK, Ends, BatchRefused, Stop, Goto
    <3>2. Counted'
      BY <2>15 DEF TypeOK, Counted, BatchRefused, Stop, Goto
    <3>3. Told'
      BY <2>15 DEF TypeOK, Counted, Told, Barred, Entries, Reports, Terminal, Partial, BatchRefused, Stop, Goto
    <3>4. Barred'
      BY <2>15 DEF TypeOK, Counted, Told, Barred, Entries, Reports, Locked, Terminal, Partial, BatchRefused, Stop, Goto
    <3> QED BY <3>1, <3>2, <3>3, <3>4
  <2>16. ASSUME SequencesSynced PROVE IInv'
    <3>1. TypeOK'
      BY <2>16 DEF TypeOK, Ends, SequencesSynced, Goto
    <3>2. Counted'
      BY <2>16 DEF TypeOK, Counted, SequencesSynced, Goto
    <3>3. Told'
      BY <2>16 DEF TypeOK, Counted, Told, Barred, Entries, Reports, Terminal, Partial, SequencesSynced, Goto
    <3>4. Barred'
      BY <2>16 DEF TypeOK, Counted, Told, Barred, Entries, Reports, Locked, Terminal, Partial, SequencesSynced, Goto
    <3> QED BY <3>1, <3>2, <3>3, <3>4
  <2>17. ASSUME NEW e \in {"failed", "unknown"}, SequenceSyncFails(e) PROVE IInv'
    <3>1. TypeOK'
      BY <2>17 DEF TypeOK, Ends, SequenceSyncFails, Stop, Goto
    <3>2. Counted'
      BY <2>17 DEF TypeOK, Counted, SequenceSyncFails, Stop, Goto
    <3>3. Told'
      BY <2>17 DEF TypeOK, Counted, Told, Barred, Entries, Reports, Terminal, Partial, SequenceSyncFails, Stop, Goto
    <3>4. Barred'
      BY <2>17 DEF TypeOK, Counted, Told, Barred, Entries, Reports, Locked, Terminal, Partial, SequenceSyncFails, Stop, Goto
    <3> QED BY <3>1, <3>2, <3>3, <3>4
  <2>18. ASSUME Finish PROVE IInv'
    <3>1. TypeOK'
      BY <2>18 DEF TypeOK, Ends, Finish, Goto
    <3>2. Counted'
      BY <2>18 DEF TypeOK, Counted, Finish, Goto
    <3>3. Told'
      BY <2>18 DEF TypeOK, Counted, Told, Barred, Entries, Reports, Terminal, Partial, Finish, Goto
    <3>4. Barred'
      BY <2>18 DEF TypeOK, Counted, Told, Barred, Entries, Reports, Locked, Terminal, Partial, Finish, Goto
    <3> QED BY <3>1, <3>2, <3>3, <3>4
  <2>19. ASSUME NEW ok \in BOOLEAN, FinishRecorded(ok) PROVE IInv'
    <3>1. TypeOK'
      <4>1. report' \in Reports
        BY <2>19, ReportType DEF TypeOK, FinishRecorded, Report
      <4>2. entry' \in Entries
        BY <2>19, TerminalType, EntryType DEF TypeOK, Told, FinishRecorded
      <4> QED BY <2>19, <4>1, <4>2 DEF TypeOK, Ends, FinishRecorded, Goto, Report
    <3>2. Counted'
      BY <2>19 DEF TypeOK, Counted, FinishRecorded, Goto, Report
    <3>3. Told'
      BY <2>19 DEF TypeOK, Counted, Told, Barred, Entries, Reports, Terminal, Partial, FinishRecorded, Goto, Report
    <3>4. Barred'
      <4>1. end # "none" /\ pc = "recording" /\ (end = "unknown" => locked)
        BY <2>19 DEF FinishRecorded, Told, Barred
      <4>2. CASE ok
        <5>1. entry'.state = Terminal(end, committed)
          BY <2>19, <4>2 DEF FinishRecorded
        <5>2. entry'.state \in {"committed", "rolledback", "failed"} \/ locked
          BY <5>1, <4>1 DEF TypeOK, Ends, Terminal, Partial
        <5> QED BY <2>19, <4>1, <5>2 DEF TypeOK, Barred, Locked, FinishRecorded, Goto, Report
      <4>3. CASE ~ok
        BY <2>19, <4>1, <4>3 DEF TypeOK, Barred, Locked, FinishRecorded, Goto, Report
      <4> QED BY <4>2, <4>3
    <3> QED BY <3>1, <3>2, <3>3, <3>4
  <2>20. ASSUME CsvImportFinished PROVE IInv'
    <3>1. TypeOK'
      BY <2>20 DEF TypeOK, Ends, CsvImportFinished, Goto
    <3>2. Counted'
      BY <2>20 DEF TypeOK, Counted, CsvImportFinished, Goto
    <3>3. Told'
      BY <2>20 DEF TypeOK, Counted, Told, Barred, Entries, Reports, Terminal, Partial, CsvImportFinished, Goto
    <3>4. Barred'
      BY <2>20 DEF TypeOK, Counted, Told, Barred, Entries, Reports, Locked, Terminal, Partial, CsvImportFinished, Goto
    <3> QED BY <3>1, <3>2, <3>3, <3>4
  <2>21. ASSUME DropRun PROVE IInv'
    <3>1. pc = "running" => NextRows \in 1 .. Total /\ offered + NextRows <= Total
      BY NextRowsFits DEF TypeOK, Counted
    <3>2. TypeOK'
      <4>1. stored' \in 0 .. Total
        BY <2>21, <3>1 DEF TypeOK, Counted, DropRun
      <4> QED BY <2>21, <4>1 DEF TypeOK, DropRun, DropScope, Goto
    <3>3. Counted'
      BY <2>21, <3>1 DEF TypeOK, Counted, DropRun, DropScope, Goto
    <3>4. Told'
      BY <2>21, <3>1 DEF TypeOK, Counted, Told, Barred, Entries, Reports, Terminal, Partial, DropRun, DropScope, Goto
    <3>5. Barred'
      BY <2>21, <3>1 DEF TypeOK, Counted, Told, Barred, Entries, Reports, Locked, Terminal, Partial, DropRun, DropScope, Goto
    <3> QED BY <3>2, <3>3, <3>4, <3>5
  <2> QED BY <1>k, <2>1, <2>2, <2>3, <2>4, <2>5, <2>6, <2>7, <2>8, <2>9, <2>10, <2>11, <2>12, <2>13, <2>14, <2>15, <2>16, <2>17, <2>18, <2>19, <2>20, <2>21 DEF Next, Run
<1>s. CASE UNCHANGED vars
  <2>1. TypeOK' BY <1>s DEF vars, kindVars, TypeOK
  <2>2. Counted' BY <1>s DEF vars, Counted
  <2>3. Told' BY <1>s DEF vars, Told, Terminal, Partial
  <2>4. Barred' BY <1>s DEF vars, kindVars, Barred, Locked
  <2> QED BY <2>1, <2>2, <2>3, <2>4
<1> QED BY <1>k, <1>s

\* The invariant holds in every reachable state.
THEOREM ImportInvariant == Spec => []IInv
  BY InitIInv, StepIInv, PTL DEF Spec

-----------------------------------------------------------------------------
(* The properties of the runs.                                             *)

\* Type correctness, for every plan and batch size.
THEOREM ImportTypes == Spec => []TypeOK
<1> IInv => TypeOK BY DEF IInv
<1> QED BY ImportInvariant, PTL

\* A record that calls the import committed or rolled back names the rows that
\* are in the table, however many batches there were (bulk_terminal).
THEOREM ImportRecord == Spec => []RecordCountsRows
<1>1. IInv => RecordCountsRows
  <2> SUFFICES ASSUME IInv, Settled PROVE entry.rows = stored /\ (entry.state = "rolledback" => stored = 0)
    BY DEF RecordCountsRows
  <2>1. /\ end # "none" /\ end \in Ends /\ pc # "gone"
        /\ entry.state = Terminal(end, committed) /\ entry.rows = committed
    BY DEF IInv, TypeOK, Told, Settled
  <2>2. end \notin {"partly", "unknown"}
    BY <2>1 DEF Settled, Terminal
  <2>3. stored = committed
    BY <2>1, <2>2 DEF IInv, Counted
  <2>4. entry.state = "rolledback" => committed = 0
    BY <2>1, <2>2 DEF Ends, Terminal, Partial
  <2> QED BY <2>1, <2>3, <2>4
<1> QED BY <1>1, ImportInvariant, PTL

\* A reported success means every row is in, and a known end names their
\* number (CsvImportReport).
THEOREM ImportReport == Spec => []ReportTellsTruth
<1>1. IInv => ReportTellsTruth
  BY DEF IInv, TypeOK, Counted, Told, ReportTellsTruth
<1> QED BY <1>1, ImportInvariant, PTL

\* When the task is over, rows nothing accounts for bar further writes
\* (finish_bulk_insert and the pending intent).
THEOREM ImportOpenRowsBlock == Spec => []OpenRowsBlock
<1>1. IInv => OpenRowsBlock
  BY DEF IInv, Barred, OpenRowsBlock, Settled
<1> QED BY <1>1, ImportInvariant, PTL
=============================================================================
