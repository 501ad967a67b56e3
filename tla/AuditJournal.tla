---------------------------- MODULE AuditJournal ----------------------------
(***************************************************************************)
(* The audit journal of crates/storage/src/audit_journal.rs: one hash-     *)
(* chained append-only file shared by the processes (GUI, agentd) that     *)
(* have it open.  Every append runs under two exclusive file locks, scans  *)
(* the records written since the process's cached cursor, applies the      *)
(* write gate (one write in flight per connection) and appends one line.   *)
(*                                                                         *)
(* Abstractions.  A record keeps its sequence number, the hash of its      *)
(* predecessor and its event; the hash of a record is the pair of its      *)
(* sequence number and its event.  The class and the connection of an      *)
(* operation are fixed by its id, as they are in the events the guard      *)
(* writes.  "commit" stands for every class whose outcome is synced (a     *)
(* transaction commit, an administrative action).  The work a process does *)
(* while it holds the initialization lock is one step, unless a crash      *)
(* inside it leaves something behind.                                      *)
(***************************************************************************)
EXTENDS Naturals, Sequences, FiniteSets

CONSTANTS
    Proc,       \* processes that open the journal
    Op,         \* audited operations (operation_id)
    Conn,       \* saved connections
    NilConn,    \* the nil connection id of process-wide operations
    ConnOf,     \* ConnOf[o]: connection_id in the events of operation o
    ClassOf,    \* ClassOf[o]: operation_class in the events of operation o
    NoCursor,   \* an empty writer slot
    NoEvent     \* what the genesis hash covers

Class == {"read", "write", "commit", "rollback"}

ASSUME OpAssumption ==
    /\ ConnOf \in [Op -> Conn \cup {NilConn}]
    /\ ClassOf \in [Op -> Class]

Status == {"pending", "succeeded", "denied", "unknown", "recovered"}

Event == [op : Op, phase : {"intent"}, status : {"pending"}]
         \cup [op : Op, phase : {"outcome"}, status : Status]

ASSUME NoEventAssumption == NoEvent \notin Event

Intent(o) == [op |-> o, phase |-> "intent", status |-> "pending"]
Outcome(o, s) == [op |-> o, phase |-> "outcome", status |-> s]

\* A journal tail: sequence number and hash of the last record.
Tail_(seq, event) == [seq |-> seq, last |-> event]
TailType == [seq : Nat, last : Event \cup {NoEvent}]
Record == [seq : Nat, prev : TailType, event : Event]
TailOf(r) == Tail_(r.seq, r.event)

JournalState == [tail : TailType, pending : SUBSET Op, unresolved : SUBSET Op]
Genesis == [tail |-> Tail_(0, NoEvent), pending |-> {}, unresolved |-> {}]

IsWrite(o) == ClassOf[o] # "read"
IsIntent(e) == e.phase = "intent"
IsOutcome(e) == e.phase = "outcome"
\* Mutant: any outcome record ends the intent, a delivered page included.
EndsIntentOnPage(e) == IsOutcome(e)
EndsIntent(e) == IsOutcome(e) /\ e.status # "pending"
\* Mutant: an outcome written by recovery does not block later writes.
LeavesUnknownUnlessRecovered(e) == IsOutcome(e) /\ IsWrite(e.op) /\ e.status = "unknown"
LeavesUnknown(e) == IsOutcome(e) /\ IsWrite(e.op) /\ e.status \in {"unknown", "recovered"}

-----------------------------------------------------------------------------
(***************************************************************************)
(* Scanning.  What track_operation_state leaves after a run of records, in *)
(* closed form: the last event that concerns an operation decides.         *)
(***************************************************************************)

PendingAfter(before, recs) ==
    {o \in Op :
        \/ /\ o \in before
           /\ \A j \in 1..Len(recs) : ~(recs[j].event.op = o /\ EndsIntent(recs[j].event))
        \/ \E i \in 1..Len(recs) :
              /\ recs[i].event.op = o
              /\ IsIntent(recs[i].event)
              /\ \A j \in 1..Len(recs) :
                    j > i => ~(recs[j].event.op = o /\ EndsIntent(recs[j].event))}

UnresolvedAfter(before, recs) ==
    {o \in Op :
        \/ /\ o \in before
           /\ \A j \in 1..Len(recs) : ~(recs[j].event.op = o /\ IsOutcome(recs[j].event))
        \/ \E i \in 1..Len(recs) :
              /\ recs[i].event.op = o
              /\ LeavesUnknown(recs[i].event)
              /\ \A j \in 1..Len(recs) :
                    j > i => ~(recs[j].event.op = o /\ IsOutcome(recs[j].event))}

TailAfter(before, recs) == IF recs = <<>> THEN before ELSE TailOf(recs[Len(recs)])

\* scan_records from a verified state over the records after it.
ScanRecords(st, recs) ==
    [tail |-> TailAfter(st.tail, recs),
     pending |-> PendingAfter(st.pending, recs),
     unresolved |-> UnresolvedAfter(st.unresolved, recs)]

\* validate_chain_fields for every scanned record.
ChainValid(tail, recs) ==
    \A i \in 1..Len(recs) :
        LET before == IF i = 1 THEN tail ELSE TailOf(recs[i - 1])
        IN  recs[i].seq = before.seq + 1 /\ recs[i].prev = before

\* write_scope_blocks: the nil id overlaps every connection.
WriteScopeBlocks(c, d) == c = NilConn \/ d = NilConn \/ c = d

\* reject_new_write_intent, split by the error it returns.
Gated(e) == IsIntent(e) /\ IsWrite(e.op) /\ ClassOf[e.op] # "rollback"
BlockedByUnresolved(st, e) ==
    Gated(e) /\ \E o \in st.unresolved : WriteScopeBlocks(ConnOf[e.op], ConnOf[o])
\* Mutant: only writes with the very same class count as in flight.
BlockedByPendingSameClass(st, e) ==
    Gated(e) /\ \E o \in st.pending : ClassOf[o] = ClassOf[e.op] /\ WriteScopeBlocks(ConnOf[e.op], ConnOf[o])
BlockedByPending(st, e) ==
    Gated(e) /\ \E o \in st.pending : IsWrite(o) /\ WriteScopeBlocks(ConnOf[e.op], ConnOf[o])
RejectNewWriteIntent(st, e) == BlockedByUnresolved(st, e) \/ BlockedByPending(st, e)

\* The durable flag of AuditSink::record.
Durable(e) == IsIntent(e) \/ ClassOf[e.op] = "commit"

-----------------------------------------------------------------------------
VARIABLES
    file,    \* complete records on disk
    ragged,  \* what follows the last newline: see Ragged
    synced,  \* how many records a host crash cannot take away
    pc,      \* pc[p]: where process p is in initialize, or "up"
    slot,    \* slot[p]: the cursor in the process's WRITERS slot
    tasks,   \* tasks[p]: append_locked closures handed to spawn_blocking
    opst,    \* opst[o]: where the caller that audits operation o is
    owner,   \* owner[o]: the process that runs operation o
    acked    \* events whose append returned Ok to its caller

fileVars == <<file, ragged, synced>>
callerVars == <<opst, owner, acked>>
vars == <<file, ragged, synced, pc, slot, tasks, opst, owner, acked>>

\* "partial": an unterminated line that does not parse.
\* "nonewline": the last record of file is whole but its newline is missing.
Ragged == {"clean", "partial", "nonewline"}

PC == {"down", "waitShared", "verifyShared", "repair", "recover", "up"}
Cursor == [offset : Nat, aligned : BOOLEAN, st : JournalState]
Task == [event : Event, cursor : Cursor \cup {NoCursor}, attached : BOOLEAN]
OpState == {"idle", "intending", "live", "refused", "settling", "done", "failed", "lost"}

ASSUME NoCursorAssumption == NoCursor \notin Cursor /\ NoCursor \notin Proc

TypeOK ==
    /\ file \in Seq(Record)
    /\ ragged \in Ragged
    /\ synced \in 0..Len(file)
    /\ pc \in [Proc -> PC]
    /\ slot \in [Proc -> Cursor \cup {NoCursor}]
    /\ tasks \in [Proc -> SUBSET Task]
    /\ opst \in [Op -> OpState]
    /\ owner \in [Op -> Proc \cup {NoCursor}]
    /\ acked \subseteq Event

Init ==
    /\ file = <<>>
    /\ ragged = "clean"
    /\ synced = 0
    /\ pc = [p \in Proc |-> "down"]
    /\ slot = [p \in Proc |-> NoCursor]
    /\ tasks = [p \in Proc |-> {}]
    /\ opst = [o \in Op |-> "idle"]
    /\ owner = [o \in Op |-> NoCursor]
    /\ acked = {}

-----------------------------------------------------------------------------
(* Locks.  They are flock leases, so a process that dies releases them.    *)

InitLockFree == \A q \in Proc : pc[q] \notin {"repair", "recover"}
ActiveShared(q) == pc[q] \in {"verifyShared", "up"}
ActiveExclusive(q) == pc[q] \in {"repair", "recover"}

\* What the file holds now, as a scan from genesis sees it.
Pending == PendingAfter({}, file)
Unresolved == UnresolvedAfter({}, file)

AtEndOf(f, terminated, st) == [offset |-> Len(f), aligned |-> terminated, st |-> st]
FromGenesis == AtEndOf(<<>>, TRUE, Genesis)

-----------------------------------------------------------------------------
(* Opening: initialize and open_validated.                                 *)

\* Mutant: the active lock is not consulted before recovery.
TryOpenWithoutLease(p) ==
    /\ pc[p] = "down"
    /\ InitLockFree
    /\ pc' = [pc EXCEPT ![p] = "repair"]
    /\ UNCHANGED <<fileVars, slot, tasks, callerVars>>

\* Take the initialization lock and try the active lock exclusively; when a
\* live owner is in the way, release the initialization lock again.
TryOpen(p) ==
    /\ pc[p] = "down"
    /\ InitLockFree
    /\ pc' = [pc EXCEPT ![p] =
                 IF \E q \in Proc : ActiveShared(q) THEN "waitShared" ELSE "repair"]
    /\ UNCHANGED <<fileVars, slot, tasks, callerVars>>

\* acquire_shared_lock on the active lock, without the initialization lock.
AcquireShared(p) ==
    /\ pc[p] = "waitShared"
    /\ \A q \in Proc : ~ActiveExclusive(q)
    /\ pc' = [pc EXCEPT ![p] = "verifyShared"]
    /\ UNCHANGED <<fileVars, slot, tasks, callerVars>>

\* Validate beside a live owner, repairing nothing.  A torn line is an error.
VerifyShared(p) ==
    /\ pc[p] = "verifyShared"
    /\ InitLockFree
    /\ IF ragged = "partial"
          THEN /\ pc' = [pc EXCEPT ![p] = "down"]
               /\ UNCHANGED slot
          ELSE /\ pc' = [pc EXCEPT ![p] = "up"]
               /\ slot' = [slot EXCEPT ![p] =
                             AtEndOf(file, ragged = "clean", ScanRecords(Genesis, file))]
    /\ UNCHANGED <<fileVars, tasks, callerVars>>

\* The sole owner verifies from genesis and repairs the end of the file.
RepairTail(p) ==
    /\ pc[p] = "repair"
    /\ ragged' = "clean"
    /\ synced' = IF ragged = "clean" THEN synced ELSE Len(file)
    /\ pc' = [pc EXCEPT ![p] = "recover"]
    /\ UNCHANGED <<file, slot, tasks, callerVars>>

AppendRecord(tail, e) == Append(file, [seq |-> tail.seq + 1, prev |-> tail, event |-> e])

\* recover_pending_intents, one durable append per pending intent.
RecoverIntent(p) ==
    /\ pc[p] = "recover"
    /\ \E o \in Pending :
          file' = AppendRecord(TailAfter(Genesis.tail, file), Outcome(o, "recovered"))
    /\ synced' = Len(file')
    /\ UNCHANGED <<ragged, pc, slot, tasks, callerVars>>

\* A recovery append that fails makes open_validated fail: the line is torn,
\* lacks only its newline, or is whole and could not be synced.
RecoverFails(p) ==
    /\ pc[p] = "recover"
    /\ \E o \in Pending :
          \/ ragged' = "partial" /\ UNCHANGED file
          \/ /\ ragged' \in {"nonewline", "clean"}
             /\ file' = AppendRecord(TailAfter(Genesis.tail, file), Outcome(o, "recovered"))
    /\ pc' = [pc EXCEPT ![p] = "down"]
    /\ UNCHANGED <<synced, slot, tasks, callerVars>>

\* Mutant: the published cursor forgets the writes recovery left unresolved.
FinishOpenForgetful(p) ==
    /\ pc[p] = "recover"
    /\ Pending = {}
    /\ pc' = [pc EXCEPT ![p] = "up"]
    /\ slot' = [slot EXCEPT ![p] =
                  AtEndOf(file, TRUE, [ScanRecords(Genesis, file) EXCEPT !.unresolved = {}])]
    /\ UNCHANGED <<fileVars, tasks, callerVars>>

\* Downgrade the active lock to shared and publish the cursor.
FinishOpen(p) ==
    /\ pc[p] = "recover"
    /\ Pending = {}
    /\ pc' = [pc EXCEPT ![p] = "up"]
    /\ slot' = [slot EXCEPT ![p] = AtEndOf(file, TRUE, ScanRecords(Genesis, file))]
    /\ UNCHANGED <<fileVars, tasks, callerVars>>

-----------------------------------------------------------------------------
(* Callers: what the guard asks the sink to record for one operation.      *)

\* append_record: lock the writer slot, take its cursor, hand the closure over.
StartAppend(p, e) ==
    /\ pc[p] = "up"
    /\ \A t \in tasks[p] : ~t.attached
    /\ tasks' = [tasks EXCEPT ![p] =
                   @ \cup {[event |-> e, cursor |-> slot[p], attached |-> TRUE]}]
    /\ slot' = [slot EXCEPT ![p] = NoCursor]

BeginIntent(p, o) ==
    /\ opst[o] = "idle"
    /\ StartAppend(p, Intent(o))
    /\ opst' = [opst EXCEPT ![o] = "intending"]
    /\ owner' = [owner EXCEPT ![o] = p]
    /\ UNCHANGED <<fileVars, pc, acked>>

\* A terminal record; a denial may come without an intent.
BeginOutcome(p, o) ==
    /\ \/ opst[o] = "idle"
       \/ opst[o] \in {"live", "refused"} /\ owner[o] = p
    /\ \E s \in IF opst[o] = "live" THEN {"succeeded", "unknown"} ELSE {"denied"} :
          StartAppend(p, Outcome(o, s))
    /\ opst' = [opst EXCEPT ![o] = "settling"]
    /\ owner' = [owner EXCEPT ![o] = p]
    /\ UNCHANGED <<fileVars, pc, acked>>

\* A delivered cursor page: an outcome record that settles nothing.
BeginPage(p, o) ==
    /\ opst[o] = "live" /\ owner[o] = p /\ ~IsWrite(o)
    /\ Outcome(o, "pending") \notin acked
    /\ StartAppend(p, Outcome(o, "pending"))
    /\ opst' = [opst EXCEPT ![o] = "settling"]
    /\ UNCHANGED <<fileVars, pc, owner, acked>>

\* The caller's future is dropped; the blocking closure runs on.
DropCaller(p, t) ==
    /\ t.attached
    /\ tasks' = [tasks EXCEPT ![p] = (@ \ {t}) \cup {[t EXCEPT !.attached = FALSE]}]
    /\ opst' = [opst EXCEPT ![t.event.op] = "lost"]
    /\ UNCHANGED <<fileVars, pc, slot, owner, acked>>

-----------------------------------------------------------------------------
(* append_locked, under the initialization lock and the journal lock.      *)

\* resume_verified_state: the cursor if it still describes the file.
Resume(t) ==
    IF t.cursor # NoCursor /\ t.cursor.aligned /\ t.cursor.offset <= Len(file)
      THEN t.cursor ELSE FromGenesis
\* Mutant: records other processes wrote since the cursor are not read.
UnscannedNone(t) == SubSeq(file, Len(file) + 1, Len(file))
Unscanned(t) == SubSeq(file, Resume(t).offset + 1, Len(file))
ResumedState(t) == ScanRecords(Resume(t).st, Unscanned(t))
ScanSucceeds(t) == InitLockFree /\ ChainValid(Resume(t).st.tail, Unscanned(t))

\* The scan repairs a ragged end before anything is appended.
SyncedByScan == IF ragged = "clean" THEN synced ELSE Len(file)

\* What the awaiting caller learns, if it still waits.
Reply(p, t, answer) ==
    /\ tasks' = [tasks EXCEPT ![p] = @ \ {t}]
    /\ opst' = IF t.attached THEN [opst EXCEPT ![t.event.op] = answer] ELSE opst
    /\ UNCHANGED <<pc, owner>>

OkState(e) == IF e.status = "pending" THEN "live" ELSE "done"

\* Mutant: a durable append returns without the sync.
AppendSucceedsUnsynced(p, t) ==
    /\ ScanSucceeds(t)
    /\ ~RejectNewWriteIntent(ResumedState(t), t.event)
    /\ file' = AppendRecord(ResumedState(t).tail, t.event)
    /\ ragged' = "clean"
    /\ synced' = SyncedByScan
    /\ slot' = IF t.attached THEN [slot EXCEPT ![p] = NoCursor] ELSE slot
    /\ acked' = IF t.attached THEN acked \cup {t.event} ELSE acked
    /\ Reply(p, t, OkState(t.event))

\* The line, and for a durable event the sync, succeeded.
AppendSucceeds(p, t) ==
    /\ ScanSucceeds(t)
    /\ ~RejectNewWriteIntent(ResumedState(t), t.event)
    /\ file' = AppendRecord(ResumedState(t).tail, t.event)
    /\ ragged' = "clean"
    /\ synced' = IF Durable(t.event) THEN Len(file') ELSE SyncedByScan
    /\ slot' = IF t.attached
                 THEN [slot EXCEPT ![p] =
                         AtEndOf(file', TRUE, ScanRecords(Resume(t).st, Append(Unscanned(t), file'[Len(file')])))]
                 ELSE slot
    /\ acked' = IF t.attached THEN acked \cup {t.event} ELSE acked
    /\ Reply(p, t, OkState(t.event))

\* Mutant: the gate is asked after the line was written.
AppendRejectedLate(p, t) ==
    /\ ScanSucceeds(t)
    /\ RejectNewWriteIntent(ResumedState(t), t.event)
    /\ file' = AppendRecord(ResumedState(t).tail, t.event)
    /\ ragged' = "clean"
    /\ synced' = SyncedByScan
    /\ Reply(p, t, "refused")
    /\ UNCHANGED <<slot, acked>>

\* UnresolvedWrite or WriteInFlight: nothing is appended.
AppendRejected(p, t) ==
    /\ ScanSucceeds(t)
    /\ RejectNewWriteIntent(ResumedState(t), t.event)
    /\ ragged' = "clean"
    /\ synced' = SyncedByScan
    /\ Reply(p, t, "refused")
    /\ UNCHANGED <<file, slot, acked>>

\* write_all stops inside the line, or only the newline is missing.
AppendTorn(p, t) ==
    /\ ScanSucceeds(t)
    /\ ~RejectNewWriteIntent(ResumedState(t), t.event)
    /\ \/ ragged' = "partial" /\ UNCHANGED file
       \/ ragged' = "nonewline" /\ file' = AppendRecord(ResumedState(t).tail, t.event)
    /\ synced' = SyncedByScan
    /\ Reply(p, t, "failed")
    /\ UNCHANGED <<slot, acked>>

\* sync_data fails after the whole line was written.
AppendUnsynced(p, t) ==
    /\ ScanSucceeds(t)
    /\ ~RejectNewWriteIntent(ResumedState(t), t.event)
    /\ Durable(t.event)
    /\ file' = AppendRecord(ResumedState(t).tail, t.event)
    /\ ragged' = "clean"
    /\ synced' = SyncedByScan
    /\ Reply(p, t, "failed")
    /\ UNCHANGED <<slot, acked>>

\* Opening, locking or scanning the file fails before anything is written.
AppendFails(p, t) ==
    /\ Reply(p, t, "failed")
    /\ UNCHANGED <<fileVars, slot, acked>>

RunAppend(p, t) ==
    \/ AppendSucceeds(p, t)
    \/ AppendRejected(p, t)
    \/ AppendTorn(p, t)
    \/ AppendUnsynced(p, t)
    \/ AppendFails(p, t)

-----------------------------------------------------------------------------
(* Crashes.                                                                *)

\* The operations of the processes in P are never settled by their callers.
Orphaned(P) ==
    [o \in Op |-> IF owner[o] \in P /\ opst[o] # "done" THEN "lost" ELSE opst[o]]

\* A process dies; the kernel keeps what it wrote and drops its locks.
Crash(p) ==
    /\ pc[p] # "down"
    /\ pc' = [pc EXCEPT ![p] = "down"]
    /\ slot' = [slot EXCEPT ![p] = NoCursor]
    /\ tasks' = [tasks EXCEPT ![p] = {}]
    /\ opst' = Orphaned({p})
    /\ UNCHANGED <<fileVars, owner, acked>>

\* The host dies; a suffix of the unsynced records may be lost.
HostCrash ==
    /\ \E n \in synced..Len(file) :
          /\ file' = SubSeq(file, 1, n)
          /\ synced' = n
          /\ ragged' \in (IF n < Len(file) THEN {"clean", "partial"}
                         ELSE IF ragged = "partial" THEN {"clean", "partial"} ELSE {ragged})
                        \cup (IF n > synced THEN {"nonewline"} ELSE {})
    /\ pc' = [p \in Proc |-> "down"]
    /\ slot' = [p \in Proc |-> NoCursor]
    /\ tasks' = [p \in Proc |-> {}]
    /\ opst' = Orphaned(Proc)
    /\ UNCHANGED <<owner, acked>>

Open(p) ==
    \/ TryOpen(p) \/ AcquireShared(p) \/ VerifyShared(p)
    \/ RepairTail(p) \/ RecoverIntent(p) \/ RecoverFails(p) \/ FinishOpen(p)

Call(p) == \E o \in Op : BeginIntent(p, o) \/ BeginOutcome(p, o) \/ BeginPage(p, o)

Next ==
    \/ \E p \in Proc :
          \/ Open(p)
          \/ Call(p)
          \/ \E t \in tasks[p] : DropCaller(p, t) \/ RunAppend(p, t)
          \/ Crash(p)
    \/ HostCrash

Spec == Init /\ [][Next]_vars

-----------------------------------------------------------------------------
(* Properties.                                                             *)

\* Records form one unbroken chain from genesis, whichever processes wrote
\* them, through cursors, torn lines and crashes (validate_chain_fields never
\* finds a mismatch).
ChainIntact == ChainValid(Genesis.tail, file)

\* A cached cursor always tells the truth about the prefix it covers: resuming
\* from it (resume_verified_state) sees what a scan from genesis would see.
CursorFaithful ==
    \A p \in Proc :
        \A c \in {slot[p]} \cup {t.cursor : t \in tasks[p]} :
            c # NoCursor =>
                /\ c.offset <= Len(file)
                /\ c.st = ScanRecords(Genesis, SubSeq(file, 1, c.offset))

\* Every gated write intent on disk was admitted against the journal as it
\* really was at that point, not as one process remembered it: no write in its
\* scope was pending or unresolved in the records before it.
GateRespected ==
    \A i \in 1..Len(file) :
        ~RejectNewWriteIntent(ScanRecords(Genesis, SubSeq(file, 1, i - 1)), file[i].event)

\* At most one gated write per connection scope is in flight at any time, in
\* all processes together (WriteInFlight).
OneWriteInFlight ==
    \A o1, o2 \in Pending :
        /\ o1 # o2
        /\ WriteScopeBlocks(ConnOf[o1], ConnOf[o2])
        => ~(Gated(Intent(o1)) /\ Gated(Intent(o2)))

\* The active-lock lease keeps startup recovery from recording the in-flight
\* operation of a live process as Unknown.
LiveNotRecovered ==
    \A i \in 1..Len(file) :
        file[i].event.status = "recovered" =>
            opst[file[i].event.op] \notin {"intending", "live", "refused", "settling"}

\* An intent whose append returned Ok, and a commit outcome likewise, survive
\* a crash of the host: work dispatched after it can never be forgotten.
AcknowledgedIsDurable ==
    \A e \in acked :
        Durable(e) => \E i \in 1..synced : file[i].event = e

\* An acknowledged intent that nobody settled stays visible: it is pending, or
\* its unknown outcome is on record and, for a write, still blocks its scope.
\* Delivered cursor pages settle nothing.
UnsettledVisible ==
    \A o \in Op :
        /\ Intent(o) \in acked
        /\ \A i \in 1..Len(file) :
              ~(file[i].event.op = o /\ file[i].event.status \in {"succeeded", "denied"})
        => \/ o \in Pending
           \/ IF IsWrite(o) THEN o \in Unresolved
              ELSE \E i \in 1..Len(file) : file[i].event \in {Outcome(o, "unknown"), Outcome(o, "recovered")}

\* A caller's answer agrees with the shared file for as long as it may act on
\* it: an operation whose intent was accepted stays pending until its own
\* process settles it, whatever other processes append or recover, and one that
\* was refused as blocked (UnresolvedWrite, WriteInFlight) has no record at all.
AnswerMatchesFile ==
    \A o \in Op :
        /\ opst[o] = "live" => o \in Pending
        /\ opst[o] = "refused" => \A i \in 1..Len(file) : file[i].event.op # o

\* docs/storage.md: after all owners exit, the next opener recovers any intents
\* left pending by a crash.  So an opener that becomes the only holder of the
\* active lock without having recovered must find nothing pending.
NextOpenerRecovers ==
    [][\A p \in Proc :
         /\ pc[p] = "waitShared" /\ pc'[p] = "verifyShared"
         /\ \A q \in Proc \ {p} : ~ActiveShared(q)
         => Pending = {}]_vars

=============================================================================
