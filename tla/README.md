# BookiE: TLA+ models, checks and proofs

BookiE is a database client with two programs over one set of crates: a GTK
application and `tablepro-agentd`, a headless server for agents. Both reach a
database the same way. A request is resolved from storage, carried over a
transport to a driver, and wrapped by a *policy guard*, which classifies the
statement, applies the rules, may ask a person, records an intent in an audit
journal shared by all processes, runs the statement, and records how it ended.

This project models that governed path: the journal, the guard, the rules, the
control that cancels statements, the sessions that hold a transaction, and the
import that spreads one approval over many batches. They are the parts where a
crash, a late answer or a second process at the wrong moment would make the
record of what was done to a database wrong. Three parts beside the path are
modelled too, because they share state between calls or processes: the daemon's
session cache, the token file, and the result spool.

## Inventory

| part | state | what makes it hard | module |
|---|---|---|---|
| audit journal (`storage/audit_journal*.rs`) | file, locks, a cursor per process | several processes, torn and unsynced lines, crashes, recovery beside live owners, dropped callers | `AuditJournal` |
| policy guard (`policy/guard.rs`, `guard/connection.rs`, `guard/administrative.rs`, `audit.rs`) | two lock flags, calls in flight | flags read before long awaits, ambiguous answers, dropped futures, failing or missing journal, reconnects | `PolicyGuard`, `GovernedWrites` |
| policy rules (`policy/rules.rs`, `verdict.rs`, `effects.rs`, `config.rs`) | none (a request is decided in stages) | many knobs in combination, decision split around a row count | `Rules` |
| operation control (`core/operation.rs`) | token, deadline, request, two timeouts | cancellation racing the statement's own end; peers that never answer | `OperationControl` |
| guarded sessions (`guard/session.rs`) | pinned connection, transaction, cursors, batch | ambiguous end of a transaction, abandonment, dropped calls | `PolicySession` |
| bulk import (`guard/bulk.rs`, `ui/app/import.rs`) | open scope over several batches | one batch of several failing, sequence repair after commit, a task dropped with its window | `BulkImport` |
| agent daemon sessions (`agentd/lib.rs`) | session cache keyed by transport fields and material | row and secrets changing across an await, faults reported late | `AgentSessions` (opening a guard is in `PolicyGuard`) |
| MCP tokens (`mcp/tokens.rs`, `mcp/bridge.rs`) | token file, its lock, a cache by stamp | several processes rewriting one file, stale cache, host crashes | `TokenStore` |
| result spool (`app-services/stream_result_spool.rs`) | file, page index, nonces, shared budget | a page failing half way, a truncation that fails, concurrent reservations | `ResultSpool` |
| rate limit, connection monitor, request ordering, workspace, connection store, bundles | small | see "Not modelled" | — |
| classification, masking, SQL text, drivers, transport, dump tools, GTK views | — | parsing, I/O, presentation | — |

`PROJECT.json` lists every part with the reason where it is not modelled, and
the hazards of the modelled parts at their lines. Of the parts left out it lists
only some.

## Modules

### AuditJournal

`file` is the sequence of complete records; `ragged` is what follows the last
newline; `synced` is how much survives a host crash. A record carries the
sequence number and the tail it extends, which stands for its hash. `pc[p]` is
where process `p` is in `initialize`: the initialization lock and the
shared or exclusive lease are functions of it. `slot[p]` is the cached cursor,
`tasks[p]` are the blocking appends, which go on when their caller is dropped.

Opening is `TryOpen`, then either `AcquireShared` and `VerifyShared` beside a
live owner, or `RepairTail`, `RecoverIntent` for each pending intent and
`FinishOpen` without one. A recovery append may fail (`RecoverFails`) with a torn
line, with only the newline missing, or whole and unsynced. `BeginIntent`,
`BeginOutcome` and `BeginPage` queue an append. `AppendSucceeds`,
`AppendRejected`, `AppendTorn`, `AppendUnsynced` and `AppendFails` are its ends;
the append holds the file lock, so it is one step. `Crash` and `HostCrash` may come at any time.

Left out: rotation of legacy journals, file modes, and `verify_chain` and
`recent`, which change no state.

### PolicyGuard and GovernedWrites

`PolicyGuard` follows operations of GUI and daemon processes through
authorization, estimate, approval, intent, driver call and outcome. `pc[o]` is
the await a call is at. `disabled[p]` is `globally_disabled`, `uncertain[g]`
is `connection_uncertain` of generation `g`; `known[p]` is the startup snapshot
of unresolved connections. `exposed` holds the writes that may have, or may
still take, an effect that nobody knows: a write is in it from the call of the
driver until the driver gives a definite answer. It is the ground truth against
which the records are judged. The rules' decision and the driver's answer are choices.
`Rules` and `OperationControl` say what they can be.

A process starts with the journal (`StartProcess`) or, a GUI, without one
(`StartUnaudited`; `sink[p]` tells the two apart). The snapshot it takes then
holds what recovery made unknown and also what is still pending in other
processes (`InDoubt`). `SettingsStarts` is a process-wide operation of the GUI,
such as the export of the saved connections: it is recorded under the nil
connection id, whose scope overlaps every other (`Overlaps`), and every failure
of its record disables the process (`SettingsIntentFails`).

A journal append is one step here and may fail before or after the record is
on disk; `AuditJournal` has the detail. That `AuditJournal` implements exactly
this abstract journal is argued by its properties (`GateRespected`,
`AcknowledgedIsDurable`, `UnsettledVisible`) and is not a refinement that is
checked.

`GovernedWrites` is the promise: a write holds its connection from its intent
to a definite outcome, has effects only in between, and an unknown outcome
holds the connection for good. `KeepsPromise` says that `PolicyGuard`
implements it under the mapping at the end of that module. Effects of
unaudited writes, which a policy may allow a local person, are outside the
mapping.

### Rules

Every rule of `evaluate_with_effects`, the categorical stage that runs before
rows are counted, and the eligible stage after it. A behaviour is one request
decided in those stages. Facts about a statement are enumerated, not parsed.

### OperationControl

One statement under `run_server_cancellable` (`cancellable`, chosen at the start)
or `run_controlled`. Caller, deadline, server, network and cancellation
request are separate actors; a timeout is an action that may happen at any
time.

### PolicySession

One session over its driver and server. `batch` (the session's `OpenBatch`),
`cursor` and `retired` are what the session believes; `tx` and `fate` are what
is the case at the server; `conn` and `dcursor` belong to the driver. A call is
a start (`Begin`, `StartStatement`, `StartFinish`, `OpenCursor`, `FetchPage`,
`Close`), the count and decision, the intent, `DriverReturns` with any answer,
and an end that notes it and records it. Calls are serial, as `&mut self` makes
them; `DropCall` ends one at any await. `OthersBar` is what other calls of the
connection do to the lock flags.

`EndTold` leaves PostgreSQL out. There a failed statement aborts the
transaction, and the session infers that from the answers it noted. A failed
count (`session.rs:654`) or completion lookup is not noted, and a statement that
was refused before it was sent (`session.rs:696`) is noted like one the server
refused; the recorded end can then differ from the real one either way.

The server may begin or end a transaction by itself (`Strays`): MySQL commits on
DDL, `SAVEPOINT` begins a transaction on SQLite, `SET autocommit` or `SET
IMPLICIT_TRANSACTIONS` changes what later calls do, a deadlock victim is rolled
back, and SQLite keeps a transaction whose COMMIT it refused. The session
dispatches such statements and does not look at the server's state afterwards.
`strayed` marks that this has happened. `TransactionTracked` and `EndTold` are
about sessions where it has not; `ClosedAccounted` holds regardless, because it
rests on what the session sent. `TransactionMatches` states the unconditional
claim of the change log, which fails (below). A read-only batch takes no
statement that strays: an effect that is not known counts as a write there.

A snapshot that loses its connection during a read disables writes although
nothing can have been written (`guard.rs:885`); this is modelled as it is, and no
property forbids it.

### BulkImport

`pc` follows `ImportRun` from the optional `CREATE TABLE` over approval, intent
and batches to the terminal record and the report. `scope` is
`BulkInsertScope`, `committed` its count, `offered` the rows taken from the
plan, `entry` the import's record, `stored` the rows that are really in the
table. A batch commits, fails, applies partly (MySQL tables without
transactions), or has an unknown outcome; sequence repair after it may fail.
`DropRun` drops the task with its window, and with it the scope.

A dropped scope that is open disables writes whether or not a batch ran, and
one closed by a failed batch does not when dropped; both are modelled as the
code has them (`bulk.rs:214`, `bulk.rs:245`).

### AgentSessions

One saved connection of the daemon, any number of tool calls. A row is a value of
the fields that `SessionKey::from_saved` takes (`transport`) and one of the
others (`rest`); an edit may set either, to an earlier value too. The secrets are
known by their revision. `opened` is the row each connection was opened with;
`cache` and `key` are the cached session and its `SessionKey`,
`holder` the per-row lock, `retired` the sessions' flags. A call goes through
`Begin`, `Lock`, `Digest`, a ping that reuses or removes, or `Establish` and
`Cache`, then `Guarded` and `Serve`. `EditRow`, `Rotate`, `Fault` and `Dropped`
may happen at any time.

The key leaves out `read_only`, `auth_source`, `attached_databases` and
`connect_timeout_secs`, with which `connect_options_for` opens the connection. So
`HandleHasItsTransport` speaks of the transport fields only: a session opened
before an edit of the others is reused after it.

`docs/connections.md:35` says that rotating a secret opens a new session. What is
proved is narrower: a call reuses a session only under a digest taken no
earlier than the call. Secrets replaced after `connect_session` used them and
before the second digest leave the session cached under the new digest.

### TokenStore

The token file as a function from ids to `none`, `live` or `revoked`; `synced`
is what a host crash may leave; `stamp` is what `token_file_stamp` sees and may
come back. Writers in any process issue and revoke in four steps (start, lock
and read, rename, sync). Requests run `McpBridge::authenticate`: the refresh of
the cache without the lock, the look at the cache, the limiter, and the lookup
in the file under the lock. `dead`, `candidates` and `charged` mark requests.

Not claimed: that a valid token is never charged. Two concurrent requests can
put an older reading into the cache after a newer one.

### ResultSpool

One spool; `others` is what the other spools have of the budget and changes
freely within the limit. `data`, `size` and `pos` are the file and its cursor,
`pages` the index, `held` and `took` the quota of the spool and of the running
append. Every step of an append may fail; `Truncated`, `TruncateFails` and
`Refund` are `rollback_page`. The unit is one frame.

## Runs

| run | what it shows | distinct states |
|---|---|---|
| `journal_shared` | two processes, a write and a commit under the nil connection id that is in everyone's scope: chain, cursors, gate, recovery, durability, and what callers are told | 53,923 |
| `journal_pages` | two processes, a rollback and a paged read: nothing unsettled disappears, and a live read stays pending through its pages | 371,469 |
| `journal_openers` | *violation*: an opener that outlives the owner it found does not recover that owner's intents | |
| `guard_writes` | writes of a person and of one who may run unaudited, on a generation and its replacement, and a statement without effects that an agent executes | 1,405,770 |
| `guard_ends` | a commit, a rollback, and an agent's read | 572,160 |
| `guard_scopes` | a restore, an export of the saved connections under the nil id, and a write of the daemon: overlapping scopes, GUIs that start while a write is in flight or without a journal, and a cause for every lock | 155,063 |
| `guard_refusals` | *violation*: a lockdown refusal that leaves no record | |
| `rules_decisions` | all combinations of caller, facts and knobs | 24,272 |
| `operation_control` | truth of the report, and return of an interrupted call, with and without server-side cancellation | 490 |
| `guarded_session` | sessions of agents, people and people who may write unaudited, on PostgreSQL and elsewhere: until the server's transaction strays, what the session believes of it is so and a recorded end is the real one; a close always accounts for open writes | 1,766,265 |
| `session_server` | *violation*: the tracked transaction and the server's part when the server ends or begins one by itself | |
| `import_batches` | an import of five rows in batches of two, ending everywhere it can: its record names the rows in the table, and rows without a record bar writes | 3,272 |

Three runs show where the code departs from what the documentation says.

- `journal_openers`: `docs/storage.md:100` says the next opener recovers after
  all owners exit. `initialize` decides before it holds the lease. If the owner
  dies in between, the opener is the only owner, recovers nothing, and the
  pending intents block writes until a later start. It errs on the safe side:
  `UnsettledVisible` holds.
- `guard_refusals`: `CHANGELOG.md:477` says lockdown refusals are recorded. The
  check inside `commit`, and that of `execute_write` after an approval, return
  without a record.
- `session_server`: `CHANGELOG.md:480` says that the tracked transaction always
  matches the server's, and `docs/manual-verification-editor.md:31` that a MySQL
  Session transaction refuses DDL and `SET autocommit`. The rule that refuses them
  (`interactive_transaction_decision`) is asked for `PolicyTransaction` only;
  `PolicySession::statement` dispatches them.

One more departure is modelled as the code has it and stated as a cause in
`LockedForCause`. `CHANGELOG.md:274` says that a write refused because another is
in flight no longer disables later writes. That holds for writes on connections
(`IntentRefused`); a process-wide operation refused for the same reason disables
the writes of its GUI (`database_service.rs:310`).

### Bounds

Operations run once each, so every state space is finite without a counter
bound. All operations of a guard run share one saved connection or the nil id,
where each is in each other's way; two connections would only add independent
behaviour, since no guard of one reads the state of another except through
`disabled`, which two GUI generations already share. Three generations give a
replacement after a reconnect and a second process, or the process-wide scope
beside a connection in each process. A backup is in no instance: it takes the
path of a restore without the late dispatch flag, and the proofs cover it. In the journal runs two
processes give every pair of opener, owner and crashed owner; processes are
interchangeable, which is the symmetry used there. Row counts 0 to 3 with limit
2 lie below, at and above the limit; a count that fails is a value of its own.

`PolicySession` has no constants and finitely many states, so its run covers
every session, however long. Five rows in batches of two give full batches, a
short last one, and an end before, between and after them; the proofs cover
every other size.

`MCRules.cfg` and the runs of `OperationControl`, `PolicySession` and
`BulkImport` do not check for deadlock: a decided request, a returned call, a
closed session and a finished import stop.

### Fairness

Only `OperationControl` has a liveness property, `InterruptedReturns`, under
weak fairness of the steps of the call, timeouts included. The runtime polls a
future whose waker fired and its timers fire. Caller, server, network and
cancellation request get no fairness, so the property holds if none of them
ever answers. The other specifications are safety only: nothing in the guard,
a session, an import or the journal bounds how long a person, a server or a
file lock takes.

## Proofs

TLAPS checks the following for all constants that satisfy the named
assumptions of the modules. The runs show the same properties on instances.

**AuditJournalProofs.** Assumptions: each operation has a class and a
connection. The inductive invariant `JournalInv` is its type invariant, `ChainIntact`,
`CursorFaithful` and `GateRespected`. None is inductive alone: an append extends
the chain from what a *cursor* remembers, so the chain and the gate need the
cursor to equal a scan of its prefix, and that a scan can be split at a cursor
is the lemma they rest on. `OneWriteInFlight` follows from the gate.
Durability rests on a fact about steps, `SyncedKept`: the synced prefix never
shrinks or changes, and a durable event is acknowledged with its sync.
`UnsettledVisible` follows from durability, `JournalInv` and `PagesAreReads`:
only a read has outcome records that settle nothing. `LiveNotRecovered` is about
who lives while another recovers. `LeaseInv` says that a process that recovers
holds the active lock alone (`Leases`), that every operation under way belongs
to a process that is up (`Owners`), that a queued append carries its caller's
operation (`Handed`), and that a record names an operation that was begun and,
if it says recovered, one no longer under way (`AllRecorded`).
`AnswerMatchesFile` adds to the leases what a queued append carries while its
caller waits (`Carried`: an intent without any record yet, or a page of an
operation still open on file) and that an operation whose caller left is lost
for good (`Detached`), so late records and recovery concern nobody who waits.

**PolicyGuardProofs.** Assumption `GuardAssumption`: the types of the constants.
`GuardInv` joins the safety properties with what is on record, owed and
exposed at each stage of a call (`StageInv`, `CallInv`), that flags belong to open
generations (`LifeInv`), and `OneHolder`: one gated write per connection is
pending or unknown. `OneOpenWrite` is weaker than `OneHolder` and not inductive:
an exposed write must be known to hold the gate before a second is admitted.
From `GuardInv` follow the invariants, the action property `LockdownHolds`, and
the refinement `KeepsPromise`, with one lemma per action. `LockedForCause` rests
on what a start may put into a process's snapshot (`KnownInv`), on causes that
stay once given (`Grows`, `ListStays`), and on a case for each step that sets a
flag (`DisabledCause`).

**RulesProofs.** `Outcome` describes the decision without the sets the code
joins; `EvaluateIsOutcome` shows the two equal, and the rest argues about
`Outcome`. `StageInv` says what each stage has already ruled out.

**OperationControlProofs.** `CallInv` adds to the report that a reply other than
an error is the server's own, that a statement is at the server once
dispatched, and that a call waiting for its cancellation knows why.

**BulkImportProofs.** Assumption: at least one row and one row per batch.
`RecordCountsRows` and `OpenRowsBlock` are about the end of an import; the
invariant adds the count kept on the way (`Counted`: between batches rows
stored, counted and taken up are one number), what record and report were made
from (`Told`), and that an audited import has its intent pending from the first
batch on (`Barred`). `ImportReport` proves of the user's report what
`RecordCountsRows` says of the record.

**PolicySessionProofs.** No assumption. The run of `PolicySession` is already
exhaustive; the proof adds the reason. `TransactionTracked` speaks of a session
between calls and is not inductive. `Tracked` compares batch and transaction at
every step until one strays, and `EndSeen` says how they may differ while the answer to COMMIT or
ROLLBACK is being recorded. `Dispatched` bounds what may be under way (only a
batch is ended, none is begun in another), `ClosingRollsBack` what a close may
run, and `NoAbort` leaves aborted transactions to PostgreSQL. `ClosedAccounted`
is the end of `Owed`: a write without a recorded end is one the open batch knows
of, or writes are barred; it holds with a straying server too. Three theorems go
beyond the run's properties: `SessionOwes` states `Owed`; `SessionRollback` is
what is left of `EndTold` on PostgreSQL, that an answered ROLLBACK did roll back,
again until a transaction strays; and the action property `SessionGivesUpForGood`
says that no step makes a retired or disconnected session usable or unlocks its
generation.

`AgentSessions`, `TokenStore` and `ResultSpool` are proved and have no run in this
project. Their bounds are guards only, so nothing is assumed of them. Their
invariants were model-checked on small instances before they were proved
(2,262,648, 117,706 and 90,433 states); the configurations are not kept here.

**AgentDaemonProofs** on `AgentSessions`, assuming that nobody is no caller. A
connection not yet cached is known to its opener alone (`Fresh`), so the flags a
handle shares are its own connection's or nobody's (`Shared`), and a cached
connection's key has the transport fields it was opened with (`Placed`). Without
`Fresh` a fault could be missed by the session that is cached next.

**AgentDaemonProofs** on `TokenStore`, assuming that nobody is no writer. Under the
lock a writer's copy is the file until its rename (`Steady`), and a generated id
is its issuer's alone (`OwnIds`). `TokenAcknowledged` follows by the two, and
`TokenRevokedStaysOut` from it, since the last lookup is in the file: nothing
depends on what the cache or a stamp holds.

**ResultSpoolProofs**, assuming that the limit is a natural number. While a page
is written the file's end, cursor, quota and nonces move together (`Writing`),
and stored pages lie below its start (`Stored`), so that neither writing nor
rolling back touches them.

Only model-checked: `InterruptedReturns` (liveness is out of the prover's reach)
and the three violations. Every other property of a run is stated by a theorem.

## Not modelled

- **Rate limiter, connection monitor, request ordering, workspace files,
  connection bundles and the rest of the MCP server.** Each has state of its
  own and could be modelled in the same way. They are left out for the
  project's size: it stays with the governed path and with the state that
  decides what a caller may do or is told.
- **Classification, masking, SQL text, import parsing and export.** String
  processing without shared state; `Rules` enumerates what classification can
  say.
- **Drivers, SSH, transport, dump tools.** Wire protocols and child processes.
  The modules leave every answer open that they can give.
- **GTK views.** Most of the source by lines. Their order of events enters as
  interleavings.

The map therefore covers a few per cent of the source: the lines of the modelled
parts, not the breadth of the application.
