----------------------------- MODULE ResultSpool -----------------------------
(***************************************************************************)
(* One spool of crates/app-services/src/stream_result_spool.rs: encrypted  *)
(* temporary storage of a streamed result.  All spools share a byte        *)
(* budget, an atomic counter every chunk reserves from in a                *)
(* compare-and-swap loop; the other spools are the environment.  A page is *)
(* appended chunk by chunk under the spool's mutex.  A chunk may exceed    *)
(* the budget or fail to be sealed or written; the page is then rolled     *)
(* back, and the truncation may fail too.  A spool returns what it holds   *)
(* when its last owner, a running append included, is gone.                *)
(* The unit of the budget and of the file is one frame.                    *)
(***************************************************************************)
EXTENDS Naturals, Sequences

CONSTANTS
    Limit,      \* SpoolBudget::limit
    MaxPages,   \* MAX_STREAM_RESULT_SPOOL_PAGES
    MaxChunks,  \* bound: chunks of one page
    MaxAppends  \* bound: appends that get to write

VARIABLES
    reserved,   \* SpoolBudget::reserved
    others,     \* what the other spools have reserved of it
    held,       \* SpoolInner::reserved
    owner,      \* "owned", "orphan" (only a running append keeps it) or "gone"
    data,       \* the file: a frame at each place
    size,       \* its length
    pos,        \* its cursor
    pages,      \* SpoolFile::pages, with the append that stored each
    nonce,      \* SpoolFile::next_nonce
    sealed,     \* nonces used, in order
    pc,         \* where the append is that holds the mutex, or "idle"
    attempt,    \* appends that got to write so far
    offset,     \* where its page starts
    chunks,     \* chunks it has written
    took,       \* what it has reserved
    seen        \* what it last read of the budget

budgetVars == <<reserved, others, held>>
fileVars == <<data, size, pos>>
indexVars == <<pages, nonce, sealed>>
appendVars == <<attempt, offset, chunks, took>>
vars == <<budgetVars, owner, fileVars, indexVars, pc, appendVars, seen>>

Frames == [page : Nat, seq : Nat, attempt : Nat, chunk : Nat]
\* write_frame's header and payload; a torn frame has chunk 0.
Frame(p, n, a, k) == [page |-> p, seq |-> n, attempt |-> a, chunk |-> k]
Torn == Frame(0, 0, 0, 0)
Locations == [offset : Nat, chunks : Nat, first : Nat, attempt : Nat]

TypeOK ==
    /\ reserved \in Nat /\ others \in Nat /\ held \in Nat
    /\ owner \in {"owned", "orphan", "gone"}
    /\ data \in [0 .. Limit -> Frames] /\ size \in Nat /\ pos \in Nat
    /\ pages \in Seq(Locations) /\ nonce \in Nat /\ sealed \in Seq(Nat)
    /\ pc \in {"idle", "seal", "reserve", "write", "truncate", "refund"}
    /\ attempt \in Nat /\ offset \in Nat /\ chunks \in Nat /\ took \in Nat /\ seen \in Nat

\* StreamResultSpoolManager::create.
Init ==
    /\ others \in 0 .. Limit /\ reserved = others /\ held = 0 /\ owner = "owned"
    /\ data = [n \in 0 .. Limit |-> Torn] /\ size = 0 /\ pos = 0
    /\ pages = <<>> /\ nonce = 0 /\ sealed = <<>>
    /\ pc = "idle" /\ attempt = 0 /\ offset = 0 /\ chunks = 0 /\ took = 0 /\ seen = 0

\* Other spools reserve within the limit and return what they hold.
OthersMove ==
    /\ \E n \in 0 .. Limit :
          /\ reserved - others + n <= Limit
          /\ others' = n /\ reserved' = reserved - others + n
    /\ UNCHANGED <<held, owner, fileVars, indexVars, pc, appendVars, seen>>

-----------------------------------------------------------------------------
\* The append ends with budget r and quota h for the spool.  The last owner may be
\* gone: then SpoolInner::drop returns the quota, and the file goes.
EndAppend(r, h) ==
    /\ pc' = "idle" /\ chunks' = 0 /\ took' = 0
    /\ reserved' = IF owner = "orphan" THEN r - h ELSE r
    /\ held' = IF owner = "orphan" THEN 0 ELSE h
    /\ owner' = IF owner = "orphan" THEN "gone" ELSE owner

\* The last owner lets go; a running append keeps the spool until it ends.
DropSpool ==
    /\ owner = "owned"
    /\ owner' = IF pc = "idle" THEN "gone" ELSE "orphan"
    /\ reserved' = IF pc = "idle" THEN reserved - held ELSE reserved
    /\ held' = IF pc = "idle" THEN 0 ELSE held
    /\ UNCHANGED <<others, fileVars, indexVars, pc, appendVars, seen>>

\* append_page_blocking takes the mutex.  A page past the limit or out of order
\* is refused, so the next page is the only one that gets to write; it starts at
\* the end of the file, wherever a load left the cursor and whatever a failed
\* truncation left there.
AppendPage ==
    /\ owner = "owned" /\ pc = "idle" /\ Len(pages) < MaxPages /\ attempt < MaxAppends
    /\ pc' = "seal" /\ attempt' = attempt + 1
    /\ offset' = size /\ pos' = size
    /\ UNCHANGED <<budgetVars, owner, data, size, indexVars, chunks, took, seen>>

\* write_payload_chunk seals the next chunk under the next nonce, which is spent
\* whatever becomes of the chunk, and reserve reads the budget.
Seal ==
    /\ pc = "seal" /\ chunks < MaxChunks
    /\ sealed' = Append(sealed, nonce) /\ nonce' = nonce + 1
    /\ seen' = reserved
    /\ pc' = "reserve"
    /\ UNCHANGED <<budgetVars, owner, fileVars, pages, appendVars>>

\* One round of the loop of reserve.
Reserve ==
    /\ pc = "reserve" /\ seen + 1 <= Limit
    /\ IF reserved = seen
       THEN reserved' = reserved + 1 /\ took' = took + 1 /\ pc' = "write" /\ seen' = seen
       ELSE seen' = reserved /\ UNCHANGED <<reserved, took, pc>>
    /\ UNCHANGED <<others, held, owner, fileVars, indexVars, attempt, offset, chunks>>

\* write_frame.
WriteFrame ==
    /\ pc = "write"
    /\ data' = [data EXCEPT ![pos] = Frame(Len(pages), nonce - 1, attempt, chunks + 1)]
    /\ pos' = pos + 1 /\ size' = IF pos < size THEN size ELSE pos + 1
    /\ chunks' = chunks + 1
    /\ pc' = "seal"
    /\ UNCHANGED <<budgetVars, owner, indexVars, attempt, offset, took, seen>>

\* A part of the frame is written.
WriteFails ==
    /\ pc = "write"
    /\ data' = [data EXCEPT ![pos] = Torn]
    /\ pos' = pos + 1 /\ size' = IF pos < size THEN size ELSE pos + 1
    /\ pc' = "truncate"
    /\ UNCHANGED <<budgetVars, owner, indexVars, appendVars, seen>>

\* Serializing, sealing, writing or flushing fails before a byte is written, the
\* quota is exceeded, or the page has no chunks.
Breaks ==
    /\ pc \in {"seal", "reserve", "write"}
    /\ pc' = "truncate"
    /\ UNCHANGED <<budgetVars, owner, fileVars, indexVars, appendVars, seen>>

\* The end of append_serialized_page: the quota of the page passes to the spool
\* and its location is kept.
PushPage ==
    /\ pc = "seal" /\ chunks > 0
    /\ pages' = Append(pages, [offset |-> offset, chunks |-> chunks, first |-> nonce - chunks,
                               attempt |-> attempt])
    /\ EndAppend(reserved, held + took)
    /\ UNCHANGED <<others, fileVars, nonce, sealed, attempt, offset, seen>>

-----------------------------------------------------------------------------
(* rollback_page.                                                          *)

Truncated ==
    /\ pc = "truncate"
    /\ size' = offset
    /\ pc' = "refund"
    /\ UNCHANGED <<budgetVars, owner, data, pos, indexVars, appendVars, seen>>

\* What could not be cut off stays on the spool's account.
TruncateFails ==
    /\ pc = "truncate"
    /\ EndAppend(reserved, held + took)
    /\ UNCHANGED <<others, fileVars, indexVars, attempt, offset, seen>>

\* The quota goes back to the budget; the seek after it may fail.
Refund ==
    /\ pc = "refund"
    /\ pos' \in {offset, pos}
    /\ EndAppend(reserved - took, held)
    /\ UNCHANGED <<others, data, size, indexVars, attempt, offset, seen>>

-----------------------------------------------------------------------------
(* load_page_blocking.                                                     *)

\* read_frame and the check of its sequence: what is read at a place, if the file
\* has a frame of that page and sequence there.
ReadFrame(at, page, seq) ==
    IF at < size /\ data[at].page = page /\ data[at].seq = seq /\ data[at].chunk # 0
    THEN <<data[at].attempt, data[at].chunk>> ELSE <<0, 0>>

\* read_page_payload: the k-th chunk of a page.
ReadChunk(i, k) == ReadFrame(pages[i].offset + k - 1, i - 1, pages[i].first + k - 1)

\* A load leaves the cursor wherever it stopped reading.
LoadPage ==
    /\ owner = "owned" /\ pc = "idle"
    /\ \E i \in 1 .. Len(pages) : pos' \in pages[i].offset .. pages[i].offset + pages[i].chunks
    /\ UNCHANGED <<budgetVars, owner, data, size, indexVars, pc, appendVars, seen>>

Next ==
    \/ OthersMove \/ DropSpool \/ AppendPage \/ Seal \/ Reserve \/ WriteFrame \/ WriteFails \/ Breaks
    \/ PushPage \/ Truncated \/ TruncateFails \/ Refund \/ LoadPage

Spec == Init /\ [][Next]_vars

-----------------------------------------------------------------------------
(* Properties.                                                             *)

\* The budget counts exactly what the spools hold and what pages being written
\* have taken, and never exceeds its limit; a spool that is gone left nothing
\* behind (reserve, rollback_page, SpoolInner::drop).
QuotaExact ==
    /\ reserved = others + held + took /\ reserved <= Limit
    /\ owner = "gone" => held + took = 0

\* What is on disk is covered by quota: a truncation that fails leaves frames
\* behind, and their quota with them (rollback_page).
DiskCovered == owner # "gone" => size <= held + took

\* Every page whose append succeeded reads back as the chunks of that very append,
\* whatever loads, failed appends and failed truncations lie between, also while
\* the next page is being written or rolled back (append_serialized_page,
\* read_page_payload).
PagesReadable ==
    \A i \in 1 .. Len(pages) : \A k \in 1 .. pages[i].chunks :
        ReadChunk(i, k) = <<pages[i].attempt, k>>

\* No two chunks are sealed under the same nonce of the spool's key, those of
\* pages rolled back included (write_payload_chunk).
NonceOnce ==
    \A m, n \in 1 .. Len(sealed) : sealed[m] = sealed[n] => m = n
=============================================================================
