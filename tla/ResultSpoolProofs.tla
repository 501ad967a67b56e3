-------------------------- MODULE ResultSpoolProofs --------------------------
(***************************************************************************)
(* Proofs about ResultSpool, for every limit and any number of appends,    *)
(* pages, chunks and other spools.                                         *)
(*                                                                         *)
(* While a page is written the end of the file, the cursor, the quota and  *)
(* the nonces move together (Writing).  Stored pages lie below the start   *)
(* of the page being written (Stored), so neither writing it nor rolling   *)
(* it back touches them.                                                   *)
(***************************************************************************)
EXTENDS ResultSpool, SequenceTheorems, TLAPS

\* Quota: the append has some only while it runs, and the file is covered.
Quota ==
    /\ reserved = others + held + took /\ reserved <= Limit
    /\ owner = "gone" => held = 0 /\ pc = "idle"
    /\ owner = "orphan" => pc # "idle"
    /\ pc = "idle" => took = 0 /\ chunks = 0
    /\ owner # "gone" => size <= held + took
    /\ pc # "idle" => offset <= held /\ offset <= size
    /\ pc = "refund" => size = offset

\* File, cursor and quota of the page being written.
Writing ==
    /\ pc \in {"seal", "reserve", "write"} => pos = offset + chunks /\ size = offset + chunks
    /\ pc \in {"seal", "reserve"} => took = chunks
    /\ pc = "write" => took = chunks + 1

\* The first nonce of the page being written.
First == IF pc = "seal" THEN nonce - chunks ELSE nonce - 1 - chunks
\* Its chunks are in place.
Current ==
    pc \in {"seal", "reserve", "write"} =>
        /\ First \in Nat
        /\ \A k \in 1 .. chunks : data[offset + k - 1] = Frame(Len(pages), First + k - 1, attempt, k)

\* The end of the stored pages.
Base == IF pc = "idle" THEN size ELSE offset

Stored ==
    \A i \in 1 .. Len(pages) :
        /\ pages[i].offset + pages[i].chunks <= Base
        /\ \A k \in 1 .. pages[i].chunks :
              data[pages[i].offset + k - 1] = Frame(i - 1, pages[i].first + k - 1, pages[i].attempt, k)

Nonces == Len(sealed) = nonce /\ \A n \in 1 .. Len(sealed) : sealed[n] = n - 1

IInv == TypeOK /\ Quota /\ Writing /\ Current /\ Stored /\ Nonces
-----------------------------------------------------------------------------
LEMMA FrameType ==
    ASSUME NEW p \in Nat, NEW n \in Nat, NEW a \in Nat, NEW k \in Nat
    PROVE  /\ Frame(p, n, a, k) \in Frames
           /\ Frame(p, n, a, k).page = p /\ Frame(p, n, a, k).seq = n
           /\ Frame(p, n, a, k).attempt = a /\ Frame(p, n, a, k).chunk = k
  BY DEF Frame, Frames

LEMMA PageType ==
    ASSUME TypeOK, NEW i \in 1 .. Len(pages)
    PROVE  /\ pages[i].offset \in Nat /\ pages[i].chunks \in Nat
           /\ pages[i].first \in Nat /\ pages[i].attempt \in Nat
<1>1. pages[i] \in Locations
  BY DEF TypeOK
<1> QED
  BY <1>1 DEF Locations

LEMMA InitIInv ==
    ASSUME Limit \in Nat, Init
    PROVE  IInv
<1>1. TypeOK
  <2>1. Torn \in Frames
    BY FrameType DEF Torn
  <2> QED
    BY <2>1 DEF Init, TypeOK
<1>2. Quota /\ Writing /\ Current /\ Nonces
  BY DEF Init, Quota, Writing, Current, Nonces
<1>3. Stored
  BY DEF Init, Stored
<1> QED
  BY <1>1, <1>2, <1>3 DEF IInv

\* Other spools leave this one alone.
LEMMA OthersMoveIInv ==
    ASSUME Limit \in Nat, IInv, OthersMove
    PROVE  IInv'
<1> USE DEF budgetVars, fileVars, indexVars, appendVars
<1>1. TypeOK /\ Quota /\ Writing /\ Current /\ Stored /\ Nonces
  BY DEF IInv
<1>2. TypeOK'
  BY <1>1 DEF OthersMove, TypeOK, Quota, Locations
<1>3. Quota'
  BY <1>1 DEF OthersMove, TypeOK, Quota, Writing
<1>4. Writing'
  BY <1>1 DEF OthersMove, TypeOK, Quota, Writing
<1>5. Current'
  BY <1>1 DEF OthersMove, TypeOK, Quota, Current, First
<1>6. Stored'
  BY <1>1 DEF OthersMove, TypeOK, Quota, Writing, Stored, Base, Locations
<1>7. Nonces'
  BY <1>1 DEF OthersMove, TypeOK, Nonces
<1> QED
  BY <1>2, <1>3, <1>4, <1>5, <1>6, <1>7 DEF IInv

\* The last owner lets go.
LEMMA DropSpoolIInv ==
    ASSUME Limit \in Nat, IInv, DropSpool
    PROVE  IInv'
<1> USE DEF budgetVars, fileVars, indexVars, appendVars
<1>1. TypeOK /\ Quota /\ Writing /\ Current /\ Stored /\ Nonces
  BY DEF IInv
<1>2. TypeOK'
  BY <1>1 DEF DropSpool, TypeOK, Quota, Locations
<1>3. Quota'
  BY <1>1 DEF DropSpool, TypeOK, Quota, Writing
<1>4. Writing'
  BY <1>1 DEF DropSpool, TypeOK, Quota, Writing
<1>5. Current'
  BY <1>1 DEF DropSpool, TypeOK, Quota, Current, First
<1>6. Stored'
  BY <1>1 DEF DropSpool, TypeOK, Quota, Writing, Stored, Base, Locations
<1>7. Nonces'
  BY <1>1 DEF DropSpool, TypeOK, Nonces
<1> QED
  BY <1>2, <1>3, <1>4, <1>5, <1>6, <1>7 DEF IInv

\* A page starts past all stored ones.
LEMMA AppendPageIInv ==
    ASSUME Limit \in Nat, IInv, AppendPage
    PROVE  IInv'
<1> USE DEF budgetVars, fileVars, indexVars, appendVars
<1>1. TypeOK /\ Quota /\ Writing /\ Current /\ Stored /\ Nonces
  BY DEF IInv
<1>2. TypeOK'
  BY <1>1 DEF AppendPage, TypeOK, Quota, Locations
<1>3. Quota'
  BY <1>1 DEF AppendPage, TypeOK, Quota, Writing
<1>4. Writing'
  BY <1>1 DEF AppendPage, TypeOK, Quota, Writing
<1>5. Current'
  BY <1>1 DEF AppendPage, TypeOK, Quota, Current, First
<1>6. Stored'
  BY <1>1 DEF AppendPage, TypeOK, Quota, Writing, Stored, Base, Locations
<1>7. Nonces'
  BY <1>1 DEF AppendPage, TypeOK, Nonces
<1> QED
  BY <1>2, <1>3, <1>4, <1>5, <1>6, <1>7 DEF IInv

\* A nonce is spent.
LEMMA SealIInv ==
    ASSUME Limit \in Nat, IInv, Seal
    PROVE  IInv'
<1> USE DEF budgetVars, fileVars, indexVars, appendVars
<1>1. TypeOK /\ Quota /\ Writing /\ Current /\ Stored /\ Nonces
  BY DEF IInv
<1>2. TypeOK'
  BY <1>1 DEF Seal, TypeOK, Quota, Locations
<1>3. Quota'
  BY <1>1 DEF Seal, TypeOK, Quota, Writing
<1>4. Writing'
  BY <1>1 DEF Seal, TypeOK, Quota, Writing
<1>5. Current'
  BY <1>1 DEF Seal, TypeOK, Quota, Current, First
<1>6. Stored'
  BY <1>1 DEF Seal, TypeOK, Quota, Writing, Stored, Base, Locations
<1>7. Nonces'
  BY <1>1 DEF Seal, TypeOK, Nonces
<1> QED
  BY <1>2, <1>3, <1>4, <1>5, <1>6, <1>7 DEF IInv

\* A frame is reserved, or the budget read again.
LEMMA ReserveIInv ==
    ASSUME Limit \in Nat, IInv, Reserve
    PROVE  IInv'
<1> USE DEF budgetVars, fileVars, indexVars, appendVars
<1>1. TypeOK /\ Quota /\ Writing /\ Current /\ Stored /\ Nonces
  BY DEF IInv
<1>2. TypeOK'
  BY <1>1 DEF Reserve, TypeOK, Quota, Locations
<1>3. Quota'
  BY <1>1 DEF Reserve, TypeOK, Quota, Writing
<1>4. Writing'
  BY <1>1 DEF Reserve, TypeOK, Quota, Writing
<1>5. Current'
  BY <1>1 DEF Reserve, TypeOK, Quota, Current, First
<1>6. Stored'
  BY <1>1 DEF Reserve, TypeOK, Quota, Writing, Stored, Base, Locations
<1>7. Nonces'
  BY <1>1 DEF Reserve, TypeOK, Nonces
<1> QED
  BY <1>2, <1>3, <1>4, <1>5, <1>6, <1>7 DEF IInv

\* The page is given up.
LEMMA BreaksIInv ==
    ASSUME Limit \in Nat, IInv, Breaks
    PROVE  IInv'
<1> USE DEF budgetVars, fileVars, indexVars, appendVars
<1>1. TypeOK /\ Quota /\ Writing /\ Current /\ Stored /\ Nonces
  BY DEF IInv
<1>2. TypeOK'
  BY <1>1 DEF Breaks, TypeOK, Quota, Locations
<1>3. Quota'
  BY <1>1 DEF Breaks, TypeOK, Quota, Writing
<1>4. Writing'
  BY <1>1 DEF Breaks, TypeOK, Quota, Writing
<1>5. Current'
  BY <1>1 DEF Breaks, TypeOK, Quota, Current, First
<1>6. Stored'
  BY <1>1 DEF Breaks, TypeOK, Quota, Writing, Stored, Base, Locations
<1>7. Nonces'
  BY <1>1 DEF Breaks, TypeOK, Nonces
<1> QED
  BY <1>2, <1>3, <1>4, <1>5, <1>6, <1>7 DEF IInv

\* The file is cut back to the start of the page.
LEMMA TruncatedIInv ==
    ASSUME Limit \in Nat, IInv, Truncated
    PROVE  IInv'
<1> USE DEF budgetVars, fileVars, indexVars, appendVars
<1>1. TypeOK /\ Quota /\ Writing /\ Current /\ Stored /\ Nonces
  BY DEF IInv
<1>2. TypeOK'
  BY <1>1 DEF Truncated, TypeOK, Quota, Locations
<1>3. Quota'
  BY <1>1 DEF Truncated, TypeOK, Quota, Writing
<1>4. Writing'
  BY <1>1 DEF Truncated, TypeOK, Quota, Writing
<1>5. Current'
  BY <1>1 DEF Truncated, TypeOK, Quota, Current, First
<1>6. Stored'
  BY <1>1 DEF Truncated, TypeOK, Quota, Writing, Stored, Base, Locations
<1>7. Nonces'
  BY <1>1 DEF Truncated, TypeOK, Nonces
<1> QED
  BY <1>2, <1>3, <1>4, <1>5, <1>6, <1>7 DEF IInv

\* The spool keeps the quota of what it could not cut off.
LEMMA TruncateFailsIInv ==
    ASSUME Limit \in Nat, IInv, TruncateFails
    PROVE  IInv'
<1> USE DEF budgetVars, fileVars, indexVars, appendVars
<1>1. TypeOK /\ Quota /\ Writing /\ Current /\ Stored /\ Nonces
  BY DEF IInv
<1>2. TypeOK'
  BY <1>1 DEF TruncateFails, EndAppend, TypeOK, Quota, Locations
<1>3. Quota'
  BY <1>1 DEF TruncateFails, EndAppend, TypeOK, Quota, Writing
<1>4. Writing'
  BY <1>1 DEF TruncateFails, EndAppend, TypeOK, Quota, Writing
<1>5. Current'
  BY <1>1 DEF TruncateFails, EndAppend, TypeOK, Quota, Current, First
<1>6. Stored'
  <2>1. pc = "truncate" /\ pc' = "idle" /\ UNCHANGED <<data, size, pages>> /\ offset <= size
    BY <1>1 DEF TruncateFails, EndAppend, Quota
  <2>2. \A i \in 1 .. Len(pages) : pages[i].offset \in Nat /\ pages[i].chunks \in Nat
    BY <1>1, PageType
  <2> QED
    BY <1>1, <2>1, <2>2 DEF Stored, Base, TypeOK
<1>7. Nonces'
  BY <1>1 DEF TruncateFails, EndAppend, TypeOK, Nonces
<1> QED
  BY <1>2, <1>3, <1>4, <1>5, <1>6, <1>7 DEF IInv

\* The quota goes back.
LEMMA RefundIInv ==
    ASSUME Limit \in Nat, IInv, Refund
    PROVE  IInv'
<1> USE DEF budgetVars, fileVars, indexVars, appendVars
<1>1. TypeOK /\ Quota /\ Writing /\ Current /\ Stored /\ Nonces
  BY DEF IInv
<1>2. TypeOK'
  BY <1>1 DEF Refund, EndAppend, TypeOK, Quota, Locations
<1>3. Quota'
  BY <1>1 DEF Refund, EndAppend, TypeOK, Quota, Writing
<1>4. Writing'
  BY <1>1 DEF Refund, EndAppend, TypeOK, Quota, Writing
<1>5. Current'
  BY <1>1 DEF Refund, EndAppend, TypeOK, Quota, Current, First
<1>6. Stored'
  BY <1>1 DEF Refund, EndAppend, TypeOK, Quota, Writing, Stored, Base, Locations
<1>7. Nonces'
  BY <1>1 DEF Refund, EndAppend, TypeOK, Nonces
<1> QED
  BY <1>2, <1>3, <1>4, <1>5, <1>6, <1>7 DEF IInv

\* Only the cursor moves.
LEMMA LoadPageIInv ==
    ASSUME Limit \in Nat, IInv, LoadPage
    PROVE  IInv'
<1> USE DEF budgetVars, fileVars, indexVars, appendVars
<1>1. TypeOK /\ Quota /\ Writing /\ Current /\ Stored /\ Nonces
  BY DEF IInv
<1>2. TypeOK'
  <2>1. \A i \in 1 .. Len(pages) : pages[i].offset \in Nat /\ pages[i].chunks \in Nat
    BY <1>1, PageType
  <2>2. pos' \in Nat
    BY <2>1 DEF LoadPage
  <2> QED
    BY <1>1, <2>2 DEF LoadPage, TypeOK
<1>3. Quota'
  BY <1>1 DEF LoadPage, TypeOK, Quota, Writing
<1>4. Writing'
  BY <1>1 DEF LoadPage, TypeOK, Quota, Writing
<1>5. Current'
  BY <1>1 DEF LoadPage, TypeOK, Quota, Current, First
<1>6. Stored'
  BY <1>1 DEF LoadPage, TypeOK, Quota, Writing, Stored, Base, Locations
<1>7. Nonces'
  BY <1>1 DEF LoadPage, TypeOK, Nonces
<1> QED
  BY <1>2, <1>3, <1>4, <1>5, <1>6, <1>7 DEF IInv

\* A frame is written at the end of the file, past all stored pages.
LEMMA PutFrame ==
    ASSUME Limit \in Nat, IInv, pc = "write", NEW f \in Frames, UNCHANGED pages,
           data' = [data EXCEPT ![pos] = f], pc' # "idle", UNCHANGED offset
    PROVE  /\ data' \in [0 .. Limit -> Frames] /\ data'[pos] = f
           /\ \A n \in Nat : n < pos => data'[n] = data[n]
           /\ Stored'
<1>1. TypeOK /\ Quota /\ Writing /\ Stored
  BY DEF IInv
<1>2. pos = offset + chunks /\ pos \in 0 .. Limit /\ offset \in Nat /\ chunks \in Nat
  BY <1>1 DEF TypeOK, Quota, Writing
<1>3. data' \in [0 .. Limit -> Frames] /\ data'[pos] = f /\ \A n \in Nat : n < pos => data'[n] = data[n]
  BY <1>1, <1>2 DEF TypeOK
<1>4. ASSUME NEW i \in 1 .. Len(pages)
      PROVE  /\ pages[i].offset \in Nat /\ pages[i].chunks \in Nat
             /\ pages[i].offset + pages[i].chunks <= offset
             /\ \A k \in 1 .. pages[i].chunks :
                   /\ pages[i].offset + k - 1 \in Nat /\ pages[i].offset + k - 1 < pos
                   /\ data[pages[i].offset + k - 1] = Frame(i - 1, pages[i].first + k - 1, pages[i].attempt, k)
  <2>2. pages[i].offset \in Nat /\ pages[i].chunks \in Nat
    BY <1>1, PageType
  <2> QED
    BY <1>1, <1>2, <2>2 DEF Stored, Base
<1>5. Stored'
  BY <1>3, <1>4 DEF Stored, Base
<1> QED
  BY <1>3, <1>5

\* A chunk is in place.
LEMMA WriteFrameIInv ==
    ASSUME Limit \in Nat, IInv, WriteFrame
    PROVE  IInv'
<1> DEFINE f == Frame(Len(pages), nonce - 1, attempt, chunks + 1)
<1> USE DEF budgetVars, fileVars, indexVars, appendVars
<1>1. TypeOK /\ Quota /\ Writing /\ Current /\ Stored /\ Nonces
  BY DEF IInv
<1>2. /\ pc = "write" /\ pc' = "seal" /\ data' = [data EXCEPT ![pos] = f]
      /\ pos' = pos + 1 /\ size' = (IF pos < size THEN size ELSE pos + 1) /\ chunks' = chunks + 1
      /\ UNCHANGED <<reserved, others, held, owner, pages, nonce, sealed, attempt, offset, took, seen>>
  BY DEF WriteFrame
<1>3. /\ First = nonce - 1 - chunks /\ First \in Nat /\ nonce - 1 \in Nat
      /\ \A k \in 1 .. chunks : data[offset + k - 1] = Frame(Len(pages), First + k - 1, attempt, k)
      /\ nonce \in Nat /\ chunks \in Nat /\ offset \in Nat /\ pos \in Nat /\ size \in Nat
      /\ pos = offset + chunks /\ size = pos /\ took = chunks + 1
  BY <1>1, <1>2 DEF Current, First, TypeOK, Writing
<1>4. f \in Frames
  <2>1. Len(pages) \in Nat /\ attempt \in Nat /\ chunks + 1 \in Nat
    BY <1>1 DEF TypeOK
  <2> QED
    BY <1>3, <2>1, FrameType
<1> HIDE DEF f
<1>5. /\ data' \in [0 .. Limit -> Frames] /\ data'[pos] = f
      /\ \A n \in Nat : n < pos => data'[n] = data[n]
      /\ Stored'
  BY <1>2, <1>4, PutFrame
<1>6. TypeOK'
  BY <1>1, <1>2, <1>5 DEF TypeOK
<1>7. Quota' /\ Writing'
  BY <1>1, <1>2, <1>3 DEF TypeOK, Quota, Writing
<1>8. Current'
  <2>1. First' = First
    BY <1>2, <1>3 DEF First
  <2>2. ASSUME NEW k \in 1 .. chunks
        PROVE  data'[offset + k - 1] = Frame(Len(pages), First + k - 1, attempt, k)
    <3>1. offset + k - 1 \in Nat /\ offset + k - 1 < pos
      BY <1>3
    <3> QED
      BY <1>3, <1>5, <3>1
  <2>3. data'[offset + (chunks + 1) - 1] = Frame(Len(pages), First + (chunks + 1) - 1, attempt, chunks + 1)
    <3>1. offset + (chunks + 1) - 1 = pos /\ First + (chunks + 1) - 1 = nonce - 1
      BY <1>3
    <3> QED
      BY <1>5, <3>1 DEF f
  <2>4. \A k \in 1 .. chunks + 1 : k \in 1 .. chunks \/ k = chunks + 1
    BY <1>3
  <2>5. \A k \in 1 .. chunks + 1 : data'[offset + k - 1] = Frame(Len(pages), First + k - 1, attempt, k)
    BY <2>2, <2>3, <2>4
  <2> QED
    BY <1>2, <1>3, <2>1, <2>5 DEF Current
<1>9. Nonces'
  BY <1>1, <1>2 DEF Nonces
<1> QED
  BY <1>5, <1>6, <1>7, <1>8, <1>9 DEF IInv

\* A torn frame is on disk, within the quota of its page.
LEMMA WriteFailsIInv ==
    ASSUME Limit \in Nat, IInv, WriteFails
    PROVE  IInv'
<1> USE DEF budgetVars, fileVars, indexVars, appendVars
<1>1. TypeOK /\ Quota /\ Writing /\ Current /\ Stored /\ Nonces
  BY DEF IInv
<1>2. /\ pc = "write" /\ pc' = "truncate" /\ data' = [data EXCEPT ![pos] = Torn]
      /\ pos' = pos + 1 /\ size' = (IF pos < size THEN size ELSE pos + 1)
      /\ UNCHANGED <<reserved, others, held, owner, pages, nonce, sealed, attempt, offset, chunks, took, seen>>
  BY DEF WriteFails
<1>3. Torn \in Frames
  BY FrameType DEF Torn
<1>4. data' \in [0 .. Limit -> Frames] /\ Stored'
  BY <1>2, <1>3, PutFrame
<1>5. TypeOK'
  BY <1>1, <1>2, <1>4 DEF TypeOK
<1>6. Quota' /\ Writing'
  BY <1>1, <1>2 DEF TypeOK, Quota, Writing
<1>7. Current' /\ Nonces'
  BY <1>1, <1>2 DEF Current, Nonces
<1> QED
  BY <1>4, <1>5, <1>6, <1>7 DEF IInv

\* The page joins the stored ones.
LEMMA PushPageIInv ==
    ASSUME Limit \in Nat, IInv, PushPage
    PROVE  IInv'
<1> DEFINE l == [offset |-> offset, chunks |-> chunks, first |-> nonce - chunks, attempt |-> attempt]
<1> USE DEF budgetVars, fileVars, indexVars, appendVars
<1>1. TypeOK /\ Quota /\ Writing /\ Current /\ Stored /\ Nonces
  BY DEF IInv
<1>2. /\ pc = "seal" /\ pc' = "idle" /\ pages' = Append(pages, l)
      /\ EndAppend(reserved, held + took)
      /\ UNCHANGED <<others, data, size, pos, nonce, sealed, attempt, offset, seen>>
  BY DEF PushPage, EndAppend
<1>3. /\ First = nonce - chunks /\ First \in Nat
      /\ offset \in Nat /\ chunks \in Nat /\ attempt \in Nat
      /\ size = offset + chunks /\ took = chunks
      /\ \A k \in 1 .. chunks : data[offset + k - 1] = Frame(Len(pages), First + k - 1, attempt, k)
  BY <1>1, <1>2 DEF Current, First, TypeOK, Writing
<1>4. /\ l \in Locations /\ l.offset = offset /\ l.chunks = chunks
      /\ l.first = First /\ l.attempt = attempt
  BY <1>3 DEF Locations
<1> HIDE DEF l
<1>5. /\ pages' \in Seq(Locations) /\ Len(pages') = Len(pages) + 1 /\ Len(pages) \in Nat
      /\ pages'[Len(pages) + 1] = l
      /\ \A i \in 1 .. Len(pages) : pages'[i] = pages[i]
  BY <1>1, <1>2, <1>4 DEF TypeOK
<1>6. TypeOK'
  BY <1>1, <1>2, <1>5 DEF TypeOK, Quota, EndAppend
<1>7. Quota' /\ Writing' /\ Current'
  BY <1>1, <1>2 DEF TypeOK, Quota, Writing, Current, EndAppend
<1>8. Stored'
  <2>1. ASSUME NEW i \in 1 .. Len(pages)
        PROVE  /\ pages[i].offset + pages[i].chunks <= size
               /\ \A k \in 1 .. pages[i].chunks :
                     data[pages[i].offset + k - 1] = Frame(i - 1, pages[i].first + k - 1, pages[i].attempt, k)
    <3>2. pages[i].offset \in Nat /\ pages[i].chunks \in Nat
      BY <1>1, PageType
    <3> QED
      BY <1>1, <1>2, <1>3, <3>2 DEF Stored, Base
  <2>2. /\ l.offset + l.chunks <= size
        /\ \A k \in 1 .. l.chunks :
              data[l.offset + k - 1] = Frame((Len(pages) + 1) - 1, l.first + k - 1, l.attempt, k)
    <3>1. (Len(pages) + 1) - 1 = Len(pages)
      BY <1>5
    <3> QED
      BY <1>3, <1>4, <3>1
  <2>3. \A i \in 1 .. Len(pages) + 1 : i \in 1 .. Len(pages) \/ i = Len(pages) + 1
    BY <1>5
  <2> QED
    BY <1>2, <1>5, <2>1, <2>2, <2>3 DEF Stored, Base
<1>9. Nonces'
  BY <1>1, <1>2 DEF Nonces
<1> QED
  BY <1>6, <1>7, <1>8, <1>9 DEF IInv

LEMMA StepIInv ==
    ASSUME Limit \in Nat, IInv, [Next]_vars
    PROVE  IInv'
<1>1. CASE UNCHANGED vars
  <2>1. UNCHANGED <<reserved, others, held, owner, data, size, pos, pages, nonce, sealed, pc, attempt, offset, chunks, took, seen>>
    BY <1>1 DEF vars, budgetVars, fileVars, indexVars, appendVars
  <2> QED
    BY <2>1 DEF IInv, TypeOK, Quota, Writing, Current, First, Stored, Base, Nonces
<1> QED
  BY <1>1, OthersMoveIInv, DropSpoolIInv, AppendPageIInv, SealIInv, ReserveIInv, WriteFrameIInv,
     WriteFailsIInv, BreaksIInv, PushPageIInv, TruncatedIInv, TruncateFailsIInv, RefundIInv, LoadPageIInv
     DEF Next

-----------------------------------------------------------------------------
(* Theorems.                                                               *)

\* The inductive invariant of a spool.
THEOREM SpoolInvariant ==
    ASSUME Limit \in Nat
    PROVE  Spec => []IInv
<1>1. Init => IInv
  BY InitIInv
<1>2. IInv /\ [Next]_vars => IInv'
  BY StepIInv
<1> QED
  BY <1>1, <1>2, PTL DEF Spec

\* Quota is neither lost nor handed out twice, the limit holds, and what is on
\* disk is covered, through failed pages, failed truncations and drops.
THEOREM SpoolQuota ==
    ASSUME Limit \in Nat
    PROVE  Spec => [](QuotaExact /\ DiskCovered)
<1>1. IInv => QuotaExact /\ DiskCovered
  BY DEF IInv, Quota, QuotaExact, DiskCovered, TypeOK
<1> QED
  BY <1>1, SpoolInvariant, PTL

\* Every stored page reads back as the append that stored it.
THEOREM SpoolPages ==
    ASSUME Limit \in Nat
    PROVE  Spec => []PagesReadable
<1>1. ASSUME IInv PROVE PagesReadable
  <2>1. TypeOK /\ Quota /\ Stored
    BY <1>1 DEF IInv
  <2>2. Base <= size /\ Base \in Nat
    BY <2>1 DEF Base, Quota, TypeOK
  <2>3. ASSUME NEW i \in 1 .. Len(pages), NEW k \in 1 .. pages[i].chunks
        PROVE  ReadChunk(i, k) = <<pages[i].attempt, k>>
    <3>2. /\ pages[i].offset \in Nat /\ pages[i].chunks \in Nat /\ pages[i].first \in Nat
          /\ pages[i].attempt \in Nat
      BY <2>1, PageType
    <3>3. i - 1 \in Nat /\ pages[i].first + k - 1 \in Nat /\ k \in Nat /\ k # 0
      BY <2>1, <3>2 DEF TypeOK
    <3>1. size \in Nat /\ pages[i].offset + pages[i].chunks <= Base
      BY <2>1 DEF Stored, TypeOK
    <3>4. pages[i].offset + k - 1 < size
      BY <2>2, <3>1, <3>2
    <3>5. data[pages[i].offset + k - 1] = Frame(i - 1, pages[i].first + k - 1, pages[i].attempt, k)
      BY <2>1 DEF Stored
    <3> DEFINE f == Frame(i - 1, pages[i].first + k - 1, pages[i].attempt, k)
    <3>6. /\ f.page = i - 1 /\ f.seq = pages[i].first + k - 1
          /\ f.attempt = pages[i].attempt /\ f.chunk = k
      BY DEF Frame
    <3> HIDE DEF f
    <3>7. data[pages[i].offset + k - 1] = f
      BY <3>5 DEF f
    <3> QED
      BY <3>3, <3>4, <3>6, <3>7 DEF ReadChunk, ReadFrame
  <2> QED
    BY <2>3 DEF PagesReadable
<1> QED
  BY <1>1, SpoolInvariant, PTL

\* No nonce is used twice, not even after a page was rolled back.
THEOREM SpoolNonces ==
    ASSUME Limit \in Nat
    PROVE  Spec => []NonceOnce
<1>1. IInv => NonceOnce
  BY DEF IInv, Nonces, NonceOnce, TypeOK
<1> QED
  BY <1>1, SpoolInvariant, PTL
=============================================================================
