------------------------- MODULE AuditJournalProofs -------------------------
(***************************************************************************)
(* Proofs about AuditJournal, for any processes, operations and            *)
(* connections.                                                            *)
(*                                                                         *)
(* The inductive invariant is JournalInv: the chain is unbroken, every     *)
(* cached cursor describes the prefix it covers, and every gated intent on *)
(* disk was admitted against the records before it.  The middle conjunct   *)
(* carries the proof: an append trusts a cursor, so what it links to and   *)
(* what it is gated by are right only if the cursor is.                    *)
(***************************************************************************)
EXTENDS AuditJournal, Integers, WellFoundedInduction, TLAPS

-----------------------------------------------------------------------------
(* Sequences.                                                              *)

\* What a sequence, the empty one and an extended one are.
LEMMA LenProperties ==
  ASSUME NEW S, NEW s \in Seq(S)
  PROVE  Len(s) \in Nat
OBVIOUS
LEMMA ElementOfSeq ==
  ASSUME NEW S, NEW s \in Seq(S), NEW n \in 1..Len(s)
  PROVE  s[n] \in S
OBVIOUS
LEMMA EmptySeq ==
  ASSUME NEW S
  PROVE  /\ <<>> \in Seq(S) /\ Len(<<>>) = 0
         /\ \A s \in Seq(S) : s # <<>> => Len(s) \in Nat \ {0}
OBVIOUS
LEMMA AppendProperties ==
  ASSUME NEW S, NEW s \in Seq(S), NEW e \in S
  PROVE  /\ Append(s, e) \in Seq(S)
         /\ Len(Append(s, e)) = Len(s) + 1
         /\ \A i \in 1..Len(s) : Append(s, e)[i] = s[i]
         /\ Append(s, e)[Len(s) + 1] = e
OBVIOUS

\* Sequences with the same elements are equal.
LEMMA SeqEqual ==
  ASSUME NEW S, NEW s \in Seq(S), NEW t \in Seq(S),
         Len(s) = Len(t), \A i \in 1..Len(s) : s[i] = t[i]
  PROVE  s = t
OBVIOUS

\* The elements from position m to position n.
LEMMA SubSeqProperties ==
  ASSUME NEW S, NEW s \in Seq(S), NEW m \in 1..(Len(s) + 1), NEW n \in 0..Len(s), m <= n + 1
  PROVE  /\ SubSeq(s, m, n) \in Seq(S)
         /\ Len(SubSeq(s, m, n)) = n - m + 1
         /\ \A i \in 1..(n - m + 1) : SubSeq(s, m, n)[i] = s[m + i - 1]
OBVIOUS
LEMMA SubSeqEnds ==
  ASSUME NEW S, NEW s \in Seq(S)
  PROVE  SubSeq(s, 1, Len(s)) = s /\ SubSeq(s, 1, 0) = <<>>
OBVIOUS

-----------------------------------------------------------------------------
(* Prefixes, suffixes and scans.                                           *)

\* Positions in a file, in one that is a record longer and in a shorter one.
LEMMA LongerRange ==
  ASSUME NEW m \in Nat, NEW n, n = m + 1, NEW s \in 0..m
  PROVE  s \in 0..n /\ n \in 0..n
OBVIOUS
LEMMA ShorterRange ==
  ASSUME NEW m \in Nat, NEW n \in 0..m
  PROVE  \A i \in 1..n : i \in 1..m
OBVIOUS
LEMMA RangeBefore ==
  ASSUME NEW m \in Nat, NEW i \in 1..m, NEW j \in 1..m, i < j
  PROVE  j - 1 \in 0..m /\ i \in 1..(j - 1)
OBVIOUS
LEMMA NotAfter ==
  ASSUME NEW i \in Int, NEW j \in Int, i <= j
  PROVE  ~(i > j)
OBVIOUS

\* The first n records of f, and those after them.
LEMMA SplitFacts ==
  ASSUME NEW f \in Seq(Record), NEW n \in 0..Len(f)
  PROVE  /\ SubSeq(f, 1, n) \in Seq(Record)
         /\ Len(SubSeq(f, 1, n)) = n
         /\ \A i \in 1..n : SubSeq(f, 1, n)[i] = f[i]
         /\ SubSeq(f, n + 1, Len(f)) \in Seq(Record)
         /\ Len(SubSeq(f, n + 1, Len(f))) = Len(f) - n
         /\ \A i \in 1..(Len(f) - n) : SubSeq(f, n + 1, Len(f))[i] = f[n + i]
<1>1. /\ Len(f) \in Nat /\ n \in Nat /\ n <= Len(f)
      /\ n + 1 \in 1..(Len(f) + 1) /\ 1 \in 1..(Len(f) + 1)
  BY LenProperties
<1>2. /\ SubSeq(f, 1, n) \in Seq(Record)
      /\ Len(SubSeq(f, 1, n)) = n - 1 + 1
      /\ \A i \in 1..(n - 1 + 1) : SubSeq(f, 1, n)[i] = f[1 + i - 1]
  BY <1>1, SubSeqProperties
<1>3. /\ SubSeq(f, n + 1, Len(f)) \in Seq(Record)
      /\ Len(SubSeq(f, n + 1, Len(f))) = Len(f) - (n + 1) + 1
      /\ \A i \in 1..(Len(f) - (n + 1) + 1) : SubSeq(f, n + 1, Len(f))[i] = f[n + 1 + i - 1]
  BY <1>1, SubSeqProperties
<1>4. /\ Len(SubSeq(f, 1, n)) = n
      /\ \A i \in 1..n : SubSeq(f, 1, n)[i] = f[i]
  BY <1>1, <1>2
<1>5. /\ Len(SubSeq(f, n + 1, Len(f))) = Len(f) - n
      /\ \A i \in 1..(Len(f) - n) : SubSeq(f, n + 1, Len(f))[i] = f[n + i]
  BY <1>1, <1>3
<1> QED BY <1>2, <1>3, <1>4, <1>5

\* Scanning a prefix and then the rest finds the same pending operations as
\* scanning the whole file (track_operation_state looks at records in order).
LEMMA PendingSplit ==
  ASSUME NEW f \in Seq(Record), NEW n \in 0..Len(f)
  PROVE  PendingAfter(PendingAfter({}, SubSeq(f, 1, n)), SubSeq(f, n + 1, Len(f)))
           = PendingAfter({}, f)
<1> DEFINE a == SubSeq(f, 1, n)
           b == SubSeq(f, n + 1, Len(f))
           ends(r, o) == r.event.op = o /\ EndsIntent(r.event)
<1>0. Len(f) \in Nat BY LenProperties
<1>1. /\ Len(a) = n
      /\ \A i \in 1..n : a[i] = f[i]
      /\ Len(b) = Len(f) - n
      /\ \A i \in 1..(Len(f) - n) : b[i] = f[n + i]
  BY SplitFacts
<1>2. ASSUME NEW o \in Op, o \in PendingAfter(PendingAfter({}, a), b)
      PROVE  o \in PendingAfter({}, f)
  <2>1. CASE /\ o \in PendingAfter({}, a)
             /\ \A j \in 1..Len(b) : ~ends(b[j], o)
    <3>1. PICK i \in 1..n : /\ a[i].event.op = o
                            /\ IsIntent(a[i].event)
                            /\ \A j \in 1..n : j > i => ~ends(a[j], o)
      BY <1>1, <2>1 DEF PendingAfter
    <3>2. \A j \in 1..Len(f) : j > i => ~ends(f[j], o)
      <4> SUFFICES ASSUME NEW j \in 1..Len(f), j > i PROVE ~ends(f[j], o)
        OBVIOUS
      <4>1. CASE j <= n  BY <1>0, <1>1, <3>1, <4>1
      <4>2. CASE j > n
        <5>1. j - n \in 1..(Len(f) - n) /\ n + (j - n) = j  BY <1>0, <4>2
        <5> QED BY <1>1, <2>1, <5>1
      <4> QED BY <1>0, <4>1, <4>2
    <3>3. i \in 1..Len(f) /\ f[i].event.op = o /\ IsIntent(f[i].event)
      BY <1>0, <1>1, <3>1
    <3> QED BY <3>2, <3>3 DEF PendingAfter
  <2>2. CASE \E i \in 1..Len(b) : /\ b[i].event.op = o
                                  /\ IsIntent(b[i].event)
                                  /\ \A j \in 1..Len(b) : j > i => ~ends(b[j], o)
    <3>1. PICK i \in 1..Len(b) : /\ b[i].event.op = o
                                 /\ IsIntent(b[i].event)
                                 /\ \A j \in 1..Len(b) : j > i => ~ends(b[j], o)
      BY <2>2
    <3>2. n + i \in 1..Len(f) /\ f[n + i].event.op = o /\ IsIntent(f[n + i].event)
      BY <1>0, <1>1, <3>1
    <3>3. \A j \in 1..Len(f) : j > n + i => ~ends(f[j], o)
      <4> SUFFICES ASSUME NEW j \in 1..Len(f), j > n + i PROVE ~ends(f[j], o)
        OBVIOUS
      <4>1. j - n \in 1..Len(b) /\ j - n > i /\ n + (j - n) = j  BY <1>0, <1>1
      <4> QED BY <1>1, <3>1, <4>1
    <3> QED BY <3>2, <3>3 DEF PendingAfter
  <2> QED BY <1>2, <2>1, <2>2 DEF PendingAfter
<1>3. ASSUME NEW o \in Op, o \in PendingAfter({}, f)
      PROVE  o \in PendingAfter(PendingAfter({}, a), b)
  <2>1. PICK i \in 1..Len(f) : /\ f[i].event.op = o
                               /\ IsIntent(f[i].event)
                               /\ \A j \in 1..Len(f) : j > i => ~ends(f[j], o)
    BY <1>3 DEF PendingAfter
  <2>2. CASE i <= n
    <3>1. o \in PendingAfter({}, a)
      BY <1>0, <1>1, <2>1, <2>2 DEF PendingAfter
    <3>2. \A j \in 1..Len(b) : ~ends(b[j], o)
      BY <1>0, <1>1, <2>1, <2>2
    <3> QED BY <3>1, <3>2 DEF PendingAfter
  <2>3. CASE i > n
    <3>1. i - n \in 1..Len(b) /\ n + (i - n) = i  BY <1>0, <1>1, <2>3
    <3>2. b[i - n].event.op = o /\ IsIntent(b[i - n].event)
      BY <1>1, <2>1, <3>1
    <3>3. \A j \in 1..Len(b) : j > i - n => ~ends(b[j], o)
      <4> SUFFICES ASSUME NEW j \in 1..Len(b), j > i - n PROVE ~ends(b[j], o)
        OBVIOUS
      <4>1. n + j \in 1..Len(f) /\ n + j > i /\ b[j] = f[n + j]  BY <1>0, <1>1
      <4> QED BY <2>1, <4>1
    <3> QED BY <3>1, <3>2, <3>3 DEF PendingAfter
  <2> QED BY <1>0, <2>2, <2>3
<1>4. PendingAfter(PendingAfter({}, a), b) \subseteq Op /\ PendingAfter({}, f) \subseteq Op
  BY DEF PendingAfter
<1> QED BY <1>2, <1>3, <1>4

\* The same for the operations whose outcome is unresolved.
LEMMA UnresolvedSplit ==
  ASSUME NEW f \in Seq(Record), NEW n \in 0..Len(f)
  PROVE  UnresolvedAfter(UnresolvedAfter({}, SubSeq(f, 1, n)), SubSeq(f, n + 1, Len(f)))
           = UnresolvedAfter({}, f)
<1> DEFINE a == SubSeq(f, 1, n)
           b == SubSeq(f, n + 1, Len(f))
           ends(r, o) == r.event.op = o /\ IsOutcome(r.event)
<1>0. Len(f) \in Nat BY LenProperties
<1>1. /\ Len(a) = n
      /\ \A i \in 1..n : a[i] = f[i]
      /\ Len(b) = Len(f) - n
      /\ \A i \in 1..(Len(f) - n) : b[i] = f[n + i]
  BY SplitFacts
<1>2. ASSUME NEW o \in Op, o \in UnresolvedAfter(UnresolvedAfter({}, a), b)
      PROVE  o \in UnresolvedAfter({}, f)
  <2>1. CASE /\ o \in UnresolvedAfter({}, a)
             /\ \A j \in 1..Len(b) : ~ends(b[j], o)
    <3>1. PICK i \in 1..n : /\ a[i].event.op = o
                            /\ LeavesUnknown(a[i].event)
                            /\ \A j \in 1..n : j > i => ~ends(a[j], o)
      BY <1>1, <2>1 DEF UnresolvedAfter
    <3>2. \A j \in 1..Len(f) : j > i => ~ends(f[j], o)
      <4> SUFFICES ASSUME NEW j \in 1..Len(f), j > i PROVE ~ends(f[j], o)
        OBVIOUS
      <4>1. CASE j <= n  BY <1>0, <1>1, <3>1, <4>1
      <4>2. CASE j > n
        <5>1. j - n \in 1..(Len(f) - n) /\ n + (j - n) = j  BY <1>0, <4>2
        <5> QED BY <1>1, <2>1, <5>1
      <4> QED BY <1>0, <4>1, <4>2
    <3>3. i \in 1..Len(f) /\ f[i].event.op = o /\ LeavesUnknown(f[i].event)
      BY <1>0, <1>1, <3>1
    <3> QED BY <3>2, <3>3 DEF UnresolvedAfter
  <2>2. CASE \E i \in 1..Len(b) : /\ b[i].event.op = o
                                  /\ LeavesUnknown(b[i].event)
                                  /\ \A j \in 1..Len(b) : j > i => ~ends(b[j], o)
    <3>1. PICK i \in 1..Len(b) : /\ b[i].event.op = o
                                 /\ LeavesUnknown(b[i].event)
                                 /\ \A j \in 1..Len(b) : j > i => ~ends(b[j], o)
      BY <2>2
    <3>2. n + i \in 1..Len(f) /\ f[n + i].event.op = o /\ LeavesUnknown(f[n + i].event)
      BY <1>0, <1>1, <3>1
    <3>3. \A j \in 1..Len(f) : j > n + i => ~ends(f[j], o)
      <4> SUFFICES ASSUME NEW j \in 1..Len(f), j > n + i PROVE ~ends(f[j], o)
        OBVIOUS
      <4>1. j - n \in 1..Len(b) /\ j - n > i /\ n + (j - n) = j  BY <1>0, <1>1
      <4> QED BY <1>1, <3>1, <4>1
    <3> QED BY <3>2, <3>3 DEF UnresolvedAfter
  <2> QED BY <1>2, <2>1, <2>2 DEF UnresolvedAfter
<1>3. ASSUME NEW o \in Op, o \in UnresolvedAfter({}, f)
      PROVE  o \in UnresolvedAfter(UnresolvedAfter({}, a), b)
  <2>1. PICK i \in 1..Len(f) : /\ f[i].event.op = o
                               /\ LeavesUnknown(f[i].event)
                               /\ \A j \in 1..Len(f) : j > i => ~ends(f[j], o)
    BY <1>3 DEF UnresolvedAfter
  <2>2. CASE i <= n
    <3>1. o \in UnresolvedAfter({}, a)
      BY <1>0, <1>1, <2>1, <2>2 DEF UnresolvedAfter
    <3>2. \A j \in 1..Len(b) : ~ends(b[j], o)
      BY <1>0, <1>1, <2>1, <2>2
    <3> QED BY <3>1, <3>2 DEF UnresolvedAfter
  <2>3. CASE i > n
    <3>1. i - n \in 1..Len(b) /\ n + (i - n) = i  BY <1>0, <1>1, <2>3
    <3>2. b[i - n].event.op = o /\ LeavesUnknown(b[i - n].event)
      BY <1>1, <2>1, <3>1
    <3>3. \A j \in 1..Len(b) : j > i - n => ~ends(b[j], o)
      <4> SUFFICES ASSUME NEW j \in 1..Len(b), j > i - n PROVE ~ends(b[j], o)
        OBVIOUS
      <4>1. n + j \in 1..Len(f) /\ n + j > i /\ b[j] = f[n + j]  BY <1>0, <1>1
      <4> QED BY <2>1, <4>1
    <3> QED BY <3>1, <3>2, <3>3 DEF UnresolvedAfter
  <2> QED BY <1>0, <2>2, <2>3
<1>4. UnresolvedAfter(UnresolvedAfter({}, a), b) \subseteq Op /\ UnresolvedAfter({}, f) \subseteq Op
  BY DEF UnresolvedAfter
<1> QED BY <1>2, <1>3, <1>4

\* A scan resumed in the middle of the file ends where a scan from genesis does
\* (resume_verified_state followed by scan_records).
LEMMA ScanSplit ==
  ASSUME NEW f \in Seq(Record), NEW n \in 0..Len(f)
  PROVE  ScanRecords(ScanRecords(Genesis, SubSeq(f, 1, n)), SubSeq(f, n + 1, Len(f)))
           = ScanRecords(Genesis, f)
<1> DEFINE a == SubSeq(f, 1, n)
           b == SubSeq(f, n + 1, Len(f))
<1>1. TailAfter(TailAfter(Genesis.tail, a), b) = TailAfter(Genesis.tail, f)
  <2>1. /\ a \in Seq(Record) /\ Len(a) = n /\ \A i \in 1..n : a[i] = f[i]
        /\ b \in Seq(Record) /\ Len(b) = Len(f) - n
        /\ \A i \in 1..(Len(f) - n) : b[i] = f[n + i]
        /\ Len(f) \in Nat
    BY SplitFacts, LenProperties
  <2>2. \A s \in Seq(Record) : s = <<>> <=> Len(s) = 0
    BY EmptySeq
  <2>3. CASE n = Len(f)
    <3>1. b = <<>>  BY <2>1, <2>2, <2>3
    <3>2. a = f  BY <2>1, <2>3, SeqEqual
    <3> QED BY <3>1, <3>2 DEF TailAfter
  <2>4. CASE n < Len(f)
    <3>0. Len(b) # 0 /\ Len(f) # 0  BY <2>1, <2>4
    <3>1. b # <<>> /\ f # <<>>  BY <2>1, <2>2, <3>0
    <3>2. b[Len(b)] = f[Len(f)]
      <4>1. Len(f) - n \in 1..(Len(f) - n) /\ n + (Len(f) - n) = Len(f)  BY <2>1, <2>4
      <4> QED BY <2>1, <4>1
    <3> QED BY <3>1, <3>2 DEF TailAfter
  <2> QED BY <2>1, <2>3, <2>4
<1>2. PendingAfter(PendingAfter({}, a), b) = PendingAfter({}, f)  BY PendingSplit
<1>3. UnresolvedAfter(UnresolvedAfter({}, a), b) = UnresolvedAfter({}, f)  BY UnresolvedSplit
<1> QED BY <1>1, <1>2, <1>3 DEF ScanRecords, Genesis

\* A scan from genesis yields a well-formed state.
LEMMA ScanType ==
  ASSUME NEW f \in Seq(Record)
  PROVE  /\ ScanRecords(Genesis, f) \in JournalState
         /\ ScanRecords(Genesis, f).tail = TailAfter(Genesis.tail, f)
         /\ ScanRecords(Genesis, f).pending = PendingAfter({}, f)
         /\ ScanRecords(Genesis, f).unresolved = UnresolvedAfter({}, f)
<1>1. TailAfter(Genesis.tail, f) \in TailType
  <2>1. CASE f = <<>>  BY <2>1 DEF TailAfter, Genesis, Tail_, TailType
  <2>2. CASE f # <<>>
    <3>1. Len(f) \in Nat \ {0}  BY <2>2, EmptySeq
    <3>2. f[Len(f)] \in Record  BY <3>1, ElementOfSeq
    <3> QED BY <2>2, <3>2 DEF TailAfter, TailOf, Tail_, TailType, Record
  <2> QED BY <2>1, <2>2
<1>2. PendingAfter({}, f) \subseteq Op /\ UnresolvedAfter({}, f) \subseteq Op
  BY DEF PendingAfter, UnresolvedAfter
<1> QED BY <1>1, <1>2 DEF ScanRecords, JournalState, Genesis

\* The record append_event writes after a verified state.
NewRecord(st, e) == [seq |-> st.tail.seq + 1, prev |-> st.tail, event |-> e]

\* Appending a record leaves every prefix, and so every scan of one, alone.
LEMMA AppendFacts ==
  ASSUME NEW f \in Seq(Record), NEW r \in Record
  PROVE  /\ Append(f, r) \in Seq(Record)
         /\ Len(Append(f, r)) = Len(f) + 1
         /\ \A i \in 1..Len(f) : Append(f, r)[i] = f[i]
         /\ Append(f, r)[Len(f) + 1] = r
         /\ Len(f) \in Nat
         /\ \A n \in 0..Len(f) : SubSeq(Append(f, r), 1, n) = SubSeq(f, 1, n)
         /\ \A n \in 0..Len(f) :
               Append(SubSeq(f, n + 1, Len(f)), r)
                 = SubSeq(Append(f, r), n + 1, Len(Append(f, r)))
<1> DEFINE g == Append(f, r)
<1>1. /\ g \in Seq(Record) /\ Len(g) = Len(f) + 1 /\ Len(f) \in Nat
      /\ \A i \in 1..Len(f) : g[i] = f[i]
      /\ g[Len(f) + 1] = r
  BY AppendProperties, LenProperties
<1> HIDE DEF g
<1>2. ASSUME NEW n \in 0..Len(f)
      PROVE  SubSeq(g, 1, n) = SubSeq(f, 1, n)
  <2>1. n \in 0..Len(g)  BY <1>1
  <2>2. /\ SubSeq(f, 1, n) \in Seq(Record) /\ Len(SubSeq(f, 1, n)) = n
        /\ \A i \in 1..n : SubSeq(f, 1, n)[i] = f[i]
    BY SplitFacts
  <2>3. /\ SubSeq(g, 1, n) \in Seq(Record) /\ Len(SubSeq(g, 1, n)) = n
        /\ \A i \in 1..n : SubSeq(g, 1, n)[i] = g[i]
    BY <1>1, <2>1, SplitFacts
  <2>4. \A i \in 1..n : SubSeq(g, 1, n)[i] = SubSeq(f, 1, n)[i]
    BY <1>1, <2>2, <2>3
  <2> QED BY <2>2, <2>3, <2>4, SeqEqual
<1>3. ASSUME NEW n \in 0..Len(f)
      PROVE  Append(SubSeq(f, n + 1, Len(f)), r) = SubSeq(g, n + 1, Len(g))
  <2> DEFINE b == SubSeq(f, n + 1, Len(f))
             c == SubSeq(g, n + 1, Len(g))
  <2>1. n \in 0..Len(g)  BY <1>1
  <2>2. /\ b \in Seq(Record) /\ Len(b) = Len(f) - n
        /\ \A i \in 1..(Len(f) - n) : b[i] = f[n + i]
    BY SplitFacts
  <2>3. /\ c \in Seq(Record) /\ Len(c) = Len(g) - n
        /\ \A i \in 1..(Len(g) - n) : c[i] = g[n + i]
    BY <1>1, <2>1, SplitFacts
  <2> HIDE DEF b, c
  <2>4. /\ Append(b, r) \in Seq(Record) /\ Len(Append(b, r)) = Len(b) + 1
        /\ \A i \in 1..Len(b) : Append(b, r)[i] = b[i]
        /\ Append(b, r)[Len(b) + 1] = r
    BY <2>2, AppendProperties
  <2>5. Len(Append(b, r)) = Len(c)  BY <1>1, <2>2, <2>3, <2>4
  <2>6. ASSUME NEW i \in 1..Len(Append(b, r)) PROVE Append(b, r)[i] = c[i]
    <3>1. CASE i <= Len(f) - n
      <4>1. i \in 1..Len(b) /\ i \in 1..(Len(f) - n) /\ n + i \in 1..Len(f)
            /\ i \in 1..(Len(g) - n)
        BY <1>1, <2>2, <2>4, <3>1
      <4> QED BY <1>1, <2>2, <2>3, <2>4, <4>1
    <3>2. CASE i > Len(f) - n
      <4>1. i = Len(b) + 1 /\ n + i = Len(f) + 1 /\ i \in 1..(Len(g) - n)
        BY <1>1, <2>2, <2>4, <3>2
      <4> QED BY <1>1, <2>3, <2>4, <4>1
    <3> QED BY <1>1, <2>2, <2>4, <3>1, <3>2
  <2>7. Append(b, r) = c  BY <2>3, <2>4, <2>5, <2>6, SeqEqual
  <2> QED BY <2>7 DEF b, c
<1> QED BY <1>1, <1>2, <1>3 DEF g

-----------------------------------------------------------------------------
(* What one append does to the file.                                       *)

\* Every record is gated against what lies before it, in a file f.
GatedFile(f) ==
  \A i \in 1..Len(f) :
     ~RejectNewWriteIntent(ScanRecords(Genesis, SubSeq(f, 1, i - 1)), f[i].event)

\* append_event linked to the true end of the file keeps the chain, and keeps
\* the gate when the gate admitted the event.
LEMMA AppendKeepsFile ==
  ASSUME NEW f \in Seq(Record), NEW e \in Event,
         ChainValid(Genesis.tail, f), GatedFile(f),
         ~RejectNewWriteIntent(ScanRecords(Genesis, f), e)
  PROVE  /\ NewRecord(ScanRecords(Genesis, f), e) \in Record
         /\ ChainValid(Genesis.tail, Append(f, NewRecord(ScanRecords(Genesis, f), e)))
         /\ GatedFile(Append(f, NewRecord(ScanRecords(Genesis, f), e)))
<1> DEFINE st == ScanRecords(Genesis, f)
           r == NewRecord(st, e)
           g == Append(f, r)
<1>1. st.tail \in TailType /\ st.tail = TailAfter(Genesis.tail, f)
  BY ScanType DEF JournalState
<1>2. r \in Record /\ r.seq = st.tail.seq + 1 /\ r.prev = st.tail /\ r.event = e
  BY <1>1 DEF NewRecord, Record, TailType
<1>3. /\ g \in Seq(Record) /\ Len(g) = Len(f) + 1 /\ Len(f) \in Nat
      /\ \A i \in 1..Len(f) : g[i] = f[i]
      /\ g[Len(f) + 1] = r
      /\ \A n \in 0..Len(f) : SubSeq(g, 1, n) = SubSeq(f, 1, n)
  <2> HIDE DEF r
  <2> QED BY <1>2, AppendFacts
<1> HIDE DEF g, r, st
<1>4. ChainValid(Genesis.tail, g)
  <2> SUFFICES ASSUME NEW i \in 1..Len(g)
               PROVE  LET before == IF i = 1 THEN Genesis.tail ELSE TailOf(g[i - 1])
                      IN  g[i].seq = before.seq + 1 /\ g[i].prev = before
    BY DEF ChainValid
  <2>1. CASE i <= Len(f)
    <3>1. i \in 1..Len(f) /\ (i # 1 => i - 1 \in 1..Len(f))  BY <1>3, <2>1
    <3>2. g[i] = f[i] /\ (i # 1 => g[i - 1] = f[i - 1])  BY <1>3, <3>1
    <3> QED BY <3>1, <3>2 DEF ChainValid
  <2>2. CASE i > Len(f)
    <3>1. i = Len(f) + 1  BY <1>3, <2>2
    <3>2. g[i] = r  BY <1>3, <3>1
    <3>3. st.tail = IF i = 1 THEN Genesis.tail ELSE TailOf(g[i - 1])
      <4>1. CASE f = <<>>
        <5>1. Len(f) = 0  BY <4>1, EmptySeq
        <5> QED BY <1>1, <3>1, <4>1, <5>1 DEF TailAfter
      <4>2. CASE f # <<>>
        <5>1. Len(f) \in Nat \ {0}  BY <4>2, EmptySeq
        <5>2. i # 1 /\ i - 1 = Len(f) /\ Len(f) \in 1..Len(f)  BY <3>1, <5>1
        <5> QED BY <1>1, <1>3, <4>2, <5>2 DEF TailAfter
      <4> QED BY <4>1, <4>2
    <3> QED BY <1>2, <3>2, <3>3
  <2> QED BY <1>3, <2>1, <2>2
<1>5. GatedFile(g)
  <2> SUFFICES ASSUME NEW i \in 1..Len(g)
               PROVE  ~RejectNewWriteIntent(ScanRecords(Genesis, SubSeq(g, 1, i - 1)), g[i].event)
    BY DEF GatedFile
  <2>1. CASE i <= Len(f)
    <3>1. i \in 1..Len(f) /\ i - 1 \in 0..Len(f)  BY <1>3, <2>1
    <3>2. g[i] = f[i] /\ SubSeq(g, 1, i - 1) = SubSeq(f, 1, i - 1)  BY <1>3, <3>1
    <3> QED BY <3>1, <3>2 DEF GatedFile
  <2>2. CASE i > Len(f)
    <3>1. i = Len(f) + 1 /\ i - 1 = Len(f) /\ Len(f) \in 0..Len(f)  BY <1>3, <2>2
    <3>2. SubSeq(g, 1, i - 1) = f  BY <1>3, <3>1, SubSeqEnds
    <3>3. g[i].event = e  BY <1>2, <1>3, <3>1
    <3> QED BY <3>2, <3>3
  <2> QED BY <1>3, <2>1, <2>2
<1> QED BY <1>2, <1>4, <1>5 DEF g, r, st

\* Losing a suffix of the file keeps both.
LEMMA TruncateKeepsFile ==
  ASSUME NEW f \in Seq(Record), NEW n \in 0..Len(f),
         ChainValid(Genesis.tail, f), GatedFile(f)
  PROVE  /\ ChainValid(Genesis.tail, SubSeq(f, 1, n))
         /\ GatedFile(SubSeq(f, 1, n))
<1> DEFINE g == SubSeq(f, 1, n)
<1>1. /\ g \in Seq(Record) /\ Len(g) = n /\ \A i \in 1..n : g[i] = f[i]
      /\ Len(f) \in Nat
  BY SplitFacts, LenProperties
<1> HIDE DEF g
<1>2. ASSUME NEW i \in 1..Len(g)
      PROVE  i \in 1..Len(f) /\ g[i] = f[i] /\ (i # 1 => g[i - 1] = f[i - 1])
  <2>1. i \in 1..n /\ i \in 1..Len(f) /\ (i # 1 => i - 1 \in 1..n)  BY <1>1
  <2> QED BY <1>1, <2>1
<1>3. ChainValid(Genesis.tail, g)  BY <1>2 DEF ChainValid
<1>4. ASSUME NEW i \in 1..Len(g)
      PROVE  SubSeq(g, 1, i - 1) = SubSeq(f, 1, i - 1)
  <2>1. i - 1 \in 0..Len(g) /\ i - 1 \in 0..Len(f)  BY <1>1
  <2>2. /\ SubSeq(g, 1, i - 1) \in Seq(Record) /\ Len(SubSeq(g, 1, i - 1)) = i - 1
        /\ \A j \in 1..(i - 1) : SubSeq(g, 1, i - 1)[j] = g[j]
    BY <1>1, <2>1, SplitFacts
  <2>3. /\ SubSeq(f, 1, i - 1) \in Seq(Record) /\ Len(SubSeq(f, 1, i - 1)) = i - 1
        /\ \A j \in 1..(i - 1) : SubSeq(f, 1, i - 1)[j] = f[j]
    BY <1>1, <2>1, SplitFacts
  <2>4. \A j \in 1..(i - 1) : g[j] = f[j]  BY <1>1
  <2>5. \A j \in 1..Len(SubSeq(g, 1, i - 1)) : SubSeq(g, 1, i - 1)[j] = SubSeq(f, 1, i - 1)[j]
    BY <2>2, <2>3, <2>4
  <2> QED BY <2>2, <2>3, <2>5, SeqEqual
<1>5. GatedFile(g)  BY <1>2, <1>4 DEF GatedFile
<1> QED BY <1>3, <1>5 DEF g

-----------------------------------------------------------------------------
(* The inductive invariant.                                                *)

\* A cursor, if there is one, describes the prefix of f it covers.
Faithful(f, c) ==
  c # NoCursor => /\ c.offset <= Len(f)
                  /\ c.st = ScanRecords(Genesis, SubSeq(f, 1, c.offset))

JournalInv == TypeOK /\ ChainIntact /\ CursorFaithful /\ GateRespected

\* CursorFaithful, one holder of a cursor at a time.
LEMMA CursorFaithfulPointwise ==
  CursorFaithful <=> \A p \in Proc : /\ Faithful(file, slot[p])
                                     /\ \A t \in tasks[p] : Faithful(file, t.cursor)
BY DEF CursorFaithful, Faithful

\* An append that resumes from a cursor knows the whole file as it is now.
LEMMA ResumeFacts ==
  ASSUME JournalInv, NEW p \in Proc, NEW t \in tasks[p]
  PROVE  /\ t \in Task
         /\ Resume(t).offset \in 0..Len(file)
         /\ Resume(t).st = ScanRecords(Genesis, SubSeq(file, 1, Resume(t).offset))
         /\ ResumedState(t) = ScanRecords(Genesis, file)
<1>1. t \in Task /\ file \in Seq(Record) /\ Len(file) \in Nat
  BY LenProperties DEF JournalInv, TypeOK
<1>2. /\ Resume(t).offset \in 0..Len(file)
      /\ Resume(t).st = ScanRecords(Genesis, SubSeq(file, 1, Resume(t).offset))
  <2>1. CASE t.cursor # NoCursor /\ t.cursor.aligned /\ t.cursor.offset <= Len(file)
    <3>1. Resume(t) = t.cursor  BY <2>1 DEF Resume
    <3>2. t.cursor \in Cursor  BY <1>1, <2>1 DEF Task
    <3>3. t.cursor.offset \in Nat  BY <3>2 DEF Cursor
    <3>4. Faithful(file, t.cursor)  BY CursorFaithfulPointwise DEF JournalInv
    <3> QED BY <1>1, <2>1, <3>1, <3>3, <3>4 DEF Faithful
  <2>2. CASE ~(t.cursor # NoCursor /\ t.cursor.aligned /\ t.cursor.offset <= Len(file))
    <3>1. Resume(t) = FromGenesis  BY <2>2 DEF Resume
    <3>2. Len(<<>>) = 0 /\ <<>> \in Seq(Record)  BY EmptySeq
    <3>3. Resume(t).offset = 0 /\ Resume(t).st = Genesis
      BY <3>1, <3>2 DEF FromGenesis, AtEndOf
    <3>4. SubSeq(file, 1, 0) = <<>>  BY SubSeqEnds
    <3>5. ScanRecords(Genesis, <<>>) = Genesis
      <4>1. TailAfter(Genesis.tail, <<>>) = Genesis.tail  BY DEF TailAfter
      <4>2. PendingAfter({}, <<>>) = {} /\ UnresolvedAfter({}, <<>>) = {}
        BY <3>2 DEF PendingAfter, UnresolvedAfter
      <4> QED BY <4>1, <4>2 DEF ScanRecords, Genesis
    <3>6. 0 \in 0..Len(file)  BY <1>1
    <3>7. Resume(t).offset \in 0..Len(file)  BY <3>3, <3>6
    <3>8. Resume(t).st = ScanRecords(Genesis, SubSeq(file, 1, Resume(t).offset))
      BY <3>3, <3>4, <3>5
    <3> QED BY <3>7, <3>8
  <2> QED BY <2>1, <2>2
<1>3. ResumedState(t) = ScanRecords(Genesis, file)
  BY <1>1, <1>2, ScanSplit DEF ResumedState, Unscanned
<1> QED BY <1>1, <1>2, <1>3

\* A step that leaves the records alone.
LEMMA KeepFile ==
  ASSUME JournalInv, file' = file, TypeOK',
         \A p \in Proc : /\ Faithful(file, slot'[p])
                         /\ \A t \in tasks'[p] : Faithful(file, t.cursor)
  PROVE  JournalInv'
<1>1. ChainIntact' /\ GateRespected'  BY DEF JournalInv, ChainIntact, GateRespected
<1>2. CursorFaithful'  BY DEF CursorFaithful, Faithful
<1> QED BY <1>1, <1>2 DEF JournalInv

\* A step that appends one admitted record.
LEMMA GrowFile ==
  ASSUME JournalInv, NEW e \in Event,
         ~RejectNewWriteIntent(ScanRecords(Genesis, file), e),
         file' = AppendRecord(ScanRecords(Genesis, file).tail, e),
         TypeOK',
         \A p \in Proc : /\ slot'[p] = slot[p] \/ Faithful(file', slot'[p])
                         /\ \A t \in tasks'[p] : t \in tasks[p]
  PROVE  JournalInv'
<1> DEFINE r == NewRecord(ScanRecords(Genesis, file), e)
<1>1. file \in Seq(Record) /\ ChainValid(Genesis.tail, file) /\ GatedFile(file)
  BY DEF JournalInv, TypeOK, ChainIntact, GateRespected, GatedFile
<1>2. file' = Append(file, r)  BY DEF AppendRecord, NewRecord
<1>3. r \in Record /\ ChainValid(Genesis.tail, file') /\ GatedFile(file')
  BY <1>1, <1>2, AppendKeepsFile
<1> HIDE DEF r
<1>4. /\ Len(file') = Len(file) + 1 /\ Len(file) \in Nat
      /\ \A n \in 0..Len(file) : SubSeq(file', 1, n) = SubSeq(file, 1, n)
  BY <1>1, <1>2, <1>3, AppendFacts
<1>5. ASSUME NEW c \in Cursor \cup {NoCursor}, Faithful(file, c)
      PROVE  Faithful(file', c)
  <2> SUFFICES ASSUME c # NoCursor
               PROVE  c.offset <= Len(file') /\ c.st = ScanRecords(Genesis, SubSeq(file', 1, c.offset))
    BY DEF Faithful
  <2>1. c.offset \in Nat /\ c.offset <= Len(file)  BY <1>5 DEF Cursor, Faithful
  <2>2. c.offset \in 0..Len(file)  BY <1>4, <2>1
  <2>3. c.offset <= Len(file')  BY <1>4, <2>1
  <2> QED BY <1>4, <1>5, <2>2, <2>3 DEF Faithful
<1>6. ASSUME NEW p \in Proc
      PROVE  /\ Faithful(file', slot'[p])
             /\ \A t \in tasks'[p] : Faithful(file', t.cursor)
  <2>1. /\ slot[p] \in Cursor \cup {NoCursor}
        /\ \A t \in tasks[p] : t.cursor \in Cursor \cup {NoCursor}
    BY DEF JournalInv, TypeOK, Task
  <2>2. Faithful(file, slot[p]) /\ \A t \in tasks[p] : Faithful(file, t.cursor)
    BY CursorFaithfulPointwise DEF JournalInv
  <2> QED BY <1>5, <2>1, <2>2
<1>7. CursorFaithful'  BY <1>6 DEF CursorFaithful, Faithful
<1>8. ChainIntact' /\ GateRespected'  BY <1>3 DEF ChainIntact, GateRespected, GatedFile
<1> QED BY <1>7, <1>8 DEF JournalInv

-----------------------------------------------------------------------------
(* Every action preserves the invariant.                                   *)

\* The fields of an event: what an intent and an outcome carry.
LEMMA EventFacts ==
  /\ \A o \in Op : Intent(o) \in Event
  /\ \A o \in Op, x \in Status : Outcome(o, x) \in Event
  /\ \A e \in Event : e.op \in Op
BY DEF Event, Intent, Outcome, Status

\* A cursor at the end of the file, as initialize publishes it.
LEMMA EndCursor ==
  ASSUME NEW f \in Seq(Record), NEW terminated \in BOOLEAN
  PROVE  /\ AtEndOf(f, terminated, ScanRecords(Genesis, f)) \in Cursor
         /\ Faithful(f, AtEndOf(f, terminated, ScanRecords(Genesis, f)))
<1>1. Len(f) \in Nat  BY LenProperties
<1>2. ScanRecords(Genesis, f) \in JournalState  BY ScanType
<1>3. SubSeq(f, 1, Len(f)) = f  BY SubSeqEnds
<1>4. AtEndOf(f, terminated, ScanRecords(Genesis, f)) \in Cursor
  BY <1>1, <1>2 DEF AtEndOf, Cursor
<1>5. Faithful(f, AtEndOf(f, terminated, ScanRecords(Genesis, f)))
  <2> DEFINE c == AtEndOf(f, terminated, ScanRecords(Genesis, f))
  <2>1. c.offset = Len(f) /\ c.st = ScanRecords(Genesis, f)  BY DEF AtEndOf
  <2>2. c.offset <= Len(f)  BY <1>1, <2>1
  <2>3. c.st = ScanRecords(Genesis, SubSeq(f, 1, c.offset))  BY <1>3, <2>1
  <2> QED BY <2>2, <2>3 DEF Faithful
<1> QED BY <1>4, <1>5

\* The line recover_pending_intents writes for a pending operation.
RecoveryLine(o) ==
  file' = AppendRecord(TailAfter(Genesis.tail, file), Outcome(o, "recovered"))
LEMMA RecoveryWrites ==
  ASSUME JournalInv, NEW o \in Pending, RecoveryLine(o)
  PROVE  /\ o \in Op /\ \E i \in 1..Len(file) : file[i].event.op = o
         /\ Outcome(o, "recovered") \in Event
         /\ ~RejectNewWriteIntent(ScanRecords(Genesis, file), Outcome(o, "recovered"))
         /\ file' = AppendRecord(ScanRecords(Genesis, file).tail, Outcome(o, "recovered"))
         /\ file' \in Seq(Record) /\ Len(file') = Len(file) + 1
         /\ \E r \in Record : file' = Append(file, r) /\ r.event = Outcome(o, "recovered")
<1> DEFINE e == Outcome(o, "recovered")
           r == NewRecord(ScanRecords(Genesis, file), e)
<1>0. file \in Seq(Record)  BY DEF JournalInv, TypeOK
<1>1. o \in Op /\ \E i \in 1..Len(file) : file[i].event.op = o  BY DEF Pending, PendingAfter
<1>2. e \in Event  BY <1>1, EventFacts DEF Status
<1>3. ~RejectNewWriteIntent(ScanRecords(Genesis, file), e)
  BY DEF RejectNewWriteIntent, BlockedByUnresolved, BlockedByPending, Gated, IsIntent, Outcome
<1>4. r.event = e  BY DEF NewRecord
<1> HIDE DEF e
<1>5. file' = AppendRecord(ScanRecords(Genesis, file).tail, e)
  BY <1>0, ScanType DEF RecoveryLine, e
<1>6. file' = Append(file, r)  BY <1>5 DEF AppendRecord, NewRecord
<1>7. r \in Record
  BY <1>0, <1>2, <1>3, AppendKeepsFile DEF JournalInv, ChainIntact, GateRespected, GatedFile
<1> HIDE DEF r
<1>8. file' \in Seq(Record) /\ Len(file') = Len(file) + 1  BY <1>0, <1>6, <1>7, AppendFacts
<1> QED BY <1>1, <1>2, <1>3, <1>4, <1>5, <1>6, <1>7, <1>8 DEF e

\* Opening the journal.
LEMMA OpenStep ==
  ASSUME JournalInv, NEW p \in Proc, Open(p)
  PROVE  JournalInv'
<1>0. TypeOK /\ file \in Seq(Record) /\ Len(file) \in Nat
  BY LenProperties DEF JournalInv, TypeOK
<1>00. \A q \in Proc : /\ Faithful(file, slot[q])
                       /\ \A t \in tasks[q] : Faithful(file, t.cursor)
  BY CursorFaithfulPointwise DEF JournalInv
<1>1. CASE TryOpen(p)
  <2>1. TypeOK'  BY <1>0, <1>1 DEF TryOpen, TypeOK, PC, fileVars, callerVars
  <2> QED BY <1>00, <1>1, <2>1, KeepFile DEF TryOpen, fileVars
<1>2. CASE AcquireShared(p)
  <2>1. TypeOK'  BY <1>0, <1>2 DEF AcquireShared, TypeOK, PC, fileVars, callerVars
  <2> QED BY <1>00, <1>2, <2>1, KeepFile DEF AcquireShared, fileVars
<1>3. CASE VerifyShared(p)
  <2> DEFINE c == AtEndOf(file, ragged = "clean", ScanRecords(Genesis, file))
  <2>1. c \in Cursor /\ Faithful(file, c)
    <3>1. (ragged = "clean") \in BOOLEAN  OBVIOUS
    <3> QED BY <1>0, <3>1, EndCursor
  <2> HIDE DEF c
  <2>2. slot' = slot \/ slot' = [slot EXCEPT ![p] = c]
    BY <1>3 DEF VerifyShared, c
  <2>3. TypeOK'  BY <1>0, <1>3, <2>1, <2>2 DEF VerifyShared, TypeOK, PC, fileVars, callerVars
  <2>4. \A q \in Proc : Faithful(file, slot'[q])
    BY <1>0, <1>00, <2>1, <2>2 DEF TypeOK
  <2> QED BY <1>00, <1>3, <2>3, <2>4, KeepFile DEF VerifyShared, fileVars
<1>4. CASE RepairTail(p)
  <2>1. TypeOK'  BY <1>0, <1>4 DEF RepairTail, TypeOK, PC, Ragged, callerVars
  <2> QED BY <1>00, <1>4, <2>1, KeepFile DEF RepairTail
<1>5. CASE RecoverIntent(p)
  <2>1. PICK o \in Pending : RecoveryLine(o)  BY <1>5 DEF RecoverIntent, RecoveryLine
  <2>2. file' \in Seq(Record) /\ Len(file') \in Nat  BY <2>1, RecoveryWrites, LenProperties
  <2>3. TypeOK'  BY <1>0, <1>5, <2>2 DEF RecoverIntent, TypeOK, callerVars
  <2> QED BY <1>5, <2>1, <2>3, RecoveryWrites, GrowFile DEF RecoverIntent
<1>6. CASE RecoverFails(p)
  <2>1. CASE file' = file
    <3>1. TypeOK'  BY <1>0, <1>6, <2>1 DEF RecoverFails, TypeOK, PC, Ragged, callerVars
    <3> QED BY <1>00, <1>6, <2>1, <3>1, KeepFile DEF RecoverFails
  <2>2. ASSUME NEW o \in Pending, RecoveryLine(o) PROVE JournalInv'
    <3>1. file' \in Seq(Record) /\ Len(file') = Len(file) + 1  BY <2>2, RecoveryWrites
    <3>2. synced' \in 0..Len(file')
      BY <1>0, <1>6, <3>1, LongerRange DEF RecoverFails, TypeOK
    <3>3. TypeOK'
      BY <1>0, <1>6, <3>1, <3>2 DEF RecoverFails, TypeOK, PC, Ragged, callerVars
    <3> QED BY <1>6, <2>2, <3>3, RecoveryWrites, GrowFile DEF RecoverFails
  <2> QED BY <1>6, <2>1, <2>2 DEF RecoverFails, RecoveryLine
<1>7. CASE FinishOpen(p)
  <2> DEFINE c == AtEndOf(file, TRUE, ScanRecords(Genesis, file))
  <2>1. c \in Cursor /\ Faithful(file, c)  BY <1>0, EndCursor
  <2> HIDE DEF c
  <2>2. slot' = [slot EXCEPT ![p] = c]  BY <1>7 DEF FinishOpen, c
  <2>3. TypeOK'  BY <1>0, <1>7, <2>1, <2>2 DEF FinishOpen, TypeOK, PC, fileVars, callerVars
  <2>4. \A q \in Proc : Faithful(file, slot'[q])
    BY <1>0, <1>00, <2>1, <2>2 DEF TypeOK
  <2> QED BY <1>00, <1>7, <2>3, <2>4, KeepFile DEF FinishOpen, fileVars
<1> QED BY <1>1, <1>2, <1>3, <1>4, <1>5, <1>6, <1>7 DEF Open

\* Callers and their futures.
LEMMA CallStep ==
  ASSUME JournalInv, NEW p \in Proc, Call(p)
  PROVE  JournalInv'
<1>0. TypeOK  BY DEF JournalInv
<1>00. \A q \in Proc : /\ Faithful(file, slot[q])
                       /\ \A t \in tasks[q] : Faithful(file, t.cursor)
  BY CursorFaithfulPointwise DEF JournalInv
<1>1. ASSUME NEW e \in Event, StartAppend(p, e)
      PROVE  /\ slot' \in [Proc -> Cursor \cup {NoCursor}]
             /\ tasks' \in [Proc -> SUBSET Task]
             /\ \A q \in Proc : /\ Faithful(file, slot'[q])
                                /\ \A t \in tasks'[q] : Faithful(file, t.cursor)
  <2> DEFINE t0 == [event |-> e, cursor |-> slot[p], attached |-> TRUE]
  <2>1. t0 \in Task /\ t0.cursor = slot[p]  BY <1>0 DEF TypeOK, Task
  <2>2. Faithful(file, NoCursor)  BY DEF Faithful
  <2> HIDE DEF t0
  <2>3. tasks' = [tasks EXCEPT ![p] = @ \cup {t0}] /\ slot' = [slot EXCEPT ![p] = NoCursor]
    BY <1>1 DEF StartAppend, t0
  <2>4. slot' \in [Proc -> Cursor \cup {NoCursor}] /\ tasks' \in [Proc -> SUBSET Task]
    BY <1>0, <2>1, <2>3 DEF TypeOK
  <2>5. ASSUME NEW q \in Proc
        PROVE  Faithful(file, slot'[q]) /\ \A t \in tasks'[q] : Faithful(file, t.cursor)
    <3>1. slot'[q] = slot[q] \/ slot'[q] = NoCursor  BY <1>0, <2>3 DEF TypeOK
    <3>2. \A t \in tasks'[q] : t \in tasks[q] \/ t.cursor = slot[p]
      BY <1>0, <2>1, <2>3 DEF TypeOK
    <3> QED BY <1>00, <2>2, <3>1, <3>2
  <2> QED BY <2>4, <2>5
<1>2. ASSUME NEW o \in Op, BeginIntent(p, o) PROVE JournalInv'
  <2>1. Intent(o) \in Event /\ StartAppend(p, Intent(o))
    BY <1>2, EventFacts DEF BeginIntent
  <2>2. TypeOK'
    BY <1>0, <1>1, <1>2, <2>1 DEF BeginIntent, TypeOK, OpState, fileVars
  <2>3. file' = file  BY <1>2 DEF BeginIntent, fileVars
  <2> QED BY <1>1, <2>1, <2>2, <2>3, KeepFile
<1>3. ASSUME NEW o \in Op, BeginOutcome(p, o) PROVE JournalInv'
  <2>1. PICK x \in {"succeeded", "unknown", "denied"} : StartAppend(p, Outcome(o, x))
    BY <1>3 DEF BeginOutcome
  <2>2. Outcome(o, x) \in Event  BY EventFacts DEF Status
  <2>3. TypeOK'
    BY <1>0, <1>1, <1>3, <2>1, <2>2 DEF BeginOutcome, TypeOK, OpState, fileVars
  <2>4. file' = file  BY <1>3 DEF BeginOutcome, fileVars
  <2> QED BY <1>1, <2>1, <2>2, <2>3, <2>4, KeepFile
<1>4. ASSUME NEW o \in Op, BeginPage(p, o) PROVE JournalInv'
  <2>1. Outcome(o, "pending") \in Event /\ StartAppend(p, Outcome(o, "pending"))
    BY <1>4, EventFacts DEF BeginPage, Status
  <2>2. TypeOK'
    BY <1>0, <1>1, <1>4, <2>1 DEF BeginPage, TypeOK, OpState, fileVars
  <2>3. file' = file  BY <1>4 DEF BeginPage, fileVars
  <2> QED BY <1>1, <2>1, <2>2, <2>3, KeepFile
<1> QED BY <1>2, <1>3, <1>4 DEF Call

\* A dropped caller changes no file and no cursor, only who waits.
LEMMA DropStep ==
  ASSUME JournalInv, NEW p \in Proc, NEW t \in tasks[p], DropCaller(p, t)
  PROVE  JournalInv'
<1> DEFINE d == [t EXCEPT !.attached = FALSE]
<1>0. TypeOK /\ t \in Task  BY DEF JournalInv, TypeOK
<1>00. \A q \in Proc : /\ Faithful(file, slot[q])
                       /\ \A u \in tasks[q] : Faithful(file, u.cursor)
  BY CursorFaithfulPointwise DEF JournalInv
<1>1. d \in Task /\ d.cursor = t.cursor  BY <1>0 DEF Task
<1> HIDE DEF d
<1>2. tasks' = [tasks EXCEPT ![p] = (@ \ {t}) \cup {d}]  BY DEF DropCaller, d
<1>3. TypeOK'
  <2>1. t.event.op \in Op  BY <1>0, EventFacts DEF Task
  <2>2. tasks' \in [Proc -> SUBSET Task]  BY <1>0, <1>1, <1>2 DEF TypeOK
  <2>3. opst' \in [Op -> OpState]  BY <1>0, <2>1 DEF DropCaller, TypeOK, OpState
  <2> QED BY <1>0, <2>2, <2>3 DEF DropCaller, TypeOK, fileVars
<1>4. \A q \in Proc : \A u \in tasks'[q] : u \in tasks[q] \/ u.cursor = t.cursor
  BY <1>0, <1>1, <1>2 DEF TypeOK
<1> QED BY <1>00, <1>3, <1>4, KeepFile DEF DropCaller, fileVars

\* What every end of append_locked leaves of the caller's state.
LEMMA ReplyType ==
  ASSUME TypeOK, NEW p \in Proc, NEW t \in tasks[p], NEW answer \in OpState,
         Reply(p, t, answer)
  PROVE  /\ tasks' \in [Proc -> SUBSET Task]
         /\ opst' \in [Op -> OpState]
         /\ pc' = pc /\ owner' = owner
         /\ \A q \in Proc : \A u \in tasks'[q] : u \in tasks[q]
<1>1. t.event.op \in Op  BY EventFacts DEF TypeOK, Task
<1>2. tasks' \in [Proc -> SUBSET Task] /\ \A q \in Proc : \A u \in tasks'[q] : u \in tasks[q]
  BY DEF Reply, TypeOK
<1>3. opst' \in [Op -> OpState]  BY <1>1 DEF Reply, TypeOK
<1> QED BY <1>2, <1>3 DEF Reply

\* The record an append writes, for each of its ways to end.
LEMMA AppendWrites ==
  ASSUME JournalInv, NEW p \in Proc, NEW t \in tasks[p],
         ~RejectNewWriteIntent(ResumedState(t), t.event),
         file' = AppendRecord(ResumedState(t).tail, t.event)
  PROVE  /\ t.event \in Event
         /\ ~RejectNewWriteIntent(ScanRecords(Genesis, file), t.event)
         /\ file' = AppendRecord(ScanRecords(Genesis, file).tail, t.event)
         /\ file' = Append(file, NewRecord(ScanRecords(Genesis, file), t.event))
         /\ NewRecord(ScanRecords(Genesis, file), t.event) \in Record
         /\ file' \in Seq(Record) /\ Len(file') = Len(file) + 1 /\ Len(file) \in Nat
         /\ file'[Len(file')].event = t.event
<1>1. t \in Task /\ ResumedState(t) = ScanRecords(Genesis, file)  BY ResumeFacts
<1>2. t.event \in Event  BY <1>1 DEF Task
<1>3. file \in Seq(Record) /\ ChainValid(Genesis.tail, file) /\ GatedFile(file)
  BY DEF JournalInv, TypeOK, ChainIntact, GateRespected, GatedFile
<1>4. NewRecord(ScanRecords(Genesis, file), t.event) \in Record
  BY <1>1, <1>2, <1>3, AppendKeepsFile
<1>5. file' = Append(file, NewRecord(ScanRecords(Genesis, file), t.event))
  BY <1>1 DEF AppendRecord, NewRecord
<1>6. /\ file' \in Seq(Record) /\ Len(file') = Len(file) + 1 /\ Len(file) \in Nat
      /\ file'[Len(file) + 1] = NewRecord(ScanRecords(Genesis, file), t.event)
  BY <1>3, <1>4, <1>5, AppendFacts
<1>7. file'[Len(file')] = NewRecord(ScanRecords(Genesis, file), t.event)  BY <1>6
<1>8. NewRecord(ScanRecords(Genesis, file), t.event).event = t.event  BY Zenon DEF NewRecord
<1>9. file'[Len(file')].event = t.event  BY <1>7, <1>8, Zenon
<1> QED BY <1>1, <1>2, <1>4, <1>5, <1>6, <1>9

\* Every way an append can end preserves JournalInv.
LEMMA AppendStep ==
  ASSUME JournalInv, NEW p \in Proc, NEW t \in tasks[p], RunAppend(p, t)
  PROVE  JournalInv'
<1>0. /\ TypeOK /\ t \in Task /\ t.event \in Event
      /\ file \in Seq(Record) /\ Len(file) \in Nat
  BY LenProperties DEF JournalInv, TypeOK, Task
<1>00. \A q \in Proc : /\ Faithful(file, slot[q])
                       /\ \A u \in tasks[q] : Faithful(file, u.cursor)
  BY CursorFaithfulPointwise DEF JournalInv
<1>01. SyncedByScan \in 0..Len(file)  BY <1>0 DEF SyncedByScan, TypeOK
<1>1. CASE AppendSucceeds(p, t)
  <2> DEFINE r == NewRecord(ScanRecords(Genesis, file), t.event)
             n == Resume(t).offset
             c == AtEndOf(file', TRUE, ScanRecords(Resume(t).st, Append(Unscanned(t), file'[Len(file')])))
  <2>1. /\ ~RejectNewWriteIntent(ScanRecords(Genesis, file), t.event)
        /\ file' = AppendRecord(ScanRecords(Genesis, file).tail, t.event)
        /\ file' = Append(file, r) /\ r \in Record
        /\ file' \in Seq(Record) /\ Len(file') = Len(file) + 1
    BY <1>1, AppendWrites DEF AppendSucceeds
  <2>2. n \in 0..Len(file) /\ Resume(t).st = ScanRecords(Genesis, SubSeq(file, 1, n))
    BY ResumeFacts
  <2> HIDE DEF r
  <2>3. /\ file'[Len(file')] = r
        /\ SubSeq(file', 1, n) = SubSeq(file, 1, n)
        /\ Append(Unscanned(t), r) = SubSeq(file', n + 1, Len(file'))
    <3>1. file'[Len(file) + 1] = r  BY <1>0, <2>1, AppendFacts
    <3>2. SubSeq(file', 1, n) = SubSeq(file, 1, n)
      <4>1. file' = Append(file, r) /\ r \in Record  BY <2>1
      <4> QED BY <1>0, <2>2, <4>1, AppendFacts
    <3>3. Append(SubSeq(file, n + 1, Len(file)), r) = SubSeq(file', n + 1, Len(file'))
      <4>1. \A m \in 0..Len(file) :
               Append(SubSeq(file, m + 1, Len(file)), r)
                 = SubSeq(Append(file, r), m + 1, Len(Append(file, r)))
        BY <1>0, <2>1, AppendFacts
      <4> HIDE DEF n
      <4> QED BY <2>1, <2>2, <4>1, Zenon
    <3> QED BY <2>1, <3>1, <3>2, <3>3 DEF Unscanned
  <2>4. ScanRecords(Resume(t).st, Append(Unscanned(t), file'[Len(file')])) = ScanRecords(Genesis, file')
    <3>1. n \in 0..Len(file')  BY <1>0, <2>1, <2>2
    <3>2. ScanRecords(ScanRecords(Genesis, SubSeq(file', 1, n)), SubSeq(file', n + 1, Len(file')))
            = ScanRecords(Genesis, file')
      BY <2>1, <3>1, ScanSplit
    <3> QED BY <2>2, <2>3, <3>2
  <2>5. c \in Cursor /\ Faithful(file', c)  BY <2>1, <2>4, EndCursor
  <2> HIDE DEF c, n
  <2>6. slot' = slot \/ slot' = [slot EXCEPT ![p] = c]
    BY <1>1 DEF AppendSucceeds, c
  <2>7. OkState(t.event) \in OpState  BY DEF OkState, OpState
  <2>8. Reply(p, t, OkState(t.event))  BY <1>1 DEF AppendSucceeds
  <2>9. /\ tasks' \in [Proc -> SUBSET Task] /\ opst' \in [Op -> OpState]
        /\ pc' = pc /\ owner' = owner
        /\ \A q \in Proc : \A u \in tasks'[q] : u \in tasks[q]
    BY <1>0, <2>7, <2>8, ReplyType
  <2>10. synced' \in 0..Len(file')
    <3>1. synced' = Len(file') \/ synced' = SyncedByScan  BY <1>1 DEF AppendSucceeds
    <3> QED BY <1>0, <1>01, <2>1, <3>1, LongerRange
  <2>11. slot' \in [Proc -> Cursor \cup {NoCursor}]  BY <1>0, <2>5, <2>6 DEF TypeOK
  <2>12. ragged' \in Ragged /\ acked' \subseteq Event
    BY <1>0, <1>1 DEF AppendSucceeds, TypeOK, Ragged
  <2>13. TypeOK'  BY <1>0, <2>1, <2>9, <2>10, <2>11, <2>12 DEF TypeOK
  <2>14. \A q \in Proc : slot'[q] = slot[q] \/ Faithful(file', slot'[q])
    BY <1>0, <2>5, <2>6 DEF TypeOK
  <2> QED BY <1>0, <2>1, <2>9, <2>13, <2>14, GrowFile
<1>2. CASE AppendRejected(p, t)
  <2>1. /\ tasks' \in [Proc -> SUBSET Task] /\ opst' \in [Op -> OpState]
        /\ pc' = pc /\ owner' = owner
        /\ \A q \in Proc : \A u \in tasks'[q] : u \in tasks[q]
    BY <1>0, <1>2, ReplyType DEF AppendRejected, OpState
  <2>2. TypeOK'  BY <1>0, <1>01, <1>2, <2>1 DEF AppendRejected, TypeOK, Ragged
  <2> QED BY <1>00, <1>2, <2>1, <2>2, KeepFile DEF AppendRejected
<1>3. CASE AppendTorn(p, t)
  <2>1. /\ tasks' \in [Proc -> SUBSET Task] /\ opst' \in [Op -> OpState]
        /\ pc' = pc /\ owner' = owner
        /\ \A q \in Proc : \A u \in tasks'[q] : u \in tasks[q]
    BY <1>0, <1>3, ReplyType DEF AppendTorn, OpState
  <2>2. CASE file' = file
    <3>1. TypeOK'  BY <1>0, <1>01, <1>3, <2>1, <2>2 DEF AppendTorn, TypeOK, Ragged
    <3> QED BY <1>00, <1>3, <2>1, <2>2, <3>1, KeepFile DEF AppendTorn
  <2>3. CASE file' = AppendRecord(ResumedState(t).tail, t.event)
    <3>1. /\ ~RejectNewWriteIntent(ScanRecords(Genesis, file), t.event)
          /\ file' = AppendRecord(ScanRecords(Genesis, file).tail, t.event)
          /\ file' \in Seq(Record) /\ Len(file') = Len(file) + 1
      BY <1>3, <2>3, AppendWrites DEF AppendTorn
    <3>2. synced' \in 0..Len(file')
      <4>1. synced' = SyncedByScan  BY <1>3 DEF AppendTorn
      <4> QED BY <1>0, <1>01, <3>1, <4>1, LongerRange
    <3>3. TypeOK'  BY <1>0, <1>3, <2>1, <3>1, <3>2 DEF AppendTorn, TypeOK, Ragged
    <3> QED BY <1>0, <1>3, <2>1, <3>1, <3>3, GrowFile DEF AppendTorn
  <2> QED BY <1>3, <2>2, <2>3 DEF AppendTorn
<1>4. CASE AppendUnsynced(p, t)
  <2>1. /\ tasks' \in [Proc -> SUBSET Task] /\ opst' \in [Op -> OpState]
        /\ pc' = pc /\ owner' = owner
        /\ \A q \in Proc : \A u \in tasks'[q] : u \in tasks[q]
    BY <1>0, <1>4, ReplyType DEF AppendUnsynced, OpState
  <2>2. /\ ~RejectNewWriteIntent(ScanRecords(Genesis, file), t.event)
        /\ file' = AppendRecord(ScanRecords(Genesis, file).tail, t.event)
        /\ file' \in Seq(Record) /\ Len(file') = Len(file) + 1
    BY <1>4, AppendWrites DEF AppendUnsynced
  <2>3. synced' \in 0..Len(file')
    <3>1. synced' = SyncedByScan  BY <1>4 DEF AppendUnsynced
    <3> QED BY <1>0, <1>01, <2>2, <3>1, LongerRange
  <2>4. TypeOK'  BY <1>0, <1>4, <2>1, <2>2, <2>3 DEF AppendUnsynced, TypeOK, Ragged
  <2> QED BY <1>0, <1>4, <2>1, <2>2, <2>4, GrowFile DEF AppendUnsynced
<1>5. CASE AppendFails(p, t)
  <2>1. /\ tasks' \in [Proc -> SUBSET Task] /\ opst' \in [Op -> OpState]
        /\ pc' = pc /\ owner' = owner
        /\ \A q \in Proc : \A u \in tasks'[q] : u \in tasks[q]
    BY <1>0, <1>5, ReplyType DEF AppendFails, OpState
  <2>2. TypeOK'  BY <1>0, <1>5, <2>1 DEF AppendFails, TypeOK, fileVars
  <2> QED BY <1>00, <1>5, <2>1, <2>2, KeepFile DEF AppendFails, fileVars
<1> QED BY <1>1, <1>2, <1>3, <1>4, <1>5 DEF RunAppend

\* The operations a crash orphans keep their types.
LEMMA OrphanedType ==
  ASSUME TypeOK, NEW P
  PROVE  Orphaned(P) \in [Op -> OpState]
BY DEF Orphaned, TypeOK, OpState

\* A process crash preserves JournalInv: its cursors and leases go.
LEMMA CrashStep ==
  ASSUME JournalInv, NEW p \in Proc, Crash(p)
  PROVE  JournalInv'
<1>0. TypeOK  BY DEF JournalInv
<1>00. \A q \in Proc : /\ Faithful(file, slot[q])
                       /\ \A t \in tasks[q] : Faithful(file, t.cursor)
  BY CursorFaithfulPointwise DEF JournalInv
<1>1. opst' \in [Op -> OpState]  BY <1>0, OrphanedType DEF Crash
<1>2. TypeOK'  BY <1>0, <1>1 DEF Crash, TypeOK, PC, fileVars
<1>3. Faithful(file, NoCursor)  BY DEF Faithful
<1>4. \A q \in Proc : /\ slot'[q] = slot[q] \/ slot'[q] = NoCursor
                      /\ \A t \in tasks'[q] : t \in tasks[q]
  BY <1>0 DEF Crash, TypeOK
<1> QED BY <1>00, <1>2, <1>3, <1>4, KeepFile DEF Crash, fileVars

\* A host crash preserves JournalInv: the synced prefix remains.
LEMMA HostCrashStep ==
  ASSUME JournalInv, HostCrash
  PROVE  JournalInv'
<1>0. TypeOK /\ file \in Seq(Record) /\ Len(file) \in Nat
  BY LenProperties DEF JournalInv, TypeOK
<1>1. PICK n \in synced..Len(file) :
         /\ file' = SubSeq(file, 1, n)
         /\ synced' = n
         /\ ragged' \in (IF n < Len(file) THEN {"clean", "partial"}
                        ELSE IF ragged = "partial" THEN {"clean", "partial"} ELSE {ragged})
                       \cup (IF n > synced THEN {"nonewline"} ELSE {})
  BY DEF HostCrash
<1>2. n \in 0..Len(file)  BY <1>0 DEF TypeOK
<1>3. file' \in Seq(Record) /\ Len(file') = n  BY <1>0, <1>1, <1>2, SplitFacts
<1>4. ragged' \in Ragged  BY <1>0, <1>1 DEF TypeOK, Ragged
<1>5. opst' \in [Op -> OpState]  BY <1>0, OrphanedType DEF HostCrash
<1>6. synced' \in 0..Len(file')  BY <1>1, <1>2, <1>3
<1>7. TypeOK'  BY <1>0, <1>3, <1>4, <1>5, <1>6 DEF HostCrash, TypeOK, PC
<1>8. ChainValid(Genesis.tail, file) /\ GatedFile(file)
  BY DEF JournalInv, ChainIntact, GateRespected, GatedFile
<1>9. ChainValid(Genesis.tail, file') /\ GatedFile(file')
  BY <1>0, <1>1, <1>2, <1>8, TruncateKeepsFile
<1>10. \A p \in Proc : slot'[p] = NoCursor /\ tasks'[p] = {}  BY DEF HostCrash
<1>11. CursorFaithful'  BY <1>10 DEF CursorFaithful
<1> QED BY <1>7, <1>9, <1>11 DEF JournalInv, ChainIntact, GateRespected, GatedFile

\* The empty file satisfies JournalInv.
LEMMA JournalInvInit == Init => JournalInv
<1> SUFFICES ASSUME Init PROVE JournalInv
  OBVIOUS
<1>1. file = <<>> /\ <<>> \in Seq(Record) /\ Len(<<>>) = 0  BY EmptySeq DEF Init
<1>2. TypeOK  BY <1>1 DEF Init, TypeOK, Ragged, PC, OpState
<1>3. ChainIntact /\ GateRespected  BY <1>1 DEF ChainIntact, ChainValid, GateRespected
<1>4. CursorFaithful  BY DEF Init, CursorFaithful
<1> QED BY <1>2, <1>3, <1>4 DEF JournalInv

\* Every step preserves JournalInv.
LEMMA JournalInvNext == JournalInv /\ [Next]_vars => JournalInv'
<1> SUFFICES ASSUME JournalInv, [Next]_vars PROVE JournalInv'
  OBVIOUS
<1>1. ASSUME NEW p \in Proc, Open(p) PROVE JournalInv'  BY <1>1, OpenStep
<1>2. ASSUME NEW p \in Proc, Call(p) PROVE JournalInv'  BY <1>2, CallStep
<1>3. ASSUME NEW p \in Proc, NEW t \in tasks[p], DropCaller(p, t) PROVE JournalInv'
  BY <1>3, DropStep
<1>4. ASSUME NEW p \in Proc, NEW t \in tasks[p], RunAppend(p, t) PROVE JournalInv'
  BY <1>4, AppendStep
<1>5. ASSUME NEW p \in Proc, Crash(p) PROVE JournalInv'  BY <1>5, CrashStep
<1>6. CASE HostCrash  BY <1>6, HostCrashStep
<1>7. CASE UNCHANGED vars
  BY <1>7 DEF vars, JournalInv, TypeOK, ChainIntact, CursorFaithful, GateRespected
<1> QED BY <1>1, <1>2, <1>3, <1>4, <1>5, <1>6, <1>7 DEF Next

\* JournalInv, the inductive strengthening of the journal's safety
\* properties, holds in every reachable state.
THEOREM JournalInvariant == Spec => []JournalInv
<1> QED BY JournalInvInit, JournalInvNext, PTL DEF Spec

-----------------------------------------------------------------------------
(* What follows.                                                           *)

\* The variables of the journal always have their types.
THEOREM JournalTypes == Spec => []TypeOK
<1>1. JournalInv => TypeOK  BY DEF JournalInv
<1> QED BY <1>1, JournalInvariant, PTL

\* validate_chain_fields never finds a mismatch: appends by any number of
\* processes, through cached cursors, torn lines and crashes, form one chain.
THEOREM JournalChain == Spec => []ChainIntact
<1>1. JournalInv => ChainIntact  BY DEF JournalInv
<1> QED BY <1>1, JournalInvariant, PTL

\* resume_verified_state may trust the cursor a process kept.
THEOREM JournalCursors == Spec => []CursorFaithful
<1>1. JournalInv => CursorFaithful  BY DEF JournalInv
<1> QED BY <1>1, JournalInvariant, PTL

\* reject_new_write_intent judged every gated intent on disk by the true
\* content of the journal before it.
THEOREM JournalGate == Spec => []GateRespected
<1>1. JournalInv => GateRespected  BY DEF JournalInv
<1> QED BY <1>1, JournalInvariant, PTL

\* At most one gated write per connection scope is pending, in all processes
\* together: of two pending intents the later one met the earlier one in the
\* gate.
THEOREM JournalOneWriteInFlight == Spec => []OneWriteInFlight
<1>1. JournalInv => OneWriteInFlight
  <2> SUFFICES ASSUME JournalInv,
                      NEW o1 \in Pending, NEW o2 \in Pending, o1 # o2,
                      WriteScopeBlocks(ConnOf[o1], ConnOf[o2]),
                      Gated(Intent(o1)), Gated(Intent(o2))
               PROVE  FALSE
    BY DEF OneWriteInFlight
  <2>0. file \in Seq(Record) /\ Len(file) \in Nat
    BY LenProperties DEF JournalInv, TypeOK
  <2>1. ASSUME NEW i \in 1..Len(file), NEW j \in 1..Len(file), i < j,
               NEW a \in Op, NEW b \in Op, WriteScopeBlocks(ConnOf[b], ConnOf[a]),
               Gated(Intent(a)), Gated(Intent(b)),
               file[i].event.op = a, IsIntent(file[i].event),
               \A k \in 1..Len(file) : k > i => ~(file[k].event.op = a /\ EndsIntent(file[k].event)),
               file[j].event.op = b, IsIntent(file[j].event)
        PROVE  FALSE
    <3> DEFINE g == SubSeq(file, 1, j - 1)
    <3>1. j - 1 \in 0..Len(file) /\ i \in 1..(j - 1)  BY <2>0, <2>1, RangeBefore
    <3>2. /\ g \in Seq(Record) /\ Len(g) = j - 1 /\ \A k \in 1..(j - 1) : g[k] = file[k]
      BY <2>0, <3>1, SplitFacts
    <3> HIDE DEF g
    <3>3. \A k \in 1..Len(g) : k > i => ~(g[k].event.op = a /\ EndsIntent(g[k].event))
      <4> SUFFICES ASSUME NEW k \in 1..Len(g), k > i
                   PROVE  ~(g[k].event.op = a /\ EndsIntent(g[k].event))
        OBVIOUS
      <4>1. k \in 1..(j - 1) /\ k \in 1..Len(file)  BY <2>0, <3>1, <3>2
      <4> QED BY <2>1, <3>2, <4>1
    <3>4. a \in PendingAfter({}, g)
      BY <2>1, <3>1, <3>2, <3>3 DEF PendingAfter
    <3>5. a \in ScanRecords(Genesis, g).pending  BY <3>2, <3>4, ScanType
    <3>6. Gated(file[j].event) /\ IsWrite(a)
      BY <2>1 DEF Gated, Intent
    <3>7. BlockedByPending(ScanRecords(Genesis, g), file[j].event)
      BY <2>1, <3>5, <3>6 DEF BlockedByPending
    <3> QED BY <3>7 DEF JournalInv, GateRespected, RejectNewWriteIntent, g
  <2>2. o1 \in Op /\ o2 \in Op  BY DEF Pending, PendingAfter
  <2>3. PICK i \in 1..Len(file) :
          /\ file[i].event.op = o1 /\ IsIntent(file[i].event)
          /\ \A k \in 1..Len(file) : k > i => ~(file[k].event.op = o1 /\ EndsIntent(file[k].event))
    BY DEF Pending, PendingAfter
  <2>4. PICK j \in 1..Len(file) :
          /\ file[j].event.op = o2 /\ IsIntent(file[j].event)
          /\ \A k \in 1..Len(file) : k > j => ~(file[k].event.op = o2 /\ EndsIntent(file[k].event))
    BY DEF Pending, PendingAfter
  <2>5. WriteScopeBlocks(ConnOf[o2], ConnOf[o1])  BY DEF WriteScopeBlocks
  <2>6. i # j  BY <2>3, <2>4
  <2>7. CASE i < j  BY <2>1, <2>2, <2>3, <2>4, <2>5, <2>7
  <2>8. CASE j < i  BY <2>1, <2>2, <2>3, <2>4, <2>8
  <2> QED BY <2>0, <2>6, <2>7, <2>8
<1> QED BY <1>1, JournalInvariant, PTL

-----------------------------------------------------------------------------
(* Durability.                                                             *)

\* The synced prefix of the file never shrinks and never changes, and an
\* acknowledgement of a durable event comes with its sync.
SyncedKept ==
  /\ synced <= synced'
  /\ \A i \in 1..synced : file'[i] = file[i]
  /\ \A e \in acked' : \/ e \in acked
                       \/ ~Durable(e)
                       \/ /\ synced' = Len(file') /\ Len(file') \in 1..Len(file')
                          /\ file'[Len(file')].event = e

\* No step takes back synced records, a host crash included.
LEMMA SyncedStep ==
  ASSUME JournalInv, [Next]_vars
  PROVE  SyncedKept
<1>0. /\ file \in Seq(Record) /\ Len(file) \in Nat /\ synced \in Nat
      /\ synced <= Len(file)
  BY LenProperties DEF JournalInv, TypeOK
<1>1. SyncedByScan \in Nat /\ synced <= SyncedByScan /\ SyncedByScan <= Len(file)
  BY <1>0 DEF SyncedByScan
<1>2. ASSUME file' = file, acked' = acked, synced' \in Nat, synced <= synced' PROVE SyncedKept
  BY <1>2 DEF SyncedKept
<1>3. ASSUME NEW r \in Record, file' = Append(file, r)
      PROVE  /\ \A i \in 1..synced : file'[i] = file[i]
             /\ Len(file') = Len(file) + 1 /\ file'[Len(file')] = r
  <2>1. /\ Len(file') = Len(file) + 1 /\ file'[Len(file) + 1] = r
        /\ \A i \in 1..Len(file) : file'[i] = file[i]
    BY <1>0, <1>3, AppendFacts
  <2> QED BY <1>0, <2>1
<1>4. ASSUME NEW p \in Proc, Open(p) PROVE SyncedKept
  <2>1. CASE TryOpen(p) \/ AcquireShared(p) \/ VerifyShared(p) \/ FinishOpen(p)
    <3>1. file' = file /\ acked' = acked /\ synced' = synced
      BY <2>1 DEF TryOpen, AcquireShared, VerifyShared, FinishOpen, fileVars, callerVars
    <3> QED BY <1>0, <1>2, <3>1
  <2>2. CASE RepairTail(p)
    <3>1. file' = file /\ acked' = acked /\ synced' \in {synced, Len(file)}
      BY <2>2 DEF RepairTail, callerVars
    <3> QED BY <1>0, <1>2, <3>1
  <2>3. ASSUME NEW o \in Pending, RecoveryLine(o), acked' = acked, synced' \in {synced, Len(file')}
        PROVE  SyncedKept
    <3>1. PICK r \in Record : file' = Append(file, r)  BY <2>3, RecoveryWrites
    <3>2. Len(file') = Len(file) + 1 /\ \A i \in 1..synced : file'[i] = file[i]
      BY <1>3, <3>1
    <3>3. synced <= synced'  BY <1>0, <2>3, <3>2
    <3> QED BY <2>3, <3>2, <3>3 DEF SyncedKept
  <2>4. CASE RecoverIntent(p)  BY <2>3, <2>4 DEF RecoverIntent, RecoveryLine, callerVars
  <2>5. CASE RecoverFails(p)
    <3>1. acked' = acked /\ synced' = synced  BY <2>5 DEF RecoverFails, callerVars
    <3>2. CASE file' = file  BY <1>0, <1>2, <3>1, <3>2
    <3> QED BY <2>3, <2>5, <3>1, <3>2 DEF RecoverFails, RecoveryLine
  <2> QED BY <1>4, <2>1, <2>2, <2>4, <2>5 DEF Open
<1>5. ASSUME NEW p \in Proc, Call(p) PROVE SyncedKept
  <2>1. file' = file /\ acked' = acked /\ synced' = synced
    BY <1>5 DEF Call, BeginIntent, BeginOutcome, BeginPage, fileVars
  <2> QED BY <1>0, <1>2, <2>1
<1>6. ASSUME NEW p \in Proc, NEW t \in tasks[p], DropCaller(p, t) PROVE SyncedKept
  <2>1. file' = file /\ acked' = acked /\ synced' = synced
    BY <1>6 DEF DropCaller, fileVars
  <2> QED BY <1>0, <1>2, <2>1
<1>7. ASSUME NEW p \in Proc, NEW t \in tasks[p], RunAppend(p, t) PROVE SyncedKept
  <2>1. CASE AppendRejected(p, t) \/ AppendFails(p, t) \/ (AppendTorn(p, t) /\ file' = file)
    <3>1. file' = file /\ acked' = acked /\ synced' \in {synced, SyncedByScan}
      BY <2>1 DEF AppendRejected, AppendFails, AppendTorn, fileVars
    <3> QED BY <1>0, <1>1, <1>2, <3>1
  <2>2. ASSUME ~RejectNewWriteIntent(ResumedState(t), t.event),
               file' = AppendRecord(ResumedState(t).tail, t.event)
        PROVE  /\ \A i \in 1..synced : file'[i] = file[i]
               /\ Len(file') = Len(file) + 1 /\ file'[Len(file')].event = t.event
    <3>1. /\ file' = Append(file, NewRecord(ScanRecords(Genesis, file), t.event))
          /\ NewRecord(ScanRecords(Genesis, file), t.event) \in Record
          /\ file'[Len(file')].event = t.event
      BY <2>2, AppendWrites
    <3> QED BY <1>3, <3>1
  <2>3. CASE AppendUnsynced(p, t) \/ (AppendTorn(p, t) /\ file' # file)
    <3>1. acked' = acked /\ synced' = SyncedByScan
      BY <2>3 DEF AppendUnsynced, AppendTorn
    <3>2. \A i \in 1..synced : file'[i] = file[i]
      BY <2>2, <2>3 DEF AppendUnsynced, AppendTorn
    <3> QED BY <1>0, <1>1, <3>1, <3>2 DEF SyncedKept
  <2>4. CASE AppendSucceeds(p, t)
    <3>1. /\ \A i \in 1..synced : file'[i] = file[i]
          /\ Len(file') = Len(file) + 1 /\ file'[Len(file')].event = t.event
      BY <2>2, <2>4 DEF AppendSucceeds
    <3>2. synced' \in {Len(file'), SyncedByScan} /\ (Durable(t.event) => synced' = Len(file'))
      BY <2>4 DEF AppendSucceeds
    <3>3. synced <= synced' /\ Len(file') \in 1..Len(file')
      <4>1. \A m, n, s, x \in Nat : s <= m /\ s <= x /\ n = m + 1 => s <= n /\ n \in 1..n
        OBVIOUS
      <4>2. Len(file') \in Nat  BY <1>0, <3>1
      <4> QED BY <1>0, <1>1, <3>1, <3>2, <4>1, <4>2
    <3>4. \A e \in acked' : e \in acked \/ e = t.event  BY <2>4 DEF AppendSucceeds
    <3> QED BY <3>1, <3>2, <3>3, <3>4 DEF SyncedKept
  <2> QED BY <1>7, <2>1, <2>3, <2>4 DEF RunAppend
<1>8. ASSUME NEW p \in Proc, Crash(p) PROVE SyncedKept
  <2>1. file' = file /\ acked' = acked /\ synced' = synced
    BY <1>8 DEF Crash, fileVars
  <2> QED BY <1>0, <1>2, <2>1
<1>9. CASE HostCrash
  <2>1. PICK n \in synced..Len(file) : file' = SubSeq(file, 1, n) /\ synced' = n
    BY <1>9 DEF HostCrash
  <2>2. n \in 0..Len(file) /\ synced <= n  BY <1>0
  <2>3. \A i \in 1..n : file'[i] = file[i]  BY <1>0, <2>1, <2>2, SplitFacts
  <2>4. \A i \in 1..synced : file'[i] = file[i]  BY <1>0, <2>2, <2>3
  <2>5. acked' = acked  BY <1>9 DEF HostCrash
  <2> QED BY <2>1, <2>2, <2>4, <2>5 DEF SyncedKept
<1>10. CASE UNCHANGED vars
  <2>1. file' = file /\ acked' = acked /\ synced' = synced  BY <1>10 DEF vars
  <2> QED BY <1>0, <1>2, <2>1
<1> QED BY <1>4, <1>5, <1>6, <1>7, <1>8, <1>9, <1>10 DEF Next

\* What a caller was told is recorded durably survives a crash of the host.
THEOREM JournalDurability == Spec => []AcknowledgedIsDurable
<1>1. Init => AcknowledgedIsDurable  BY DEF Init, AcknowledgedIsDurable
<1>2. JournalInv /\ JournalInv' /\ AcknowledgedIsDurable /\ [Next]_vars => AcknowledgedIsDurable'
  <2> SUFFICES ASSUME JournalInv, JournalInv', AcknowledgedIsDurable, [Next]_vars,
                      NEW e \in acked', Durable(e)
               PROVE  \E i \in 1..synced' : file'[i].event = e
    BY DEF AcknowledgedIsDurable, Durable
  <2>0. synced \in Nat /\ synced' \in Nat
    BY LenProperties DEF JournalInv, TypeOK
  <2>1. CASE e \in acked
    <3>1. PICK i \in 1..synced : file[i].event = e  BY <2>1 DEF AcknowledgedIsDurable
    <3>2. synced <= synced' /\ file'[i] = file[i]  BY SyncedStep DEF SyncedKept
    <3>3. i \in 1..synced'  BY <2>0, <3>2
    <3> QED BY <3>1, <3>2, <3>3
  <2>2. CASE e \notin acked  BY <2>2, SyncedStep DEF SyncedKept
  <2> QED BY <2>1, <2>2
<1> QED BY <1>1, <1>2, JournalInvariant, PTL DEF Spec

-----------------------------------------------------------------------------
(* Nothing unsettled disappears.                                           *)

\* Only a read delivers pages, so an outcome record of a write settles it.
PageIsRead(e) == IsOutcome(e) /\ e.status = "pending" => ~IsWrite(e.op)
PagesAreReads ==
  /\ \A i \in 1..Len(file) : PageIsRead(file[i].event)
  /\ \A p \in Proc : \A t \in tasks[p] : PageIsRead(t.event)

\* No page has been delivered at the start.
LEMMA PagesInit == Init => PagesAreReads
<1> SUFFICES ASSUME Init PROVE PagesAreReads
  OBVIOUS
<1>1. file = <<>> /\ Len(<<>>) = 0  BY EmptySeq DEF Init
<1> QED BY <1>1 DEF Init, PagesAreReads

\* Only reads deliver pages.
LEMMA PagesStep ==
  ASSUME JournalInv, PagesAreReads, [Next]_vars
  PROVE  PagesAreReads'
<1>0. /\ file \in Seq(Record) /\ Len(file) \in Nat /\ TypeOK
  BY LenProperties DEF JournalInv, TypeOK
<1>1. ASSUME NEW r \in Record, file' = Append(file, r), PageIsRead(r.event)
      PROVE  \A i \in 1..Len(file') : PageIsRead(file'[i].event)
  <2>1. /\ Len(file') = Len(file) + 1 /\ file'[Len(file) + 1] = r
        /\ \A i \in 1..Len(file) : file'[i] = file[i]
    BY <1>0, <1>1, AppendFacts
  <2>2. \A i \in 1..Len(file') : i \in 1..Len(file) \/ i = Len(file) + 1  BY <1>0, <2>1
  <2> QED BY <1>1, <2>1, <2>2 DEF PagesAreReads
<1>2. ASSUME file' = file, tasks' = tasks PROVE PagesAreReads'
  BY <1>2 DEF PagesAreReads
<1>3. ASSUME NEW p \in Proc, Open(p) PROVE PagesAreReads'
  <2>1. tasks' = tasks
    BY <1>3 DEF Open, TryOpen, AcquireShared, VerifyShared, RepairTail, RecoverIntent,
                RecoverFails, FinishOpen
  <2>2. CASE file' = file  BY <1>2, <2>1, <2>2
  <2>3. ASSUME NEW o \in Pending, RecoveryLine(o) PROVE PagesAreReads'
    <3>1. PICK r \in Record : file' = Append(file, r) /\ r.event = Outcome(o, "recovered")
      BY <2>3, RecoveryWrites
    <3>2. PageIsRead(r.event)  BY <3>1 DEF PageIsRead, Outcome
    <3>3. \A i \in 1..Len(file') : PageIsRead(file'[i].event)  BY <1>1, <3>1, <3>2
    <3> QED BY <2>1, <3>3 DEF PagesAreReads
  <2>4. file' = file \/ \E o \in Pending : RecoveryLine(o)
    BY <1>3 DEF Open, TryOpen, AcquireShared, VerifyShared, RepairTail, RecoverIntent, RecoverFails,
                FinishOpen, fileVars, RecoveryLine
  <2> QED BY <2>2, <2>3, <2>4
<1>4. ASSUME NEW p \in Proc, Call(p) PROVE PagesAreReads'
  <2>1. ASSUME NEW e, StartAppend(p, e), PageIsRead(e), file' = file PROVE PagesAreReads'
    <3>1. \A q \in Proc : \A t \in tasks'[q] : t \in tasks[q] \/ t.event = e
      <4> DEFINE u == [event |-> e, cursor |-> slot[p], attached |-> TRUE]
      <4>1. tasks \in [Proc -> SUBSET Task]  BY <1>0 DEF TypeOK
      <4>2. tasks' = [tasks EXCEPT ![p] = @ \cup {u}]  BY <2>1 DEF StartAppend
      <4>3. u.event = e  OBVIOUS
      <4> HIDE DEF u
      <4> QED BY <4>1, <4>2, <4>3
    <3> QED BY <2>1, <3>1 DEF PagesAreReads
  <2>2. ASSUME NEW o \in Op, BeginIntent(p, o) PROVE PagesAreReads'
    <3>1. PageIsRead(Intent(o))  BY DEF PageIsRead, Intent, IsOutcome
    <3> QED BY <2>1, <2>2, <3>1 DEF BeginIntent, fileVars
  <2>3. ASSUME NEW o \in Op, BeginOutcome(p, o) PROVE PagesAreReads'
    <3>1. PICK x \in {"succeeded", "unknown", "denied"} : StartAppend(p, Outcome(o, x))
      BY <2>3 DEF BeginOutcome
    <3>2. PageIsRead(Outcome(o, x))  BY DEF PageIsRead, Outcome
    <3> QED BY <2>1, <2>3, <3>1, <3>2 DEF BeginOutcome, fileVars
  <2>4. ASSUME NEW o \in Op, BeginPage(p, o) PROVE PagesAreReads'
    <3>1. PageIsRead(Outcome(o, "pending"))  BY <2>4 DEF BeginPage, PageIsRead, Outcome
    <3> QED BY <2>1, <2>4, <3>1 DEF BeginPage, fileVars
  <2> QED BY <1>4, <2>2, <2>3, <2>4 DEF Call
<1>5. ASSUME NEW p \in Proc, NEW t \in tasks[p], DropCaller(p, t) PROVE PagesAreReads'
  <2> DEFINE d == [t EXCEPT !.attached = FALSE]
  <2>1. d.event = t.event  BY <1>0 DEF TypeOK, Task
  <2> HIDE DEF d
  <2>2. tasks' = [tasks EXCEPT ![p] = (@ \ {t}) \cup {d}]  BY <1>5 DEF DropCaller, d
  <2>3. \A q \in Proc : \A u \in tasks'[q] : u \in tasks[q] \/ u.event = t.event
    BY <1>0, <2>1, <2>2 DEF TypeOK
  <2> QED BY <1>5, <2>3 DEF DropCaller, fileVars, PagesAreReads
<1>6. ASSUME NEW p \in Proc, NEW t \in tasks[p], RunAppend(p, t) PROVE PagesAreReads'
  <2>1. \A q \in Proc : \A u \in tasks'[q] : u \in tasks[q]
    BY <1>0, <1>6 DEF RunAppend, AppendSucceeds, AppendRejected, AppendTorn, AppendUnsynced,
                      AppendFails, Reply, TypeOK
  <2>2. \/ file' = file
        \/ /\ ~RejectNewWriteIntent(ResumedState(t), t.event)
           /\ file' = AppendRecord(ResumedState(t).tail, t.event)
    BY <1>6 DEF RunAppend, AppendSucceeds, AppendRejected, AppendTorn, AppendUnsynced,
                AppendFails, fileVars
  <2>3. \A i \in 1..Len(file') : PageIsRead(file'[i].event)
    <3>1. CASE file' = file  BY <3>1 DEF PagesAreReads
    <3>2. CASE /\ ~RejectNewWriteIntent(ResumedState(t), t.event)
               /\ file' = AppendRecord(ResumedState(t).tail, t.event)
      <4> DEFINE r == NewRecord(ScanRecords(Genesis, file), t.event)
      <4>1. file' = Append(file, r) /\ r \in Record  BY <3>2, AppendWrites
      <4>2. PageIsRead(r.event)  BY DEF NewRecord, PagesAreReads
      <4> HIDE DEF r
      <4> QED BY <1>1, <4>1, <4>2
    <3> QED BY <2>2, <3>1, <3>2
  <2> QED BY <2>1, <2>3 DEF PagesAreReads
<1>7. ASSUME NEW p \in Proc, Crash(p) PROVE PagesAreReads'
  <2>1. file' = file /\ \A q \in Proc : \A t \in tasks'[q] : t \in tasks[q]
    BY <1>0, <1>7 DEF Crash, TypeOK, fileVars
  <2> QED BY <2>1 DEF PagesAreReads
<1>8. CASE HostCrash
  <2>1. PICK n \in synced..Len(file) : file' = SubSeq(file, 1, n)  BY <1>8 DEF HostCrash
  <2>2. n \in 0..Len(file)  BY <1>0 DEF TypeOK
  <2>3. Len(file') = n /\ \A i \in 1..n : file'[i] = file[i]  BY <1>0, <2>1, <2>2, SplitFacts
  <2>4. \A i \in 1..Len(file') : i \in 1..Len(file) /\ file'[i] = file[i]
    BY <1>0, <2>2, <2>3, ShorterRange
  <2>5. \A p \in Proc : tasks'[p] = {}  BY <1>8 DEF HostCrash
  <2> QED BY <2>4, <2>5 DEF PagesAreReads
<1>9. CASE UNCHANGED vars  BY <1>2, <1>9 DEF vars
<1> QED BY <1>3, <1>4, <1>5, <1>6, <1>7, <1>8, <1>9 DEF Next

\* A non-empty set of positions has a last one.
LEMMA LastPosition ==
  ASSUME NEW n \in Nat, NEW S \in SUBSET (1..n), S # {}
  PROVE  \E m \in S : \A k \in S : k <= m
<1> DEFINE T == {x \in Nat : \E j \in S : x = n - j}
<1>0. \A j \in S : n - j \in T  OBVIOUS
<1>1. T \subseteq Nat /\ T # {}  BY <1>0
<1>2. PICK x \in T : \A y \in T : ~(<<y, x>> \in OpToRel(<, Nat))
  <2> HIDE DEF T
  <2> QED BY <1>1, WFMin, NatLessThanWellFounded
<1>3. \A y \in T : ~(y < x)  BY <1>1, <1>2 DEF OpToRel
<1>4. PICK m \in S : x = n - m  BY <1>2
<1>5. ASSUME NEW k \in S PROVE k <= m
  <2>1. ~(n - k < n - m)  BY <1>0, <1>3, <1>4
  <2> QED BY <2>1
<1> QED BY <1>4, <1>5

\* An acknowledged intent that nobody settled is pending, or on record as
\* unknown and, for a write, still in the way of its scope.
THEOREM JournalUnsettledVisible == Spec => []UnsettledVisible
<1>1. JournalInv /\ AcknowledgedIsDurable /\ PagesAreReads => UnsettledVisible
  <2> SUFFICES ASSUME JournalInv, AcknowledgedIsDurable, PagesAreReads,
                      NEW o \in Op, Intent(o) \in acked,
                      \A i \in 1..Len(file) :
                         ~(file[i].event.op = o /\ file[i].event.status \in {"succeeded", "denied"}),
                      o \notin Pending
               PROVE  IF IsWrite(o) THEN o \in Unresolved
                      ELSE \E i \in 1..Len(file) :
                              file[i].event \in {Outcome(o, "unknown"), Outcome(o, "recovered")}
    BY DEF UnsettledVisible
  <2>0. /\ file \in Seq(Record) /\ Len(file) \in Nat /\ synced \in 0..Len(file)
        /\ \A k \in 1..Len(file) : file[k].event \in Event
    <3>1. file \in Seq(Record) /\ synced \in 0..Len(file)  BY DEF JournalInv, TypeOK
    <3>2. \A k \in 1..Len(file) : file[k] \in Record  BY <3>1, ElementOfSeq
    <3> QED BY <3>1, <3>2, LenProperties DEF Record
  <2>1. PICK i \in 1..Len(file) : file[i].event = Intent(o)
    <3>1. Durable(Intent(o))  BY DEF Durable, Intent, IsIntent
    <3>2. PICK i \in 1..synced : file[i].event = Intent(o)  BY <3>1 DEF AcknowledgedIsDurable
    <3>3. i \in 1..Len(file)  BY <2>0
    <3> QED BY <3>2, <3>3
  <2>2. PICK k \in 1..Len(file) : file[k].event.op = o /\ EndsIntent(file[k].event)
    <3>1. file[i].event.op = o /\ IsIntent(file[i].event)
      <4>1. Intent(o).op = o /\ IsIntent(Intent(o))  BY Zenon DEF Intent, IsIntent
      <4> QED BY <2>1, <4>1, Zenon
    <3>2. o \notin PendingAfter({}, file)  BY DEF Pending
    <3> QED BY <3>1, <3>2 DEF PendingAfter
  <2>3. CASE ~IsWrite(o)
    <3>1. file[k].event \in Event /\ IsOutcome(file[k].event) /\ file[k].event.op = o
          /\ file[k].event.status \notin {"pending", "succeeded", "denied"}
      BY <2>0, <2>2 DEF EndsIntent
    <3>2. file[k].event \in {Outcome(o, "unknown"), Outcome(o, "recovered")}
      BY <3>1 DEF Event, Status, IsOutcome, Outcome
    <3> QED BY <2>3, <3>2
  <2>4. CASE IsWrite(o)
    <3> DEFINE S == {j \in 1..Len(file) : file[j].event.op = o /\ IsOutcome(file[j].event)}
    <3>1. S \in SUBSET (1..Len(file)) /\ S # {}  BY <2>2 DEF EndsIntent
    <3>2. PICK m \in S : \A j \in S : j <= m
      <4> HIDE DEF S
      <4> QED BY <2>0, <3>1, LastPosition
    <3>3. \A j \in 1..Len(file) : j > m => ~(file[j].event.op = o /\ IsOutcome(file[j].event))
      <4>1. SUFFICES ASSUME NEW j \in 1..Len(file), j > m, j \in S  PROVE FALSE
        OBVIOUS
      <4>2. j <= m  BY <3>2, <4>1
      <4>3. j \in Int /\ m \in Int
        <5>1. m \in 1..Len(file)  BY <3>2
        <5> HIDE DEF S
        <5> QED BY <2>0, <5>1
      <4> QED BY <4>1, <4>2, <4>3, NotAfter
    <3>4. m \in 1..Len(file) /\ file[m].event.op = o /\ IsOutcome(file[m].event)
      BY <3>2
    <3>5. file[m].event.status # "pending"  BY <2>4, <3>4 DEF PagesAreReads, PageIsRead
    <3>6. file[m].event.status \in {"unknown", "recovered"}
      <4>1. file[m].event \in Event  BY <2>0, <3>4
      <4>2. file[m].event.status \in Status  BY <4>1 DEF Event, Status
      <4>3. file[m].event.status \notin {"succeeded", "denied"}  BY <3>4
      <4> QED BY <3>5, <4>2, <4>3 DEF Status
    <3>7. LeavesUnknown(file[m].event)  BY <2>4, <3>4, <3>6 DEF LeavesUnknown
    <3>8. o \in Unresolved  BY <3>3, <3>4, <3>7 DEF Unresolved, UnresolvedAfter
    <3> QED BY <2>4, <3>8
  <2> QED BY <2>3, <2>4
<1>2. Spec => []PagesAreReads  BY PagesInit, PagesStep, JournalInvariant, PTL DEF Spec
<1> QED BY <1>1, <1>2, JournalInvariant, JournalDurability, PTL

-----------------------------------------------------------------------------
(***************************************************************************)
(* Recovery leaves the operations of live processes alone.  A process      *)
(* that recovers holds the active lock exclusively (Leases), so no process *)
(* is up that could own a busy operation (Owners); and an operation once   *)
(* recovered never becomes busy, since only an idle one can start and an   *)
(* idle one has no record (Handed, Recorded).                              *)
(***************************************************************************)

Busy == {"intending", "live", "refused", "settling"}

Leases ==
  \A p, q \in Proc : p # q /\ ActiveExclusive(p) => pc[q] \in {"down", "waitShared"}
Owners ==
  \A o \in Op : opst[o] \in Busy => owner[o] \in Proc /\ pc[owner[o]] = "up"
HandedOver(p, t) ==
  /\ pc[p] = "up" /\ t.event.status # "recovered" /\ opst[t.event.op] # "idle"
  /\ t.attached => /\ opst[t.event.op] \in {"intending", "settling"} /\ owner[t.event.op] = p
                   /\ \A u \in tasks[p] : u.attached => u = t
Handed == \A p \in Proc : \A t \in tasks[p] : HandedOver(p, t)
Recorded(e, st) == st[e.op] # "idle" /\ (e.status = "recovered" => st[e.op] \notin Busy)
AllRecorded == \A i \in 1..Len(file) : Recorded(file[i].event, opst)
LeaseInv == Leases /\ Owners /\ Handed /\ AllRecorded

\* Nothing is owned, handed over or recorded at the start.
LEMMA LeaseInit == Init => LeaseInv
<1> SUFFICES ASSUME Init PROVE LeaseInv
  OBVIOUS
<1>1. file = <<>> /\ Len(<<>>) = 0  BY EmptySeq DEF Init
<1>2. Leases /\ Owners  BY DEF Init, Leases, Owners, Busy, ActiveExclusive
<1>3. Handed  BY DEF Init, Handed
<1>4. AllRecorded  BY <1>1 DEF AllRecorded
<1> QED BY <1>2, <1>3, <1>4 DEF LeaseInv

\* A new record that is in order, over operation states that keep the old
\* records in order, leaves every record in order.
LEMMA GrowRecorded ==
  ASSUME JournalInv, NEW r \in Record, file' = Append(file, r),
         Recorded(r.event, opst'),
         \A i \in 1..Len(file) : Recorded(file[i].event, opst')
  PROVE  AllRecorded'
<1>0. file \in Seq(Record) /\ Len(file) \in Nat  BY LenProperties DEF JournalInv, TypeOK
<1>1. /\ Len(file') = Len(file) + 1 /\ file'[Len(file) + 1] = r
      /\ \A i \in 1..Len(file) : file'[i] = file[i]
  BY <1>0, AppendFacts
<1>2. \A i \in 1..Len(file') : i \in 1..Len(file) \/ i = Len(file) + 1  BY <1>0, <1>1
<1> QED BY <1>1, <1>2 DEF AllRecorded

\* Every record on file is of an operation.
LEMMA RecordOps ==
  ASSUME TypeOK
  PROVE  /\ \A i \in 1..Len(file) : file[i].event.op \in Op
         /\ \A p \in Proc : \A t \in tasks[p] : t \in Task /\ t.event \in Event /\ t.event.op \in Op
<1>1. \A i \in 1..Len(file) : file[i] \in Record  BY ElementOfSeq DEF TypeOK
<1>2. \A i \in 1..Len(file) : file[i].event \in Event  BY <1>1 DEF Record
<1>3. \A p \in Proc : \A t \in tasks[p] : t \in Task  BY DEF TypeOK
<1>4. \A t \in Task : t.event \in Event  BY DEF Task
<1> QED BY <1>2, <1>3, <1>4, EventFacts

\* Opening: the locks keep the leases apart, and what recovery settles is of
\* no process that is up.
LEMMA LeaseOpen ==
  ASSUME JournalInv, LeaseInv, NEW p \in Proc, Open(p)
  PROVE  LeaseInv'
<1>0. TypeOK /\ pc \in [Proc -> PC]  BY DEF JournalInv, TypeOK
<1>1. UNCHANGED <<tasks, opst, owner>>
  BY DEF Open, TryOpen, AcquireShared, VerifyShared, RepairTail, RecoverIntent, RecoverFails,
         FinishOpen, callerVars
<1>2. \A q \in Proc : pc[q] = "up" => pc'[q] = "up"
  BY <1>0 DEF Open, TryOpen, AcquireShared, VerifyShared, RepairTail, RecoverIntent, RecoverFails, FinishOpen
<1>3. Leases'
  <2> USE DEF LeaseInv, Leases, ActiveExclusive
  <2>1. CASE TryOpen(p)
    BY <1>0, <2>1 DEF TryOpen, InitLockFree, ActiveShared, PC
  <2>2. CASE AcquireShared(p)  BY <1>0, <2>2 DEF AcquireShared
  <2>3. CASE VerifyShared(p)  BY <1>0, <2>3 DEF VerifyShared, InitLockFree
  <2>4. CASE RepairTail(p)  BY <1>0, <2>4 DEF RepairTail
  <2>5. CASE RecoverIntent(p)  BY <1>0, <2>5 DEF RecoverIntent
  <2>6. CASE RecoverFails(p)  BY <1>0, <2>6 DEF RecoverFails
  <2>7. CASE FinishOpen(p)  BY <1>0, <2>7 DEF FinishOpen
  <2> QED BY <2>1, <2>2, <2>3, <2>4, <2>5, <2>6, <2>7 DEF Open
<1>4. Owners'  BY <1>1, <1>2 DEF LeaseInv, Owners
<1>5. Handed'
  <2> SUFFICES ASSUME NEW q \in Proc, NEW t \in tasks[q] PROVE HandedOver(q, t)'
    BY <1>1 DEF Handed
  <2>1. HandedOver(q, t)  BY DEF LeaseInv, Handed
  <2> QED BY <1>1, <1>2, <2>1 DEF HandedOver
<1>6. CASE file' = file  BY <1>1, <1>3, <1>4, <1>5, <1>6 DEF LeaseInv, AllRecorded
<1>7. ASSUME NEW o \in Pending, RecoveryLine(o), pc[p] = "recover" PROVE LeaseInv'
  <2>1. o \in Op /\ \E i \in 1..Len(file) : file[i].event.op = o  BY <1>7, RecoveryWrites
  <2>2. PICK r \in Record : file' = Append(file, r) /\ r.event = Outcome(o, "recovered")
    BY <1>7, RecoveryWrites
  <2>3. r.event.op = o  BY <2>2 DEF Outcome
  <2>4. opst[o] # "idle"  BY <2>1 DEF LeaseInv, AllRecorded, Recorded
  <2>5. opst[o] \notin Busy
    <3>1. \A q \in Proc : pc[q] # "up"  BY <1>7 DEF LeaseInv, Leases, ActiveExclusive
    <3> QED BY <2>1, <3>1 DEF LeaseInv, Owners
  <2>6. AllRecorded'
    BY <1>1, <2>2, <2>3, <2>4, <2>5, GrowRecorded DEF LeaseInv, AllRecorded, Recorded
  <2> QED BY <1>3, <1>4, <1>5, <2>6 DEF LeaseInv
<1>8. file' = file \/ (pc[p] = "recover" /\ \E o \in Pending : RecoveryLine(o))
  BY DEF Open, TryOpen, AcquireShared, VerifyShared, RepairTail, RecoverIntent, RecoverFails,
         FinishOpen, fileVars, RecoveryLine
<1> QED BY <1>6, <1>7, <1>8

\* A caller starts an idle operation, which has no record, or goes on with
\* its own.
LEMMA LeaseStart ==
  ASSUME JournalInv, LeaseInv, NEW p \in Proc, NEW o \in Op, NEW e, NEW st \in {"intending", "settling"},
         opst[o] \in {"idle", "live", "refused"}, opst[o] # "idle" => owner[o] = p,
         e.op = o, e.status # "recovered",
         StartAppend(p, e), opst' = [opst EXCEPT ![o] = st], owner' = [owner EXCEPT ![o] = p],
         UNCHANGED <<file, pc>>
  PROVE  LeaseInv'
<1>0. TypeOK  BY DEF JournalInv
<1> DEFINE n == [event |-> e, cursor |-> slot[p], attached |-> TRUE]
<1>1. n.event = e /\ n.attached = TRUE  OBVIOUS
<1>2. /\ pc[p] = "up" /\ \A t \in tasks[p] : ~t.attached
      /\ tasks' = [tasks EXCEPT ![p] = @ \cup {n}]
  BY DEF StartAppend
<1> HIDE DEF n
<1>3. /\ \A x \in Op : x # o => opst'[x] = opst[x] /\ owner'[x] = owner[x]
      /\ opst'[o] = st /\ owner'[o] = p
  BY <1>0 DEF TypeOK
<1>4. /\ tasks'[p] = tasks[p] \cup {n}
      /\ \A q \in Proc : q # p => tasks'[q] = tasks[q]
  BY <1>0, <1>2 DEF TypeOK
<1>5. Leases'  BY DEF LeaseInv, Leases, ActiveExclusive
<1>6. Owners'  BY <1>2, <1>3 DEF LeaseInv, Owners
<1>7. ASSUME NEW q \in Proc, NEW t \in tasks'[q] PROVE HandedOver(q, t)'
  <2>1. CASE t \in tasks[q]
    <3>1. t.event.op \in Op /\ HandedOver(q, t)  BY <1>0, <2>1, RecordOps DEF LeaseInv, Handed
    <3>2. t.attached => q # p /\ t.event.op # o  BY <1>2, <2>1, <3>1 DEF HandedOver
    <3>3. opst'[t.event.op] # "idle"  BY <1>3, <3>1 DEF HandedOver
    <3> QED BY <1>3, <1>4, <3>1, <3>2, <3>3 DEF HandedOver
  <2>2. CASE t = n /\ q = p
    BY <1>1, <1>2, <1>3, <1>4, <2>2 DEF HandedOver
  <2> QED BY <1>4, <1>7, <2>1, <2>2
<1>8. AllRecorded'
  <2>1. ASSUME NEW i \in 1..Len(file) PROVE Recorded(file[i].event, opst')
    <3>1. file[i].event.op \in Op /\ Recorded(file[i].event, opst)
      BY <1>0, RecordOps DEF LeaseInv, AllRecorded
    <3> QED BY <1>3, <3>1 DEF Recorded, Busy
  <2> QED BY <2>1 DEF AllRecorded
<1> QED BY <1>5, <1>6, <1>7, <1>8 DEF LeaseInv, Handed

\* The three calls of the guard.
LEMMA LeaseCall ==
  ASSUME JournalInv, LeaseInv, NEW p \in Proc, Call(p)
  PROVE  LeaseInv'
<1>0. TypeOK  BY DEF JournalInv
<1>1. ASSUME NEW o \in Op, BeginIntent(p, o) PROVE LeaseInv'
  <2>1. Intent(o).op = o /\ Intent(o).status # "recovered"  BY DEF Intent
  <2> QED BY <1>1, <2>1, LeaseStart DEF BeginIntent, fileVars
<1>2. ASSUME NEW o \in Op, BeginOutcome(p, o) PROVE LeaseInv'
  <2>1. PICK x \in {"succeeded", "unknown", "denied"} : StartAppend(p, Outcome(o, x))
    BY <1>2 DEF BeginOutcome
  <2>2. Outcome(o, x).op = o /\ Outcome(o, x).status # "recovered"  BY DEF Outcome
  <2>3. opst[o] \in {"idle", "live", "refused"} /\ (opst[o] # "idle" => owner[o] = p)
    BY <1>2 DEF BeginOutcome
  <2>4. /\ opst' = [opst EXCEPT ![o] = "settling"] /\ owner' = [owner EXCEPT ![o] = p]
        /\ UNCHANGED <<file, pc>>
    BY <1>2 DEF BeginOutcome, fileVars
  <2> QED BY <2>1, <2>2, <2>3, <2>4, LeaseStart
<1>3. ASSUME NEW o \in Op, BeginPage(p, o) PROVE LeaseInv'
  <2>1. Outcome(o, "pending").op = o /\ Outcome(o, "pending").status # "recovered"  BY DEF Outcome
  <2>2. owner' = [owner EXCEPT ![o] = p]  BY <1>0, <1>3 DEF BeginPage, TypeOK
  <2>3. /\ opst[o] = "live" /\ owner[o] = p /\ StartAppend(p, Outcome(o, "pending"))
        /\ opst' = [opst EXCEPT ![o] = "settling"] /\ UNCHANGED <<file, pc>>
    BY <1>3 DEF BeginPage, fileVars
  <2> QED BY <2>1, <2>2, <2>3, LeaseStart
<1> QED BY <1>1, <1>2, <1>3 DEF Call

\* An operation whose caller is attached to task t leaves its waiting state,
\* with the task gone or detached: the others are untouched.
LEMMA LeaseAnswer ==
  ASSUME JournalInv, LeaseInv, NEW p \in Proc, NEW t \in tasks[p],
         NEW answer \in {"live", "done", "refused", "failed", "lost"},
         opst' = IF t.attached THEN [opst EXCEPT ![t.event.op] = answer] ELSE opst,
         UNCHANGED <<pc, owner>>,
         \A q \in Proc : \A u \in tasks'[q] :
            \/ u \in tasks[q] /\ (u = t => q # p)
            \/ q = p /\ ~u.attached /\ u.event = t.event
  PROVE  /\ Leases' /\ Owners' /\ Handed'
         /\ \A i \in 1..Len(file) : Recorded(file[i].event, opst')
         /\ Recorded(t.event, opst')
<1>0. TypeOK /\ t.event.op \in Op /\ HandedOver(p, t)
  BY RecordOps DEF JournalInv, LeaseInv, Handed
<1>1. /\ \A x \in Op : x # t.event.op => opst'[x] = opst[x]
      /\ ~t.attached => opst' = opst
      /\ t.attached => opst'[t.event.op] = answer
  BY <1>0 DEF TypeOK
<1>2. Leases'  BY DEF LeaseInv, Leases, ActiveExclusive
<1>3. Owners'
  <2>1. t.attached => owner[t.event.op] = p /\ pc[p] = "up"  BY <1>0 DEF HandedOver
  <2> SUFFICES ASSUME NEW o \in Op, opst'[o] \in Busy
               PROVE  owner[o] \in Proc /\ pc[owner[o]] = "up"
    BY DEF Owners
  <2>2. CASE o = t.event.op /\ t.attached  BY <2>1, <2>2
  <2>3. CASE opst'[o] = opst[o]  BY <2>3 DEF LeaseInv, Owners
  <2> QED BY <1>1, <2>2, <2>3
<1>4. ASSUME NEW q \in Proc, NEW u \in tasks'[q] PROVE HandedOver(q, u)'
  <2>1. CASE u \in tasks[q] /\ (u = t => q # p)
    <3>1. u.event.op \in Op /\ HandedOver(q, u)  BY <1>0, <2>1, RecordOps DEF LeaseInv, Handed
    <3>2. opst'[u.event.op] # "idle"  BY <1>0, <1>1, <3>1 DEF HandedOver
    <3>3. u.attached => opst'[u.event.op] = opst[u.event.op]
      <4>1. CASE ~t.attached  BY <1>1, <4>1
      <4>2. CASE t.attached /\ u.attached /\ u.event.op = t.event.op
        <5>1. q = p  BY <1>0, <3>1, <4>2 DEF HandedOver
        <5>2. u = t  BY <1>0, <2>1, <4>2, <5>1 DEF HandedOver
        <5> QED BY <2>1, <5>1, <5>2
      <4> QED BY <1>1, <3>1, <4>1, <4>2
    <3>4. u.attached => \A v \in tasks'[q] : v.attached => v = u
      BY <3>1 DEF HandedOver
    <3> QED BY <3>1, <3>2, <3>3, <3>4 DEF HandedOver
  <2>2. CASE q = p /\ ~u.attached /\ u.event = t.event
    <3>1. opst'[t.event.op] # "idle"  BY <1>0, <1>1 DEF HandedOver
    <3> QED BY <1>0, <2>2, <3>1 DEF HandedOver
  <2> QED BY <1>4, <2>1, <2>2
<1>5. ASSUME NEW i \in 1..Len(file) PROVE Recorded(file[i].event, opst')
  <2>1. file[i].event.op \in Op /\ Recorded(file[i].event, opst)
    BY <1>0, RecordOps DEF LeaseInv, AllRecorded
  <2>2. t.attached /\ file[i].event.op = t.event.op => file[i].event.status # "recovered"
    BY <1>0, <2>1 DEF HandedOver, Recorded, Busy
  <2> QED BY <1>1, <2>1, <2>2 DEF Recorded
<1>6. Recorded(t.event, opst')  BY <1>0, <1>1 DEF HandedOver, Recorded
<1> QED BY <1>2, <1>3, <1>4, <1>5, <1>6 DEF Handed

\* A dropped caller's operation is lost; its closure stays, detached.
LEMMA LeaseDrop ==
  ASSUME JournalInv, LeaseInv, NEW p \in Proc, NEW t \in tasks[p], DropCaller(p, t)
  PROVE  LeaseInv'
<1>0. TypeOK /\ t \in Task  BY RecordOps DEF JournalInv
<1> DEFINE d == [t EXCEPT !.attached = FALSE]
<1>1. d.event = t.event /\ d.attached = FALSE  BY <1>0 DEF Task
<1> HIDE DEF d
<1>2. tasks' = [tasks EXCEPT ![p] = (@ \ {t}) \cup {d}]  BY DEF DropCaller, d
<1>3. \A q \in Proc : \A u \in tasks'[q] :
         \/ u \in tasks[q] /\ (u = t => q # p)
         \/ q = p /\ ~u.attached /\ u.event = t.event
  BY <1>0, <1>1, <1>2 DEF TypeOK
<1>4. /\ opst' = IF t.attached THEN [opst EXCEPT ![t.event.op] = "lost"] ELSE opst
      /\ UNCHANGED <<file, pc, owner>>
  BY DEF DropCaller, fileVars
<1>5. /\ Leases' /\ Owners' /\ Handed'
      /\ \A i \in 1..Len(file) : Recorded(file[i].event, opst')
  BY <1>3, <1>4, LeaseAnswer
<1> QED BY <1>4, <1>5 DEF LeaseInv, AllRecorded

\* Every end of an append: its task is gone, its caller answered.
LEMMA LeaseAppend ==
  ASSUME JournalInv, LeaseInv, NEW p \in Proc, NEW t \in tasks[p], RunAppend(p, t)
  PROVE  LeaseInv'
<1>0. TypeOK  BY DEF JournalInv
<1>1. PICK answer \in {"live", "done", "refused", "failed"} : Reply(p, t, answer)
  BY DEF RunAppend, AppendSucceeds, AppendRejected, AppendTorn, AppendUnsynced, AppendFails, OkState
<1>2. \A q \in Proc : \A u \in tasks'[q] : u \in tasks[q] /\ (u = t => q # p)
  BY <1>0, <1>1 DEF Reply, TypeOK
<1>3. /\ opst' = IF t.attached THEN [opst EXCEPT ![t.event.op] = answer] ELSE opst
      /\ UNCHANGED <<pc, owner>>
  BY <1>1 DEF Reply
<1>4. /\ Leases' /\ Owners' /\ Handed'
      /\ \A i \in 1..Len(file) : Recorded(file[i].event, opst')
      /\ Recorded(t.event, opst')
  BY <1>2, <1>3, LeaseAnswer
<1>5. \/ file' = file
      \/ /\ ~RejectNewWriteIntent(ResumedState(t), t.event)
         /\ file' = AppendRecord(ResumedState(t).tail, t.event)
  BY DEF RunAppend, AppendSucceeds, AppendRejected, AppendTorn, AppendUnsynced, AppendFails, fileVars
<1>6. CASE file' = file  BY <1>4, <1>6 DEF LeaseInv, AllRecorded
<1>7. CASE /\ ~RejectNewWriteIntent(ResumedState(t), t.event)
           /\ file' = AppendRecord(ResumedState(t).tail, t.event)
  <2> DEFINE r == NewRecord(ScanRecords(Genesis, file), t.event)
  <2>1. file' = Append(file, r) /\ r \in Record  BY <1>7, AppendWrites
  <2>2. r.event = t.event  BY DEF NewRecord
  <2> HIDE DEF r
  <2>3. AllRecorded'  BY <1>4, <2>1, <2>2, GrowRecorded
  <2> QED BY <1>4, <2>3 DEF LeaseInv
<1> QED BY <1>5, <1>6, <1>7

\* A crash drops the leases of its processes and orphans their operations.
LEMMA LeaseCrash ==
  ASSUME JournalInv, LeaseInv, NEW P \in SUBSET Proc,
         \A q \in Proc : pc'[q] = IF q \in P THEN "down" ELSE pc[q],
         \A q \in Proc : tasks'[q] = IF q \in P THEN {} ELSE tasks[q],
         opst' = Orphaned(P), owner' = owner,
         \A i \in 1..Len(file') : i \in 1..Len(file) /\ file'[i] = file[i]
  PROVE  LeaseInv'
<1>0. TypeOK  BY DEF JournalInv
<1>1. \A o \in Op : opst'[o] = IF owner[o] \in P /\ opst[o] # "done" THEN "lost" ELSE opst[o]
  BY DEF Orphaned
<1>2. Leases'  BY DEF LeaseInv, Leases, ActiveExclusive
<1>3. Owners'
  <2> SUFFICES ASSUME NEW o \in Op, opst'[o] \in Busy PROVE owner[o] \in Proc /\ pc'[owner[o]] = "up"
    BY DEF Owners
  <2>1. opst[o] \in Busy /\ owner[o] \notin P  BY <1>1 DEF Busy
  <2> QED BY <2>1 DEF LeaseInv, Owners
<1>4. ASSUME NEW q \in Proc, NEW u \in tasks'[q] PROVE HandedOver(q, u)'
  <2>1. q \notin P /\ u \in tasks[q] /\ tasks'[q] = tasks[q] /\ pc'[q] = pc[q]  BY <1>4
  <2>2. u.event.op \in Op /\ HandedOver(q, u)  BY <1>0, <2>1, RecordOps DEF LeaseInv, Handed
  <2>3. opst'[u.event.op] # "idle" /\ (u.attached => opst'[u.event.op] = opst[u.event.op])
    BY <1>1, <2>1, <2>2 DEF HandedOver
  <2> QED BY <2>1, <2>2, <2>3 DEF HandedOver
<1>5. ASSUME NEW i \in 1..Len(file') PROVE Recorded(file'[i].event, opst')
  <2>1. file'[i] = file[i] /\ file[i].event.op \in Op /\ Recorded(file[i].event, opst)
    BY <1>0, RecordOps DEF LeaseInv, AllRecorded
  <2> QED BY <1>1, <2>1 DEF Recorded, Busy
<1> QED BY <1>2, <1>3, <1>4, <1>5 DEF LeaseInv, Handed, AllRecorded

\* Every step keeps the leases.
LEMMA LeaseStep ==
  ASSUME JournalInv, LeaseInv, [Next]_vars
  PROVE  LeaseInv'
<1>0. TypeOK /\ file \in Seq(Record) /\ Len(file) \in Nat  BY LenProperties DEF JournalInv, TypeOK
<1>1. ASSUME NEW p \in Proc, Crash(p) PROVE LeaseInv'
  <2>1. /\ \A q \in Proc : pc'[q] = IF q \in {p} THEN "down" ELSE pc[q]
        /\ \A q \in Proc : tasks'[q] = IF q \in {p} THEN {} ELSE tasks[q]
    BY <1>0, <1>1 DEF Crash, TypeOK
  <2>2. opst' = Orphaned({p}) /\ owner' = owner /\ file' = file  BY <1>1 DEF Crash, fileVars
  <2> QED BY <2>1, <2>2, LeaseCrash
<1>2. CASE HostCrash
  <2>1. PICK n \in synced..Len(file) : file' = SubSeq(file, 1, n)  BY <1>2 DEF HostCrash
  <2>2. n \in 0..Len(file)  BY <1>0 DEF TypeOK
  <2>3. Len(file') = n /\ \A i \in 1..n : file'[i] = file[i]  BY <1>0, <2>1, <2>2, SplitFacts
  <2>4. \A i \in 1..Len(file') : i \in 1..Len(file) /\ file'[i] = file[i]
    BY <1>0, <2>2, <2>3, ShorterRange
  <2>5. /\ \A q \in Proc : pc'[q] = IF q \in Proc THEN "down" ELSE pc[q]
        /\ \A q \in Proc : tasks'[q] = IF q \in Proc THEN {} ELSE tasks[q]
        /\ opst' = Orphaned(Proc) /\ owner' = owner
    BY <1>2 DEF HostCrash
  <2> QED BY <2>4, <2>5, LeaseCrash
<1>3. CASE UNCHANGED vars
  <2>1. UNCHANGED <<file, pc, tasks, opst, owner>>  BY <1>3 DEF vars
  <2>2. Leases' /\ Owners'  BY <2>1 DEF LeaseInv, Leases, Owners, ActiveExclusive
  <2>3. Handed'
    <3> SUFFICES ASSUME NEW q \in Proc, NEW t \in tasks[q] PROVE HandedOver(q, t)'
      BY <2>1 DEF Handed
    <3>1. HandedOver(q, t)  BY DEF LeaseInv, Handed
    <3> QED BY <2>1, <3>1 DEF HandedOver
  <2>4. AllRecorded'  BY <2>1 DEF LeaseInv, AllRecorded
  <2> QED BY <2>2, <2>3, <2>4 DEF LeaseInv
<1> QED BY <1>1, <1>2, <1>3, LeaseOpen, LeaseCall, LeaseDrop, LeaseAppend DEF Next

\* Startup recovery never records the in-flight operation of a live process as
\* Unknown, however many processes share the journal (initialize: recovery
\* runs only under the exclusive active lock).
THEOREM JournalLiveNotRecovered == Spec => []LiveNotRecovered
<1>1. LeaseInv => LiveNotRecovered
  BY DEF LeaseInv, AllRecorded, Recorded, LiveNotRecovered, Busy
<1>2. JournalInv /\ LeaseInv /\ [Next]_vars => LeaseInv'  BY LeaseStep
<1> QED BY LeaseInit, <1>1, <1>2, JournalInvariant, PTL DEF Spec

-----------------------------------------------------------------------------
(***************************************************************************)
(* What a caller was told agrees with the file.  The argument follows the  *)
(* closures: one that still has its caller carries an intent of which no   *)
(* record exists, a page of an operation still open on file, or a terminal *)
(* record (Carried); one that lost its caller belongs to an operation that *)
(* is lost for good (Detached), so its late record, like recovery's,       *)
(* concerns nobody who waits.                                              *)
(***************************************************************************)

Unwritten(o) == \A i \in 1..Len(file) : file[i].event.op # o
StillOpen(o) ==
  /\ \E i \in 1..Len(file) : file[i].event.op = o /\ IsIntent(file[i].event)
  /\ \A i \in 1..Len(file) : file[i].event.op = o => ~EndsIntent(file[i].event)
Answered(o) ==
  /\ opst[o] = "refused" => Unwritten(o)
  /\ opst[o] = "live" => StillOpen(o)
Carries(e) ==
  IF IsIntent(e) THEN Unwritten(e.op) ELSE ~EndsIntent(e) => StillOpen(e.op)
Carried == \A p \in Proc : \A t \in tasks[p] : t.attached => Carries(t.event)
Detached == \A p \in Proc : \A t \in tasks[p] : ~t.attached => opst[t.event.op] = "lost"
AnswerInv == (\A o \in Op : Answered(o)) /\ Carried /\ Detached

\* A new record changes nothing for the other operations; an intent opens its
\* operation, and a page leaves it open.
LEMMA GrowAnswers ==
  ASSUME JournalInv, NEW r \in Record, file' = Append(file, r), NEW o
  PROVE  /\ r.event.op # o => /\ Unwritten(o) => Unwritten(o)'
                              /\ StillOpen(o) => StillOpen(o)'
         /\ r.event.op = o /\ IsIntent(r.event) /\ Unwritten(o) => StillOpen(o)'
         /\ r.event.op = o /\ ~EndsIntent(r.event) /\ StillOpen(o) => StillOpen(o)'
<1>0. file \in Seq(Record) /\ Len(file) \in Nat  BY LenProperties DEF JournalInv, TypeOK
<1>1. /\ Len(file') = Len(file) + 1 /\ file'[Len(file) + 1] = r
      /\ \A i \in 1..Len(file) : file'[i] = file[i]
  BY <1>0, AppendFacts
<1>2. /\ \A i \in 1..Len(file') : i \in 1..Len(file) \/ i = Len(file) + 1
      /\ \A i \in 1..Len(file) : i \in 1..Len(file')
      /\ Len(file) + 1 \in 1..Len(file')
  BY <1>0, <1>1
<1>3. r.event.op # o => (Unwritten(o) => Unwritten(o)')  BY <1>1, <1>2 DEF Unwritten
<1>4. r.event.op # o => (StillOpen(o) => StillOpen(o)')  BY <1>1, <1>2 DEF StillOpen, IsIntent, EndsIntent, IsOutcome
<1>5. r.event.op = o /\ IsIntent(r.event) /\ Unwritten(o) => StillOpen(o)'
  BY <1>1, <1>2 DEF Unwritten, StillOpen, IsIntent, EndsIntent, IsOutcome
<1>6. r.event.op = o /\ ~EndsIntent(r.event) /\ StillOpen(o) => StillOpen(o)'
  BY <1>1, <1>2 DEF StillOpen, IsIntent, EndsIntent, IsOutcome
<1> QED BY <1>3, <1>4, <1>5, <1>6

\* A step that leaves the records alone changes no operation's records.
LEMMA KeepAnswers ==
  ASSUME file' = file
  PROVE  /\ \A o : (Unwritten(o) <=> Unwritten(o)') /\ (StillOpen(o) <=> StillOpen(o)')
         /\ \A e : Carries(e) <=> Carries(e)'
BY DEF Unwritten, StillOpen, Carries, IsIntent, EndsIntent, IsOutcome

\* Nobody has been answered at the start.
LEMMA AnswerInit == Init => AnswerInv
BY DEF Init, AnswerInv, Answered, Carried, Detached

\* Opening: what recovery records is of no operation that somebody waits for.
LEMMA AnswerOpen ==
  ASSUME JournalInv, LeaseInv, AnswerInv, NEW p \in Proc, Open(p)
  PROVE  AnswerInv'
<1>1. UNCHANGED <<tasks, opst>>
  BY DEF Open, TryOpen, AcquireShared, VerifyShared, RepairTail, RecoverIntent, RecoverFails,
         FinishOpen, callerVars
<1>2. CASE file' = file
  BY <1>1, <1>2, KeepAnswers DEF AnswerInv, Answered, Carried, Detached
<1>3. ASSUME NEW o \in Pending, RecoveryLine(o), pc[p] = "recover" PROVE AnswerInv'
  <2>1. PICK r \in Record : file' = Append(file, r) /\ r.event = Outcome(o, "recovered")
    BY <1>3, RecoveryWrites
  <2>2. r.event.op = o  BY <2>1 DEF Outcome
  <2>3. o \in Op /\ opst[o] \notin Busy
    <3>1. \A q \in Proc : pc[q] # "up"  BY <1>3 DEF LeaseInv, Leases, ActiveExclusive
    <3> QED BY <1>3, <3>1, RecoveryWrites DEF LeaseInv, Owners
  <2>4. \A x \in Op : Answered(x)'
    BY <1>1, <2>1, <2>2, <2>3, GrowAnswers DEF AnswerInv, Answered, Busy
  <2>5. ASSUME NEW q \in Proc, NEW t \in tasks[q], t.attached PROVE Carries(t.event)'
    <3>1. t.event.op # o  BY <2>3, <2>5 DEF LeaseInv, Handed, HandedOver, Busy
    <3> QED BY <2>1, <2>2, <2>5, <3>1, GrowAnswers DEF AnswerInv, Carried, Carries, IsIntent, EndsIntent, IsOutcome
  <2> QED BY <1>1, <2>4, <2>5 DEF AnswerInv, Carried, Detached
<1>4. file' = file \/ (pc[p] = "recover" /\ \E o \in Pending : RecoveryLine(o))
  BY DEF Open, TryOpen, AcquireShared, VerifyShared, RepairTail, RecoverIntent, RecoverFails,
         FinishOpen, fileVars, RecoveryLine
<1> QED BY <1>2, <1>3, <1>4

\* A caller hands over an event that its operation's records allow.
LEMMA AnswerStart ==
  ASSUME JournalInv, LeaseInv, AnswerInv, NEW p \in Proc, NEW o \in Op, NEW e,
         NEW st \in {"intending", "settling"}, opst[o] \in {"idle", "live", "refused"},
         e.op = o, Carries(e), StartAppend(p, e), opst' = [opst EXCEPT ![o] = st], file' = file
  PROVE  AnswerInv'
<1>0. TypeOK  BY DEF JournalInv
<1> DEFINE n == [event |-> e, cursor |-> slot[p], attached |-> TRUE]
<1>1. n.event = e /\ n.attached = TRUE  OBVIOUS
<1>2. tasks' = [tasks EXCEPT ![p] = @ \cup {n}]  BY DEF StartAppend
<1> HIDE DEF n
<1>3. /\ \A x \in Op : x # o => opst'[x] = opst[x]
      /\ opst'[o] = st
  BY <1>0 DEF TypeOK
<1>4. \A q \in Proc : \A t \in tasks'[q] : t \in tasks[q] \/ t = n
  BY <1>0, <1>2 DEF TypeOK
<1>5. \A x \in Op : Answered(x)'  BY <1>3, KeepAnswers DEF AnswerInv, Answered
<1>6. Carried'  BY <1>1, <1>4, KeepAnswers DEF AnswerInv, Carried
<1>7. Detached'
  <2> SUFFICES ASSUME NEW q \in Proc, NEW t \in tasks'[q], ~t.attached
               PROVE  opst'[t.event.op] = "lost"
    BY DEF Detached
  <2>1. t \in tasks[q]  BY <1>1, <1>4
  <2>2. opst[t.event.op] = "lost" /\ t.event.op \in Op  BY <1>0, <2>1, RecordOps DEF AnswerInv, Detached
  <2> QED BY <1>3, <2>2
<1> QED BY <1>5, <1>6, <1>7 DEF AnswerInv

\* The three calls of the guard: an idle operation has no record yet, a live
\* one is open on file, and a terminal record may come at any time.
LEMMA AnswerCall ==
  ASSUME JournalInv, LeaseInv, AnswerInv, NEW p \in Proc, Call(p)
  PROVE  AnswerInv'
<1>1. ASSUME NEW o \in Op, BeginIntent(p, o) PROVE AnswerInv'
  <2>1. Unwritten(o)  BY <1>1 DEF BeginIntent, LeaseInv, AllRecorded, Recorded, Unwritten
  <2>2. Intent(o).op = o /\ Carries(Intent(o))  BY <2>1 DEF Intent, Carries, IsIntent
  <2> QED BY <1>1, <2>2, AnswerStart DEF BeginIntent, fileVars
<1>2. ASSUME NEW o \in Op, BeginOutcome(p, o) PROVE AnswerInv'
  <2>1. PICK x \in {"succeeded", "unknown", "denied"} : StartAppend(p, Outcome(o, x))
    BY <1>2 DEF BeginOutcome
  <2>2. Outcome(o, x).op = o /\ Carries(Outcome(o, x))
    BY DEF Outcome, Carries, IsIntent, EndsIntent, IsOutcome
  <2>3. opst[o] \in {"idle", "live", "refused"} /\ opst' = [opst EXCEPT ![o] = "settling"] /\ file' = file
    BY <1>2 DEF BeginOutcome, fileVars
  <2> QED BY <2>1, <2>2, <2>3, AnswerStart
<1>3. ASSUME NEW o \in Op, BeginPage(p, o) PROVE AnswerInv'
  <2>1. StillOpen(o)  BY <1>3 DEF BeginPage, AnswerInv, Answered
  <2>2. Outcome(o, "pending").op = o /\ Carries(Outcome(o, "pending"))
    BY <2>1 DEF Outcome, Carries, IsIntent
  <2> QED BY <1>3, <2>2, AnswerStart DEF BeginPage, fileVars
<1> QED BY <1>1, <1>2, <1>3 DEF Call

\* A dropped caller waits for nothing any more.
LEMMA AnswerDrop ==
  ASSUME JournalInv, LeaseInv, AnswerInv, NEW p \in Proc, NEW t \in tasks[p], DropCaller(p, t)
  PROVE  AnswerInv'
<1>0. TypeOK /\ t \in Task /\ t.event.op \in Op  BY RecordOps DEF JournalInv
<1> DEFINE d == [t EXCEPT !.attached = FALSE]
<1>1. d.event = t.event /\ d.attached = FALSE  BY <1>0 DEF Task
<1> HIDE DEF d
<1>2. tasks' = [tasks EXCEPT ![p] = (@ \ {t}) \cup {d}]  BY DEF DropCaller, d
<1>3. \A q \in Proc : \A u \in tasks'[q] : u \in tasks[q] \/ u = d
  BY <1>0, <1>2 DEF TypeOK
<1>4. /\ \A x \in Op : x # t.event.op => opst'[x] = opst[x]
      /\ opst'[t.event.op] = "lost" /\ file' = file
  BY <1>0 DEF DropCaller, TypeOK, fileVars
<1>5. \A x \in Op : Answered(x)'  BY <1>4, KeepAnswers DEF AnswerInv, Answered
<1>6. Carried'  BY <1>1, <1>3, <1>4, KeepAnswers DEF AnswerInv, Carried
<1>7. Detached'
  BY <1>0, <1>1, <1>3, <1>4, RecordOps DEF AnswerInv, Detached
<1> QED BY <1>5, <1>6, <1>7 DEF AnswerInv

\* A closure ends.  Its caller, if it still waits, is told live only with the
\* intent, or a page, on file; refused only with nothing on file.
LEMMA AnswerAppend ==
  ASSUME JournalInv, LeaseInv, AnswerInv, NEW p \in Proc, NEW t \in tasks[p], RunAppend(p, t)
  PROVE  AnswerInv'
<1>0. TypeOK /\ t.event.op \in Op /\ HandedOver(p, t)
  BY RecordOps DEF JournalInv, LeaseInv, Handed
<1>1. PICK answer : Reply(p, t, answer)
                    /\ \/ answer = "failed" /\ file' = file
                       \/ answer = "refused" /\ file' = file /\ IsIntent(t.event)
                       \/ /\ answer \in {"failed", OkState(t.event)}
                          /\ ~RejectNewWriteIntent(ResumedState(t), t.event)
                          /\ file' = AppendRecord(ResumedState(t).tail, t.event)
  <2>1. AppendRejected(p, t) => IsIntent(t.event)
    BY DEF AppendRejected, RejectNewWriteIntent, BlockedByUnresolved, BlockedByPending, Gated
  <2> QED BY <2>1 DEF RunAppend, AppendSucceeds, AppendRejected, AppendTorn, AppendUnsynced,
                      AppendFails, fileVars
<1>2. \A q \in Proc : \A u \in tasks'[q] : u \in tasks[q] /\ (u = t => q # p)
  BY <1>0, <1>1 DEF Reply, TypeOK
<1>3. /\ \A x \in Op : x # t.event.op => opst'[x] = opst[x]
      /\ ~t.attached => opst' = opst
      /\ t.attached => opst'[t.event.op] = answer
  BY <1>0, <1>1 DEF Reply, TypeOK
<1>4. ASSUME NEW q \in Proc, NEW u \in tasks'[q], u.attached PROVE u.event.op # t.event.op
  <2>1. u \in tasks[q] /\ HandedOver(q, u)  BY <1>2, <1>4 DEF LeaseInv, Handed
  <2>2. CASE ~t.attached  BY <1>4, <2>1, <2>2 DEF AnswerInv, Detached, HandedOver
  <2>3. CASE t.attached /\ u.event.op = t.event.op
    <3>1. q = p  BY <1>0, <1>4, <2>1, <2>3 DEF HandedOver
    <3>2. u = t  BY <1>0, <1>4, <2>1, <2>3, <3>1 DEF HandedOver
    <3> QED BY <1>2, <1>4, <3>1, <3>2
  <2> QED BY <2>2, <2>3
<1>5. Detached'
  <2> SUFFICES ASSUME NEW q \in Proc, NEW u \in tasks'[q], ~u.attached PROVE opst'[u.event.op] = "lost"
    BY DEF Detached
  <2>1. u \in tasks[q] /\ opst[u.event.op] = "lost" /\ u.event.op \in Op
    BY <1>0, <1>2, RecordOps DEF AnswerInv, Detached
  <2>2. t.attached => u.event.op # t.event.op  BY <1>0, <2>1 DEF HandedOver
  <2> QED BY <1>3, <2>1, <2>2
<1>6. CASE file' = file
  <2>1. ASSUME NEW x \in Op PROVE Answered(x)'
    <3>1. CASE opst'[x] = opst[x]  BY <1>6, <3>1, KeepAnswers DEF AnswerInv, Answered
    <3>2. CASE x = t.event.op /\ t.attached
      <4>1. answer \in {"failed", "refused"}
        <5>1. file # AppendRecord(ResumedState(t).tail, t.event) \/ RejectNewWriteIntent(ResumedState(t), t.event)
          <6>1. SUFFICES ASSUME ~RejectNewWriteIntent(ResumedState(t), t.event),
                                file' = AppendRecord(ResumedState(t).tail, t.event)
                         PROVE  FALSE
            BY <1>6
          <6>2. PICK r \in Record : file' = Append(file, r)  BY <6>1, AppendWrites
          <6>3. Len(file') = Len(file) + 1 /\ Len(file) \in Nat
            BY <1>0, <6>2, AppendFacts, LenProperties DEF TypeOK
          <6> QED BY <1>6, <6>3
        <5> QED BY <1>1, <1>6, <5>1
      <4>2. answer = "refused" => Unwritten(x)'
        <5>1. answer = "refused" => IsIntent(t.event)  BY <1>1, <4>1, <1>6 DEF OkState
        <5> QED BY <1>6, <3>2, <5>1, KeepAnswers DEF AnswerInv, Carried, Carries
      <4> QED BY <1>3, <3>2, <4>1, <4>2 DEF Answered
    <3> QED BY <1>3, <3>1, <3>2
  <2>2. Carried'  BY <1>2, <1>6, KeepAnswers DEF AnswerInv, Carried
  <2> QED BY <1>5, <2>1, <2>2 DEF AnswerInv
<1>7. CASE /\ answer \in {"failed", OkState(t.event)}
           /\ ~RejectNewWriteIntent(ResumedState(t), t.event)
           /\ file' = AppendRecord(ResumedState(t).tail, t.event)
  <2> DEFINE r == NewRecord(ScanRecords(Genesis, file), t.event)
  <2>1. file' = Append(file, r) /\ r \in Record  BY <1>7, AppendWrites
  <2>2. r.event = t.event  BY DEF NewRecord
  <2> HIDE DEF r
  <2>3. ASSUME NEW x \in Op PROVE Answered(x)'
    <3>1. CASE x # t.event.op  BY <1>3, <2>1, <2>2, <3>1, GrowAnswers DEF AnswerInv, Answered
    <3>2. CASE x = t.event.op /\ ~t.attached
      BY <1>3, <3>2 DEF AnswerInv, Detached, Answered
    <3>3. CASE x = t.event.op /\ t.attached
      <4>1. answer = "live" => StillOpen(x)'
        <5>1. answer = "live" => ~EndsIntent(t.event)  BY <1>7 DEF OkState, EndsIntent
        <5>2. Carries(t.event)  BY <3>3 DEF AnswerInv, Carried
        <5> QED BY <2>1, <2>2, <3>3, <5>1, <5>2, GrowAnswers DEF Carries
      <4>2. answer # "refused"  BY <1>7 DEF OkState
      <4> QED BY <1>3, <3>3, <4>1, <4>2 DEF Answered
    <3> QED BY <3>1, <3>2, <3>3
  <2>4. ASSUME NEW q \in Proc, NEW u \in tasks'[q], u.attached PROVE Carries(u.event)'
    <3>1. Carries(u.event) /\ u.event.op # t.event.op  BY <1>2, <1>4, <2>4 DEF AnswerInv, Carried
    <3> QED BY <2>1, <2>2, <3>1, GrowAnswers DEF Carries, IsIntent, EndsIntent, IsOutcome
  <2> QED BY <1>5, <2>3, <2>4 DEF AnswerInv, Carried
<1> QED BY <1>1, <1>6, <1>7

\* Crashes: nobody of a dead process waits; those of the others see the same file.
LEMMA AnswerCrash ==
  ASSUME JournalInv, LeaseInv, AnswerInv,
         HostCrash \/ \E p \in Proc : Crash(p)
  PROVE  AnswerInv'
<1>0. TypeOK  BY DEF JournalInv
<1>1. ASSUME NEW p \in Proc, Crash(p) PROVE AnswerInv'
  <2>1. file' = file /\ opst' = Orphaned({p})  BY <1>1 DEF Crash, fileVars
  <2>2. \A x \in Op : opst'[x] = opst[x] \/ opst'[x] = "lost"  BY <2>1 DEF Orphaned
  <2>3. \A q \in Proc : \A t \in tasks'[q] : t \in tasks[q]  BY <1>0, <1>1 DEF Crash, TypeOK
  <2>4. \A x \in Op : Answered(x)'  BY <2>1, <2>2, KeepAnswers DEF AnswerInv, Answered
  <2>5. Carried'  BY <2>1, <2>3, KeepAnswers DEF AnswerInv, Carried
  <2>6. Detached'  BY <1>0, <2>2, <2>3, RecordOps DEF AnswerInv, Detached
  <2> QED BY <2>4, <2>5, <2>6 DEF AnswerInv
<1>2. CASE HostCrash
  <2>1. opst' = Orphaned(Proc) /\ \A q \in Proc : tasks'[q] = {}  BY <1>2 DEF HostCrash
  <2>2. \A x \in Op : opst'[x] \notin Busy  BY <2>1 DEF Orphaned, LeaseInv, Owners, Busy
  <2> QED BY <2>1, <2>2 DEF AnswerInv, Answered, Carried, Detached, Busy
<1> QED BY <1>1, <1>2

\* What a caller was told agrees with the shared file for as long as it may act
\* on it: a live operation is pending, whatever other processes append or
\* recover, and a refused one (UnresolvedWrite, WriteInFlight) has no record.
THEOREM JournalAnswers == Spec => []AnswerMatchesFile
<1>1. AnswerInv => AnswerMatchesFile
  <2> SUFFICES ASSUME AnswerInv, NEW o \in Op
               PROVE  /\ opst[o] = "live" => o \in Pending
                      /\ opst[o] = "refused" => Unwritten(o)
    BY DEF AnswerMatchesFile, Unwritten
  <2>1. StillOpen(o) => o \in Pending  BY DEF StillOpen, Pending, PendingAfter
  <2> QED BY <2>1 DEF AnswerInv, Answered
<1>2. JournalInv /\ LeaseInv /\ AnswerInv /\ [Next]_vars => AnswerInv'
  <2>1. ASSUME AnswerInv, UNCHANGED vars PROVE AnswerInv'
    <3>1. UNCHANGED <<file, tasks, opst>>  BY <2>1 DEF vars
    <3> QED BY <2>1, <3>1, KeepAnswers DEF AnswerInv, Answered, Carried, Detached
  <2> QED BY <2>1, AnswerOpen, AnswerCall, AnswerDrop, AnswerAppend, AnswerCrash DEF Next
<1>3. JournalInv /\ LeaseInv /\ [Next]_vars => LeaseInv'  BY LeaseStep
<1> QED BY LeaseInit, AnswerInit, <1>1, <1>2, <1>3, JournalInvariant, PTL DEF Spec

=============================================================================
