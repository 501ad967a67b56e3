-------------------------- MODULE AgentDaemonProofs --------------------------
(***************************************************************************)
(* Proofs about the two parts of the agent daemon that decide who gets     *)
(* which connection: AgentSessions, for any number of calls, edits,        *)
(* rotations and connections, and TokenStore, for any number of tokens,    *)
(* writers, requests and stamps.                                           *)
(*                                                                         *)
(* For the sessions the argument is about identity.  A connection that is  *)
(* not cached yet is known to the one call that opened it (Fresh), so the  *)
(* flags a handle shares are those of its own connection or nobody's       *)
(* (Shared), and a cached connection's key has the transport fields it was *)
(* opened with (Placed).                                                   *)
(*                                                                         *)
(* For the tokens, the lock makes a writer's copy of the file the file     *)
(* itself until its rename (Steady), and a generated id is its issuer's    *)
(* alone until then (OwnIds); so a rewrite loses nothing that was          *)
(* acknowledged.  Nothing there depends on what the cache or a stamp holds.*)
(***************************************************************************)
EXTENDS AgentSessions, TokenStore, TLAPS

-----------------------------------------------------------------------------
(* Sessions.                                                               *)

\* The connection a call holds, and the one cached, were opened with the
\* transport fields of the call and of the key.
Placed ==
    /\ \A c \in Callers : call[c].at \in 0 .. Len(opened)
    /\ \A c \in Callers : pc[c] \in {"pinging", "recheck", "guarding", "serving"} =>
          call[c].at # 0 /\ opened[call[c].at].transport = call[c].saved.transport
    /\ cache # 0 => opened[cache].transport = key.transport

\* A connection that is being opened is nobody else's, and no handle reported it.
Fresh ==
    /\ faulted \subseteq 1 .. Len(opened)
    /\ \A c \in Callers : pc[c] = "recheck" =>
          /\ call[c].at \notin faulted /\ cache # call[c].at
          /\ \A d \in Callers : d # c => call[d].at # call[c].at

\* A handle shares the flags of its own connection, or nobody's once another
\* session is cached.
Shared ==
    \A c \in Callers : pc[c] = "serving" =>
        call[c].flags \in {0, call[c].at} /\ (cache = call[c].at => call[c].flags = call[c].at)

\* A call pings under a digest of the secrets no older than itself.
Dated ==
    \A c \in Callers : /\ call[c].seen <= material
                       /\ pc[c] = "pinging" => call[c].key.material >= call[c].seen

IInv == TypeOK /\ Placed /\ Fresh /\ Shared /\ FaultsRetire /\ Dated

-----------------------------------------------------------------------------
(* One call's record.                                                      *)

\* What a new or an empty record holds.
LEMMA NoCallFacts ==
    /\ NoKey \in Keys /\ FirstRow \in Rows
    /\ NoCall \in Calls /\ NoCall.at = 0 /\ NoCall.seen = 0
    /\ \A r \in Rows, m \in Nat :
          /\ SessionKey(r, m) \in Keys
          /\ SessionKey(r, m).transport = r.transport /\ SessionKey(r, m).material = m
  BY DEF NoCall, NoKey, FirstRow, Rows, Calls, Keys, SessionKey

\* A call's step changes its own record and place only.
LEMMA OneCall ==
    ASSUME TypeOK, NEW c \in Callers, NEW r \in Calls, Hold(c, r)
    PROVE  /\ call' \in [Callers -> Calls] /\ call'[c] = r
           /\ \A d \in Callers : d # c => call'[d] = call[d]
  BY DEF TypeOK, Hold

LEMMA OnePlace ==
    ASSUME TypeOK, NEW c \in Callers, NEW l, Goto(c, l)
    PROVE  pc'[c] = l /\ \A d \in Callers : d # c => pc'[d] = pc[d]
  BY DEF TypeOK, Goto

\* Changing a field of a record leaves the others.
LEMMA NewAt ==
    ASSUME NEW r \in Calls, NEW n \in Nat, NEW a, a = [r EXCEPT !.at = n]
    PROVE  a \in Calls /\ a.at = n /\ a.saved = r.saved /\ a.seen = r.seen
  BY DEF Calls

LEMMA NewFlags ==
    ASSUME NEW r \in Calls, NEW n \in Nat, NEW f, f = [r EXCEPT !.flags = n]
    PROVE  f \in Calls /\ f.at = r.at /\ f.saved = r.saved /\ f.seen = r.seen /\ f.flags = n
  BY DEF Calls

-----------------------------------------------------------------------------
(* The invariant.                                                          *)

\* Nothing is open, cached or held at the start.
LEMMA InitIInv == Init => IInv
<1> SUFFICES ASSUME Init PROVE IInv
  OBVIOUS
<1>1. opened = <<>> /\ Len(opened) = 0 /\ opened \in Seq(Rows)  BY DEF Init
<1>2. /\ \A c \in Callers : pc[c] = "idle" /\ call[c] = NoCall
      /\ row = FirstRow /\ material = 0 /\ cache = 0 /\ key = NoKey /\ faulted = {} /\ retired = {}
  BY DEF Init
<1>3. TypeOK
  <2>1. call \in [Callers -> Calls]  BY NoCallFacts DEF Init
  <2>2. cache \in 0 .. Len(opened)  BY <1>1, <1>2
  <2> QED BY <1>1, <2>1, <2>2, NoCallFacts DEF Init, TypeOK
<1>4. Placed  BY <1>1, <1>2, NoCallFacts DEF Placed
<1>5. Fresh /\ Shared /\ FaultsRetire  BY <1>2 DEF Fresh, Shared, FaultsRetire
<1>6. Dated
  <2>1. \A c \in Callers : call[c].seen = 0 /\ pc[c] # "pinging"  BY <1>2, NoCallFacts
  <2>2. \A c \in Callers : call[c].seen <= material
    <3>1. material = 0  BY <1>2
    <3>2. 0 <= 0  OBVIOUS
    <3> QED BY <2>1, <3>1, <3>2, Zenon
  <2>3. \A c \in Callers : pc[c] = "pinging" => FALSE  BY <2>1
  <2> QED BY <2>2, <2>3, Zenon DEF Dated
<1> QED BY <1>3, <1>4, <1>5, <1>6 DEF IInv

\* A step that gives a call an empty connection and a place where it needs none.
LEMMA Released ==
    ASSUME IInv, NEW c \in Callers, NEW r \in Calls, r.at = 0, r.seen <= material,
           NEW l \in {"idle", "locking", "connecting"}, Hold(c, r), Goto(c, l),
           cache' \in {0, cache}, holder' \in {holder, Nobody},
           UNCHANGED <<world, opened, flagVars, key>>
    PROVE  IInv'
<1> USE DEF IInv
<1>0. UNCHANGED <<row, material, opened, retired, faulted, key>>  BY DEF world, flagVars
<1>1. /\ call' \in [Callers -> Calls] /\ call'[c] = r
      /\ \A d \in Callers : d # c => call'[d] = call[d]
  BY OneCall
<1>2. pc'[c] = l /\ \A d \in Callers : d # c => pc'[d] = pc[d]  BY OnePlace
<1>3. Len(opened) \in Nat  BY DEF TypeOK
<1>4. TypeOK'
  <2>1. cache' \in 0 .. Len(opened') /\ holder' \in Callers \cup {Nobody}  BY <1>0, <1>3 DEF TypeOK
  <2>2. pc' \in [Callers -> {"idle", "locking", "digesting", "pinging", "connecting", "recheck",
                             "guarding", "serving"}]
    BY DEF TypeOK, Goto
  <2> QED BY <1>0, <1>1, <2>1, <2>2 DEF TypeOK
<1>5. Placed'  BY <1>0, <1>1, <1>2, <1>3 DEF Placed
<1>6. Fresh'  BY <1>0, <1>1, <1>2, <1>3 DEF Fresh, Placed
<1>7. Shared'  BY <1>0, <1>1, <1>2, <1>3 DEF Shared, Placed
<1>8. FaultsRetire'  BY <1>0 DEF FaultsRetire
<1>9. Dated'  BY <1>0, <1>1, <1>2 DEF Dated
<1> QED BY <1>4, <1>5, <1>6, <1>7, <1>8, <1>9

\* Every step keeps the invariant: one step of the proof for each action.
LEMMA StepIInv == IInv /\ [Next]_vars => IInv'
<1> SUFFICES ASSUME IInv, [Next]_vars PROVE IInv'
  OBVIOUS
<1> USE DEF IInv
<1>0. Len(opened) \in Nat /\ row \in Rows /\ material \in Nat  BY DEF TypeOK
<1>00. \A c \in Callers : call[c] \in Calls /\ call[c].saved \in Rows /\ call[c].seen \in Nat
                          /\ call[c].at \in Nat /\ call[c].key \in Keys /\ call[c].key.material \in Nat
  BY DEF TypeOK, Calls, Keys
<1>1. CASE EditRow
  <2>0. row' \in Rows  BY <1>1 DEF EditRow, Rows
  <2>1. TypeOK'  BY <1>1, <2>0 DEF EditRow, TypeOK, flagVars
  <2> QED BY <1>1, <2>1 DEF EditRow, flagVars, Placed, Fresh, Shared, FaultsRetire, Dated
<1>2. CASE Rotate
  <2>1. TypeOK'  BY <1>0, <1>2 DEF Rotate, TypeOK, flagVars
  <2>2. Dated'  BY <1>0, <1>00, <1>2 DEF Rotate, Dated
  <2> QED BY <1>2, <2>1, <2>2 DEF Rotate, flagVars, Placed, Fresh, Shared, FaultsRetire
<1>3. ASSUME NEW c \in Callers, Begin(c) PROVE IInv'
  <2> DEFINE r == [NoCall EXCEPT !.saved = row, !.seen = material]
  <2>0. r = [NoCall EXCEPT !.saved = row, !.seen = material]  OBVIOUS
  <2>2. Hold(c, r) /\ Goto(c, "locking") /\ UNCHANGED <<world, opened, flagVars, cache, key, holder>>
    BY <1>3 DEF Begin
  <2> HIDE DEF r
  <2>3. r \in Calls /\ r.at = 0 /\ r.seen = material  BY <1>0, <2>0, NoCallFacts DEF NoCall, Calls
  <2>1. r.seen <= material  BY <1>0, <2>3
  <2> QED BY <2>1, <2>2, <2>3, Released
<1>4. ASSUME NEW c \in Callers, Lock(c) PROVE IInv'
  <2>1. pc'[c] = "digesting" /\ \A d \in Callers : d # c => pc'[d] = pc[d]
    BY <1>4, OnePlace DEF Lock
  <2>2. TypeOK'  BY <1>4 DEF Lock, Goto, TypeOK, world, flagVars
  <2>3. UNCHANGED <<row, material, opened, retired, faulted, cache, key, call>>
    BY <1>4 DEF Lock, world, flagVars
  <2> QED BY <2>1, <2>2, <2>3 DEF Placed, Fresh, Shared, FaultsRetire, Dated
<1>5. ASSUME NEW c \in Callers, Digest(c) PROVE IInv'
  <2> DEFINE k == SessionKey(call[c].saved, material)
             kept == IF cache # 0 /\ key = k THEN cache ELSE 0
             r == [call[c] EXCEPT !.key = k, !.at = kept]
  <2>1. k \in Keys /\ k.transport = call[c].saved.transport /\ k.material = material
    BY <1>0, <1>00, NoCallFacts
  <2> HIDE DEF k
  <2>2. /\ cache' = kept /\ Hold(c, r) /\ Goto(c, IF kept # 0 THEN "pinging" ELSE "connecting")
        /\ UNCHANGED <<world, opened, flagVars, key, holder>>
    BY <1>5 DEF Digest, k
  <2>3. kept \in 0 .. Len(opened) /\ kept \in Nat /\ kept \in {0, cache} /\ (kept # 0 => kept = cache /\ key = k)
    BY <1>0 DEF TypeOK
  <2> HIDE DEF kept
  <2>r. r = [call[c] EXCEPT !.key = k, !.at = kept]  OBVIOUS
  <2> HIDE DEF r
  <2>4. r \in Calls /\ r.at = kept /\ r.saved = call[c].saved /\ r.seen = call[c].seen /\ r.key = k
    BY <1>00, <2>1, <2>3, <2>r DEF Calls
  <2>5. call[c].seen <= material  BY DEF Dated
  <2>6. CASE kept = 0
    BY <2>2, <2>3, <2>4, <2>5, <2>6, Released
  <2>7. CASE kept # 0
    <3>0. UNCHANGED <<row, material, opened, retired, faulted, key, cache>>
      BY <2>2, <2>3, <2>7 DEF world, flagVars
    <3>1. /\ call' \in [Callers -> Calls] /\ call'[c] = r
          /\ \A d \in Callers : d # c => call'[d] = call[d]
      BY <2>2, <2>4, OneCall
    <3>2. pc'[c] = "pinging" /\ \A d \in Callers : d # c => pc'[d] = pc[d]
      BY <2>2, <2>7, OnePlace
    <3>3. TypeOK'  BY <2>2, <2>7, <3>0, <3>1 DEF TypeOK, Goto
    <3>4. Placed'
      <4>1. opened[kept].transport = call[c].saved.transport  BY <2>1, <2>3, <2>7 DEF Placed
      <4> QED BY <2>3, <2>4, <2>7, <3>0, <3>1, <3>2, <4>1 DEF Placed
    <3>5. Fresh'  BY <2>3, <2>4, <2>7, <3>0, <3>1, <3>2 DEF Fresh
    <3>6. Shared'  BY <3>0, <3>1, <3>2 DEF Shared
    <3>7. FaultsRetire'  BY <3>0 DEF FaultsRetire
    <3>8. Dated'  BY <1>0, <1>00, <2>1, <2>4, <2>5, <3>0, <3>1, <3>2 DEF Dated
    <3> QED BY <3>3, <3>4, <3>5, <3>6, <3>7, <3>8
  <2> QED BY <2>6, <2>7
<1>6. ASSUME NEW c \in Callers, PingReuses(c) PROVE IInv'
  <2>1. pc[c] = "pinging" /\ pc'[c] = "guarding" /\ \A d \in Callers : d # c => pc'[d] = pc[d]
    BY <1>6, OnePlace DEF PingReuses
  <2>2. TypeOK'  BY <1>6 DEF PingReuses, Goto, Unlock, TypeOK, world, flagVars
  <2>3. UNCHANGED <<row, material, opened, retired, faulted, cache, key, call>>
    BY <1>6 DEF PingReuses, world, flagVars
  <2> QED BY <2>1, <2>2, <2>3 DEF Placed, Fresh, Shared, FaultsRetire, Dated
<1>7. ASSUME NEW c \in Callers, PingRemoves(c) PROVE IInv'
  <2> DEFINE r == [call[c] EXCEPT !.at = 0]
  <2>1. r \in Calls /\ r.at = 0 /\ r.seen <= material
    <3>1. r \in Calls /\ r.at = 0 /\ r.seen = call[c].seen  BY <1>00, NewAt
    <3> QED BY <3>1 DEF Dated
  <2>2. /\ Hold(c, r) /\ Goto(c, "connecting") /\ cache' \in {0, cache}
        /\ UNCHANGED <<world, opened, flagVars, key, holder>>
    BY <1>7 DEF PingRemoves
  <2> HIDE DEF r
  <2> QED BY <2>1, <2>2, Released
<1>8. ASSUME NEW c \in Callers, Establish(c) PROVE IInv'
  <2> DEFINE r == [call[c] EXCEPT !.at = Len(opened) + 1]
  <2>1. /\ r \in Calls /\ r.at = Len(opened) + 1 /\ r.saved = call[c].saved /\ r.seen = call[c].seen
    <3>1. Len(opened) + 1 \in Nat  BY <1>0
    <3> QED BY <1>00, <3>1, NewAt
  <2>2. /\ Hold(c, r) /\ Goto(c, "recheck") /\ opened' = Append(opened, call[c].saved)
        /\ UNCHANGED <<world, flagVars, cache, key, holder>>
    BY <1>8 DEF Establish
  <2> HIDE DEF r
  <2>0. UNCHANGED <<row, material, retired, faulted, key, cache>>  BY <2>2 DEF world, flagVars
  <2>3. /\ opened' \in Seq(Rows) /\ Len(opened') = Len(opened) + 1
        /\ opened'[Len(opened) + 1] = call[c].saved
        /\ \A i \in 1 .. Len(opened) : opened'[i] = opened[i]
    <3>1. opened \in Seq(Rows) /\ call[c].saved \in Rows
      BY <1>00 DEF TypeOK
    <3> QED BY <2>2, <3>1
  <2>4. /\ call' \in [Callers -> Calls] /\ call'[c] = r
        /\ \A d \in Callers : d # c => call'[d] = call[d]
    BY <2>1, <2>2, OneCall
  <2>5. pc'[c] = "recheck" /\ \A d \in Callers : d # c => pc'[d] = pc[d]
    BY <2>2, OnePlace
  <2>6. TypeOK'
    <3>1. cache' \in 0 .. Len(opened')  BY <1>0, <2>0, <2>3 DEF TypeOK
    <3> QED BY <2>0, <2>2, <2>3, <2>4, <3>1 DEF TypeOK, Goto
  <2>7. Placed'
    <3>1. \A d \in Callers : call'[d].at \in 0 .. Len(opened')
      BY <1>0, <2>1, <2>3, <2>4 DEF Placed
    <3>2. ASSUME NEW d \in Callers, pc'[d] \in {"pinging", "recheck", "guarding", "serving"}
          PROVE  call'[d].at # 0 /\ opened'[call'[d].at].transport = call'[d].saved.transport
      <4>1. CASE d = c  BY <1>0, <2>1, <2>3, <2>4, <4>1
      <4>2. CASE d # c
        <5>1. call[d].at \in 1 .. Len(opened) /\ opened[call[d].at].transport = call[d].saved.transport
          BY <1>0, <2>5, <3>2, <4>2 DEF Placed
        <5> QED BY <2>3, <2>4, <4>2, <5>1
      <4> QED BY <4>1, <4>2
    <3>3. cache' # 0 => opened'[cache'].transport = key'.transport
      BY <1>0, <2>0, <2>3 DEF Placed, TypeOK
    <3> QED BY <3>1, <3>2, <3>3 DEF Placed
  <2>8. Fresh'
    <3>1. Len(opened) + 1 \notin faulted /\ cache # Len(opened) + 1
      BY <1>0 DEF Fresh, TypeOK
    <3>2. \A d \in Callers : call[d].at # Len(opened) + 1  BY <1>0 DEF Placed
    <3>3. faulted' \subseteq 1 .. Len(opened')  BY <1>0, <2>0, <2>3 DEF Fresh
    <3> QED BY <2>0, <2>1, <2>4, <2>5, <3>1, <3>2, <3>3 DEF Fresh
  <2>9. Shared'  BY <2>0, <2>4, <2>5 DEF Shared
  <2>10. FaultsRetire'  BY <2>0 DEF FaultsRetire
  <2>11. Dated'  BY <2>0, <2>1, <2>4, <2>5 DEF Dated
  <2> QED BY <2>6, <2>7, <2>8, <2>9, <2>10, <2>11
<1>9. ASSUME NEW c \in Callers, OpenFails(c) PROVE IInv'
  <2>1. NoCall \in Calls /\ NoCall.at = 0 /\ NoCall.seen <= material
    BY <1>0, NoCallFacts
  <2>2. /\ Hold(c, NoCall) /\ Goto(c, "idle") /\ holder' \in {holder, Nobody}
        /\ UNCHANGED <<world, opened, flagVars, cache, key>>
    BY <1>9 DEF OpenFails, Unlock
  <2> QED BY <2>1, <2>2, Released
<1>10. ASSUME NEW c \in Callers, Cache(c) PROVE IInv'
  <2>1. pc[c] = "recheck" /\ pc'[c] = "guarding" /\ \A d \in Callers : d # c => pc'[d] = pc[d]
    BY <1>10, OnePlace DEF Cache
  <2>2. /\ UNCHANGED <<row, material, opened, retired, faulted, call>>
        /\ cache' = call[c].at /\ key' = SessionKey(call[c].saved, material)
    BY <1>10 DEF Cache, world, flagVars
  <2>3. key' \in Keys /\ key'.transport = call[c].saved.transport  BY <1>0, <1>00, <2>2, NoCallFacts
  <2>4. TypeOK'
    BY <1>10, <2>2, <2>3 DEF Cache, Goto, Unlock, TypeOK, Placed
  <2>5. Placed'  BY <2>1, <2>2, <2>3 DEF Placed
  <2>6. Fresh'  BY <2>1, <2>2 DEF Fresh
  <2>7. Shared'
    <3>1. \A d \in Callers : pc[d] = "serving" => call[d].at # call[c].at  BY <2>1 DEF Fresh
    <3> QED BY <2>1, <2>2, <3>1 DEF Shared
  <2>8. FaultsRetire'  BY <2>1, <2>2 DEF FaultsRetire, Fresh
  <2>9. Dated'  BY <2>1, <2>2 DEF Dated
  <2> QED BY <2>4, <2>5, <2>6, <2>7, <2>8, <2>9
<1>11. ASSUME NEW c \in Callers, Guarded(c) PROVE IInv'
  <2> DEFINE n == IF cache = call[c].at THEN cache ELSE 0
             r == [call[c] EXCEPT !.flags = n]
  <2>1. n \in Nat /\ n \in {0, call[c].at} /\ (cache = call[c].at => n = call[c].at)
    BY <1>00
  <2>2. Hold(c, r) /\ Goto(c, "serving") /\ UNCHANGED <<world, opened, flagVars, cache, key, holder>>
    BY <1>11 DEF Guarded
  <2> HIDE DEF n
  <2>3. r \in Calls /\ r.at = call[c].at /\ r.saved = call[c].saved /\ r.seen = call[c].seen /\ r.flags = n
    BY <1>00, <2>1, NewFlags
  <2> HIDE DEF r
  <2>0. UNCHANGED <<row, material, opened, retired, faulted, key, cache>>  BY <2>2 DEF world, flagVars
  <2>4. /\ call' \in [Callers -> Calls] /\ call'[c] = r
        /\ \A d \in Callers : d # c => call'[d] = call[d]
    BY <2>2, <2>3, OneCall
  <2>5. pc[c] = "guarding" /\ pc'[c] = "serving" /\ \A d \in Callers : d # c => pc'[d] = pc[d]
    BY <1>11, <2>2, OnePlace DEF Guarded
  <2>6. TypeOK'  BY <2>0, <2>2, <2>4 DEF TypeOK, Goto
  <2>7. Placed'  BY <2>0, <2>3, <2>4, <2>5 DEF Placed
  <2>8. Fresh'  BY <2>0, <2>3, <2>4, <2>5 DEF Fresh
  <2>9. Shared'  BY <2>0, <2>1, <2>3, <2>4, <2>5 DEF Shared
  <2>10. FaultsRetire'  BY <2>0 DEF FaultsRetire
  <2>11. Dated'  BY <2>0, <2>3, <2>4, <2>5 DEF Dated
  <2> QED BY <2>6, <2>7, <2>8, <2>9, <2>10, <2>11
<1>12. ASSUME NEW c \in Callers, Fault(c) PROVE IInv'
  <2>1. /\ pc[c] = "serving" /\ faulted' = faulted \cup {call[c].at}
        /\ retired' = retired \cup ({call[c].flags} \ {0})
        /\ UNCHANGED <<pc, row, material, opened, cache, key, holder, call>>
    BY <1>12 DEF Fault, world
  <2>2. call[c].at \in 1 .. Len(opened) /\ call[c].flags \in {0, call[c].at}
        /\ (cache = call[c].at => call[c].flags = call[c].at)
    BY <1>0, <2>1 DEF Placed, Shared
  <2>3. TypeOK'  BY <1>00, <2>1, <2>2 DEF TypeOK
  <2>4. Placed' /\ Shared' /\ Dated'  BY <2>1 DEF Placed, Shared, Dated
  <2>5. Fresh'  BY <2>1, <2>2 DEF Fresh
  <2>6. FaultsRetire'  BY <2>1, <2>2 DEF FaultsRetire
  <2> QED BY <2>3, <2>4, <2>5, <2>6
<1>13. ASSUME NEW c \in Callers, Serve(c) PROVE IInv'
  <2>1. NoCall \in Calls /\ NoCall.at = 0 /\ NoCall.seen <= material
    BY <1>0, NoCallFacts
  <2>2. /\ Hold(c, NoCall) /\ Goto(c, "idle") /\ holder' \in {holder, Nobody}
        /\ UNCHANGED <<world, opened, flagVars, cache, key>>
    BY <1>13 DEF Serve
  <2> QED BY <2>1, <2>2, Released
<1>14. ASSUME NEW c \in Callers, Dropped(c) PROVE IInv'
  <2>1. NoCall \in Calls /\ NoCall.at = 0 /\ NoCall.seen <= material
    BY <1>0, NoCallFacts
  <2>2. /\ Hold(c, NoCall) /\ Goto(c, "idle") /\ holder' \in {holder, Nobody}
        /\ UNCHANGED <<world, opened, flagVars, cache, key>>
    BY <1>14 DEF Dropped
  <2> QED BY <2>1, <2>2, Released
<1>15. CASE UNCHANGED vars
  BY <1>15 DEF vars, world, flagVars, TypeOK, Placed, Fresh, Shared, FaultsRetire, Dated
<1> QED BY <1>1, <1>2, <1>3, <1>4, <1>5, <1>6, <1>7, <1>8, <1>9, <1>10, <1>11, <1>12, <1>13, <1>14, <1>15
        DEF Next, Step

\* The invariant holds in every reachable state.
THEOREM AgentInvariant == Spec => []IInv
  BY InitIInv, StepIInv, PTL DEF Spec

-----------------------------------------------------------------------------
(* What follows.                                                           *)

\* A handle was opened with the transport fields of the row its call read,
\* whatever was edited, rotated or cached by other calls in between (SessionKey,
\* cached_connection).
THEOREM AgentTransport == Spec => []HandleHasItsTransport
<1>1. IInv => HandleHasItsTransport  BY DEF IInv, Placed, HandleHasItsTransport
<1> QED BY <1>1, AgentInvariant, PTL

\* A fault retires its own connection only, and no cached connection misses one
\* (SessionFaultSink, session_retirement).
THEOREM AgentFaults == Spec => []FaultsRetire
<1>1. IInv => FaultsRetire  BY DEF IInv
<1> QED BY <1>1, AgentInvariant, PTL

\* A cached session that is handed out was reported by no handle and is cached
\* under a digest no older than the call (open_session_for after its ping).
THEOREM AgentReuse == Spec => ReuseIsSound
<1> DEFINE Sound == \A c \in Callers : pc[c] = "pinging" /\ pc'[c] = "guarding"
                       => call[c].at \notin faulted /\ key.material >= call[c].seen
<1>1. IInv /\ [Next]_vars => [Sound]_vars
  <2> SUFFICES ASSUME IInv, Next, NEW c \in Callers, pc[c] = "pinging", pc'[c] = "guarding"
               PROVE  call[c].at \notin faulted /\ key.material >= call[c].seen
    OBVIOUS
  <2>1. PICK d \in Callers : Step(d)  BY DEF Next, EditRow, Rotate
  <2>2. d = c
    BY <2>1 DEF IInv, TypeOK, Step, Begin, Lock, Digest, PingReuses, PingRemoves, Establish, OpenFails,
                Cache, Guarded, Fault, Serve, Dropped, Goto
  <2>3. PingReuses(c)
    BY <2>1, <2>2 DEF IInv, TypeOK, Step, Begin, Lock, Digest, PingRemoves, Establish, OpenFails, Cache,
                      Guarded, Fault, Serve, Dropped, Goto
  <2>4. cache = call[c].at /\ cache # 0 /\ cache \notin retired /\ key = call[c].key
    BY <2>3 DEF PingReuses, Current
  <2> QED BY <2>4 DEF IInv, FaultsRetire, Dated
<1> QED BY <1>1, AgentInvariant, PTL DEF Spec, ReuseIsSound

-----------------------------------------------------------------------------
(* The row's lock.                                                         *)

HolderOpens == \A c \in Callers : pc[c] \in Opening => holder = c

\* At most one call pings, opens or caches a session of the row at a time
\* (session_lock), dropped calls included.
THEOREM AgentOneOpener ==
    ASSUME Nobody \notin Callers
    PROVE  Spec => []OneOpener
<1>1. Init => HolderOpens  BY DEF Init, HolderOpens, Opening
<1>2. TypeOK /\ HolderOpens /\ [Next]_vars => HolderOpens'
  <2> SUFFICES ASSUME TypeOK, HolderOpens, [Next]_vars, NEW c \in Callers, pc'[c] \in Opening
               PROVE  holder' = c
    BY DEF HolderOpens
  <2>1. CASE EditRow \/ Rotate \/ UNCHANGED vars
    BY <2>1 DEF EditRow, Rotate, vars, HolderOpens
  <2>2. ASSUME NEW d \in Callers, Step(d) PROVE holder' = c
    <3>1. CASE d = c
      BY <2>2, <3>1 DEF TypeOK, HolderOpens, Opening, Step, Begin, Lock, Digest, PingReuses, PingRemoves,
           Establish, OpenFails, Cache, Guarded, Fault, Serve, Dropped, Goto
    <3>2. CASE d # c
      <4>1. pc'[c] = pc[c]
        BY <2>2, <3>2 DEF TypeOK, Step, Begin, Lock, Digest, PingReuses, PingRemoves, Establish, OpenFails,
             Cache, Guarded, Fault, Serve, Dropped, Goto
      <4>2. holder = c  BY <4>1 DEF HolderOpens
      <4>3. pc[d] \notin Opening  BY <3>2, <4>2 DEF HolderOpens
      <4> QED
        BY <2>2, <3>2, <4>2, <4>3 DEF Opening, Step, Begin, Lock, Digest, PingReuses, PingRemoves, Establish,
             OpenFails, Cache, Guarded, Fault, Serve, Dropped
    <3> QED BY <3>1, <3>2
  <2> QED BY <2>1, <2>2 DEF Next
<1>3. HolderOpens => OneOpener  BY DEF HolderOpens, OneOpener
<1>4. Spec => []TypeOK
  <2>1. IInv => TypeOK  BY DEF IInv
  <2> QED BY <2>1, AgentInvariant, PTL
<1> QED BY <1>1, <1>2, <1>3, <1>4, PTL DEF Spec

-----------------------------------------------------------------------------
(* Tokens.                                                                 *)

Locking == {"issuing", "revoking", "issueSync", "revokeSync"}
Copying == {"issuing", "revoking"}
Issuing == {"issue", "issuing"}

\* A writer past the lock holds it, what it read is the file until it renames,
\* and then the file has its entry.
Steady ==
    \A w \in Writers :
        /\ job[w].pc \in Locking => lock = w
        /\ job[w].pc \in Copying => job[w].read = file
        /\ job[w].pc = "issueSync" => file[job[w].token] = "live"
        /\ job[w].pc = "revokeSync" => file[job[w].token] # "live"

\* Writers work on generated ids, and one that is being issued is told to nobody.
OwnIds ==
    \A w \in Writers :
        /\ job[w].pc # "idle" => job[w].token \in used
        /\ job[w].pc \in Issuing =>
              /\ job[w].token \notin known \cup revoked
              /\ \A v \in Writers : v # w /\ job[v].pc # "idle" => job[v].token # job[w].token

\* A request marked dead has a bearer whose revocation was acknowledged.
Marked == \A r \in dead : req[r].token \in revoked

\* A request past the limiter was charged or has a candidate.
Counted == \A r \in Requests : req[r].pc = "verify" => r \in charged \cup candidates

DiskInv == Steady /\ OwnIds /\ AcknowledgedKept
RequestInv == Marked /\ Counted /\ RevokedStaysOut /\ FailuresCharged
StoreInv == StoreTypeOK /\ DiskInv /\ RequestInv

-----------------------------------------------------------------------------
(* Records.                                                                *)

LEMMA NoJobType == NoJob \in Jobs /\ NoJob.pc = "idle"
  BY DEF NoJob, Jobs, Store, States

LEMMA NoReqType ==
    ASSUME stamp \in Stamps, file \in Store
    PROVE  NoReq \in Reqs /\ NoReq.pc = "idle"
  BY DEF NoReq, Reqs

LEMMA OneJob ==
    ASSUME job \in [Writers -> Jobs], NEW w \in Writers, NEW j \in Jobs, SetJob(w, j)
    PROVE  /\ job' \in [Writers -> Jobs] /\ job'[w] = j
           /\ \A v \in Writers : v # w => job'[v] = job[v]
  BY DEF SetJob

LEMMA OneReq ==
    ASSUME req \in [Requests -> Reqs], NEW r \in Requests, NEW q \in Reqs, SetReq(r, q)
    PROVE  /\ req' \in [Requests -> Reqs] /\ req'[r] = q
           /\ \A s \in Requests : s # r => req'[s] = req[s]
  BY DEF SetReq

LEMMA JobFor ==
    ASSUME NEW j \in Jobs, NEW x \in Tokens, NEW p \in {"issue", "revoke"}
    PROVE  LET n == [j EXCEPT !.pc = p, !.token = x]
           IN  n \in Jobs /\ n.pc = p /\ n.token = x /\ n.read = j.read
  BY DEF Jobs

\* A request moves on; its bearer stays.
LEMMA ReqAt ==
    ASSUME NEW q \in Reqs,
           NEW p \in {"idle", "stamp", "load", "restamp", "look", "admit", "verify", "passed", "failed", "throttled"}
    PROVE  LET n == [q EXCEPT !.pc = p] IN n \in Reqs /\ n.pc = p /\ n.token = q.token
  BY DEF Reqs

-----------------------------------------------------------------------------
LEMMA StoreInvInit == StoreInit => StoreInv
<1> SUFFICES ASSUME StoreInit PROVE StoreInv
  OBVIOUS
<1>1. file \in Store /\ synced \in Store /\ stamp \in Stamps
  BY DEF StoreInit, Store, States
<1>2. StoreTypeOK
  BY <1>1, NoJobType, NoReqType DEF StoreInit, StoreTypeOK
<1>3. DiskInv
  BY NoJobType DEF StoreInit, DiskInv, Steady, OwnIds, AcknowledgedKept, Locking, Copying, Issuing
<1>4. RequestInv
  BY <1>1, NoReqType DEF StoreInit, RequestInv, Marked, Counted, RevokedStaysOut, FailuresCharged
<1> QED
  BY <1>2, <1>3, <1>4 DEF StoreInv

-----------------------------------------------------------------------------
(* Writers.  What they do to requests is to acknowledge revocations.       *)

LEMMA WriterRequests ==
    ASSUME RequestInv, UNCHANGED reqVars, revoked \subseteq revoked'
    PROVE  RequestInv'
  BY DEF RequestInv, Marked, Counted, RevokedStaysOut, FailuresCharged, reqVars, markVars

LEMMA WriterIssue ==
    ASSUME StoreInv, NEW w \in Writers, NEW x \in Tokens, Issue(w, x)
    PROVE  StoreInv'
<1> DEFINE j == [job[w] EXCEPT !.pc = "issue", !.token = x]
<1>1. StoreTypeOK /\ DiskInv /\ RequestInv
  BY DEF StoreInv
<1>2. job[w] \in Jobs
  BY <1>1 DEF StoreTypeOK
<1>3. j \in Jobs /\ j.pc = "issue" /\ j.token = x
  BY <1>2, JobFor
<1>4. SetJob(w, j) /\ x \notin used /\ used' = used \cup {x} /\ UNCHANGED <<file, stamp, synced, lock, tokenCache, known, revoked>> /\ UNCHANGED reqVars
  BY DEF Issue, diskVars
<1> HIDE DEF j
<1>5. job' \in [Writers -> Jobs] /\ job'[w] = j /\ \A v \in Writers : v # w => job'[v] = job[v]
  BY <1>1, <1>3, <1>4, OneJob DEF StoreTypeOK
<1>6. StoreTypeOK'
  BY <1>1, <1>4, <1>5 DEF StoreTypeOK, reqVars, markVars
<1>7. Steady' /\ AcknowledgedKept'
  BY <1>1, <1>3, <1>4, <1>5 DEF DiskInv, Steady, AcknowledgedKept, Locking, Copying
<1>8. OwnIds'
  BY <1>1, <1>3, <1>4, <1>5 DEF DiskInv, OwnIds, Issuing, StoreTypeOK
<1>9. RequestInv'
  BY <1>1, <1>4, WriterRequests
<1> QED
  BY <1>6, <1>7, <1>8, <1>9 DEF StoreInv, DiskInv

LEMMA WriterRevoke ==
    ASSUME StoreInv, NEW w \in Writers, NEW x \in Tokens, Revoke(w, x)
    PROVE  StoreInv'
<1> DEFINE j == [job[w] EXCEPT !.pc = "revoke", !.token = x]
<1>1. StoreTypeOK /\ DiskInv /\ RequestInv
  BY DEF StoreInv
<1>2. job[w] \in Jobs
  BY <1>1 DEF StoreTypeOK
<1>3. j \in Jobs /\ j.pc = "revoke" /\ j.token = x
  BY <1>2, JobFor
<1>4. /\ SetJob(w, j) /\ x \in used
      /\ \A v \in Writers : job[v].pc \in Issuing => job[v].token # x
      /\ UNCHANGED <<file, stamp, synced, lock, tokenCache, used, known, revoked>> /\ UNCHANGED reqVars
  BY DEF Revoke, diskVars, toldVars, Issuing
<1> HIDE DEF j
<1>5. job' \in [Writers -> Jobs] /\ job'[w] = j /\ \A v \in Writers : v # w => job'[v] = job[v]
  BY <1>1, <1>3, <1>4, OneJob DEF StoreTypeOK
<1>6. StoreTypeOK'
  BY <1>1, <1>4, <1>5 DEF StoreTypeOK, reqVars, markVars
<1>7. Steady' /\ AcknowledgedKept'
  BY <1>1, <1>3, <1>4, <1>5 DEF DiskInv, Steady, AcknowledgedKept, Locking, Copying
<1>8. OwnIds'
  BY <1>1, <1>3, <1>4, <1>5 DEF DiskInv, OwnIds, Issuing
<1>9. RequestInv'
  BY <1>1, <1>4, WriterRequests
<1> QED
  BY <1>6, <1>7, <1>8, <1>9 DEF StoreInv, DiskInv

LEMMA WriterAcquire ==
    ASSUME NoOne \notin Writers, StoreInv, NEW w \in Writers, Acquire(w)
    PROVE  StoreInv'
<1> DEFINE p == IF job[w].pc = "issue" THEN "issuing" ELSE "revoking"
           j == [job[w] EXCEPT !.pc = p, !.read = file]
<1>1. StoreTypeOK /\ DiskInv /\ RequestInv
  BY DEF StoreInv
<1>2. job[w] \in Jobs /\ file \in Store /\ p \in {"issuing", "revoking"}
  BY <1>1 DEF StoreTypeOK
<1>3. j \in Jobs /\ j.pc = p /\ j.token = job[w].token /\ j.read = file
  <2>1. CASE job[w].pc = "issue"
    BY <1>2, <2>1 DEF Jobs
  <2>2. CASE job[w].pc # "issue"
    BY <1>2, <2>2 DEF Jobs
  <2> QED
    BY <2>1, <2>2
<1>4. /\ SetJob(w, j) /\ job[w].pc \in {"issue", "revoke"} /\ lock = NoOne /\ lock' = w
      /\ UNCHANGED <<file, stamp, synced, tokenCache, used, known, revoked>> /\ UNCHANGED reqVars
  BY DEF Acquire, diskVars, toldVars
<1>5. p = IF job[w].pc = "issue" THEN "issuing" ELSE "revoking"
  OBVIOUS
<1> HIDE DEF j, p
<1>6. job' \in [Writers -> Jobs] /\ job'[w] = j /\ \A v \in Writers : v # w => job'[v] = job[v]
  BY <1>1, <1>3, <1>4, OneJob DEF StoreTypeOK
<1>7. StoreTypeOK'
  BY <1>1, <1>4, <1>6 DEF StoreTypeOK, reqVars, markVars
<1>8. Steady' /\ AcknowledgedKept'
  BY <1>1, <1>2, <1>3, <1>4, <1>6 DEF DiskInv, Steady, AcknowledgedKept, Locking, Copying
<1>9. OwnIds'
  <2>1. ASSUME NEW v \in Writers
        PROVE  /\ job'[v].token = job[v].token
               /\ job'[v].pc # "idle" <=> job[v].pc # "idle"
               /\ job'[v].pc \in Issuing <=> job[v].pc \in Issuing
    <3>1. CASE v = w
      BY <1>2, <1>3, <1>4, <1>5, <1>6, <3>1 DEF Issuing
    <3>2. CASE v # w
      BY <1>6, <3>2
    <3> QED BY <3>1, <3>2
  <2> QED BY <1>1, <1>4, <2>1 DEF DiskInv, OwnIds
<1>10. RequestInv'
  BY <1>1, <1>4, WriterRequests
<1> QED
  BY <1>7, <1>8, <1>9, <1>10 DEF StoreInv, DiskInv

LEMMA WriterRename ==
    ASSUME StoreInv, NEW w \in Writers, Rename(w)
    PROVE  StoreInv'
<1> DEFINE p == IF job[w].pc = "issuing" THEN "issueSync" ELSE "revokeSync"
           j == [job[w] EXCEPT !.pc = p]
           x == job[w].token
           e == Entry(job[w])
<1>1. StoreTypeOK /\ DiskInv /\ RequestInv
  BY DEF StoreInv
<1>2. job[w] \in Jobs /\ file \in Store /\ p \in {"issueSync", "revokeSync"}
  BY <1>1 DEF StoreTypeOK
<1>3. j \in Jobs /\ j.pc = p /\ j.token = x
  <2>1. CASE job[w].pc = "issuing"
    BY <1>2, <2>1 DEF Jobs
  <2>2. CASE job[w].pc # "issuing"
    BY <1>2, <2>2 DEF Jobs
  <2> QED
    BY <2>1, <2>2
<1>4. /\ SetJob(w, j) /\ job[w].pc \in Copying /\ stamp' \in Stamps
      /\ file' = [job[w].read EXCEPT ![x] = e]
      /\ UNCHANGED <<synced, lock, tokenCache, used, known, revoked>> /\ UNCHANGED reqVars
  BY DEF Rename, toldVars, Copying
<1>5. job[w].read = file /\ lock = w /\ x \in used /\ x \in Tokens
  BY <1>1, <1>4 DEF DiskInv, Steady, OwnIds, Copying, Locking, StoreTypeOK
<1>6. job[w].pc = "issuing" => p = "issueSync" /\ e = "live" /\ x \notin revoked
  BY <1>1 DEF Entry, DiskInv, OwnIds, Issuing
<1>7. job[w].pc # "issuing" => p = "revokeSync" /\ e = (IF file[x] = "none" THEN "none" ELSE "revoked")
  BY <1>5 DEF Entry
<1> HIDE DEF j, p, x, e
<1>8. job' \in [Writers -> Jobs] /\ job'[w] = j /\ \A v \in Writers : v # w => job'[v] = job[v]
  BY <1>1, <1>3, <1>4, OneJob DEF StoreTypeOK
<1>9. file' \in Store /\ file'[x] = e /\ \A y \in Tokens : y # x => file'[y] = file[y]
  BY <1>2, <1>4, <1>5, <1>6, <1>7 DEF Store, States
<1>10. \A v \in Writers : v # w => job[v].pc \notin Locking
  BY <1>1, <1>5 DEF DiskInv, Steady
<1>11. StoreTypeOK'
  BY <1>1, <1>4, <1>8, <1>9 DEF StoreTypeOK, reqVars, markVars
<1>12. Steady'
  BY <1>1, <1>2, <1>3, <1>4, <1>5, <1>6, <1>7, <1>8, <1>9, <1>10 DEF Steady, Locking, Copying
<1>13. AcknowledgedKept'
  <2>1. \A y \in known : y \in Tokens /\ file[y] # "none" /\ synced[y] # "none"
    BY <1>1 DEF DiskInv, AcknowledgedKept, StoreTypeOK
  <2>2. \A y \in revoked : y \in Tokens /\ file[y] # "live" /\ synced[y] # "live"
    BY <1>1 DEF DiskInv, AcknowledgedKept, StoreTypeOK
  <2>3. \A y \in known : file'[y] # "none"
    BY <2>1, <1>6, <1>7, <1>9
  <2>4. \A y \in revoked : file'[y] # "live"
    BY <2>2, <1>6, <1>7, <1>9
  <2> QED
    BY <2>1, <2>2, <2>3, <2>4, <1>4 DEF AcknowledgedKept
<1>14. OwnIds'
  <2>1. job'[w].pc \notin Issuing /\ job'[w].token = x
    BY <1>2, <1>3, <1>8 DEF Issuing
  <2>2. \A v \in Writers : v # w /\ job[v].pc \in Issuing => job[v].token # x
    BY <1>1, <1>4 DEF DiskInv, OwnIds, Copying, x
  <2> QED
    BY <1>1, <1>4, <1>5, <1>8, <2>1, <2>2 DEF DiskInv, OwnIds
<1>15. RequestInv'
  BY <1>1, <1>4, WriterRequests
<1> QED
  BY <1>11, <1>12, <1>13, <1>14, <1>15 DEF StoreInv, DiskInv

LEMMA WriterSynced ==
    ASSUME StoreInv, NEW w \in Writers, Synced(w)
    PROVE  StoreInv'
<1> DEFINE x == job[w].token
<1>1. StoreTypeOK /\ DiskInv /\ RequestInv
  BY DEF StoreInv
<1>2. /\ SetJob(w, NoJob) /\ job[w].pc \in {"issueSync", "revokeSync"} /\ synced' = file
      /\ known' = IF job[w].pc = "issueSync" THEN known \cup {x} ELSE known
      /\ revoked' = IF job[w].pc = "revokeSync" THEN revoked \cup {x} ELSE revoked
      /\ lock' = NoOne
      /\ tokenCache' = IF w \in Serving THEN [tokens |-> file, stamp |-> stamp] ELSE tokenCache
      /\ UNCHANGED <<file, stamp, used>> /\ UNCHANGED reqVars
  BY DEF Synced
<1>3. lock = w /\ x \in used
  BY <1>1, <1>2 DEF DiskInv, Steady, OwnIds, Locking
<1>4. job' \in [Writers -> Jobs] /\ job'[w] = NoJob /\ \A v \in Writers : v # w => job'[v] = job[v]
  BY <1>1, <1>2, NoJobType, OneJob DEF StoreTypeOK
<1>5. \A v \in Writers : v # w => job[v].pc \notin Locking
  BY <1>1, <1>3 DEF DiskInv, Steady
<1>6. tokenCache' \in [tokens : Store, stamp : Stamps]
  BY <1>1, <1>2 DEF StoreTypeOK
<1>7. StoreTypeOK'
  BY <1>1, <1>2, <1>3, <1>4, <1>6 DEF StoreTypeOK, reqVars, markVars
<1>8. job[w].pc = "issueSync" => file[x] = "live"
  BY <1>1 DEF DiskInv, Steady
<1>9. job[w].pc = "revokeSync" => file[x] # "live"
  BY <1>1 DEF DiskInv, Steady
<1>10. Steady'
  BY <1>2, <1>4, <1>5, NoJobType DEF Steady, Locking, Copying
<1>11. AcknowledgedKept'
  BY <1>1, <1>2, <1>8, <1>9 DEF DiskInv, AcknowledgedKept
<1>12. OwnIds'
  <2>1. \A v \in Writers : v # w /\ job[v].pc \in Issuing => job[v].token # x
    BY <1>1, <1>2 DEF DiskInv, OwnIds
  <2> QED
    BY <1>1, <1>2, <1>4, <2>1, NoJobType DEF DiskInv, OwnIds, Issuing
<1>13. RequestInv'
  BY <1>1, <1>2, WriterRequests
<1> QED
  BY <1>7, <1>10, <1>11, <1>12, <1>13 DEF StoreInv, DiskInv

LEMMA WriterStops ==
    ASSUME StoreInv, NEW w \in Writers, Stops(w)
    PROVE  StoreInv'
<1>1. StoreTypeOK /\ DiskInv /\ RequestInv
  BY DEF StoreInv
<1>2. /\ SetJob(w, NoJob) /\ lock' = IF lock = w THEN NoOne ELSE lock
      /\ UNCHANGED <<file, stamp, synced, tokenCache, used, known, revoked>> /\ UNCHANGED reqVars
  BY DEF Stops, diskVars, toldVars
<1>3. job' \in [Writers -> Jobs] /\ job'[w] = NoJob /\ \A v \in Writers : v # w => job'[v] = job[v]
  BY <1>1, <1>2, NoJobType, OneJob DEF StoreTypeOK
<1>4. StoreTypeOK'
  BY <1>1, <1>2, <1>3 DEF StoreTypeOK, reqVars, markVars
<1>5. Steady' /\ AcknowledgedKept'
  BY <1>1, <1>2, <1>3, NoJobType DEF DiskInv, Steady, AcknowledgedKept, Locking, Copying
<1>6. OwnIds'
  BY <1>1, <1>2, <1>3, NoJobType DEF DiskInv, OwnIds, Issuing
<1>7. RequestInv'
  BY <1>1, <1>2, WriterRequests
<1> QED
  BY <1>4, <1>5, <1>6, <1>7 DEF StoreInv, DiskInv

-----------------------------------------------------------------------------
(* Requests.  They change nothing on disk.                                 *)

\* A request's step keeps the invariant if it keeps the types, its own marks
\* and its own end.
LEMMA RequestStep ==
    ASSUME StoreInv, NEW r \in Requests, NEW q \in Reqs, SetReq(r, q),
           UNCHANGED <<file, stamp, synced, lock, job, used, known, revoked>>,
           tokenCache' \in [tokens : Store, stamp : Stamps],
           again' \subseteq Requests, candidates' \subseteq Requests,
           charged' \subseteq Requests, dead' \subseteq Requests,
           \A s \in Requests : s # r =>
               /\ s \in dead' <=> s \in dead
               /\ s \in charged' <=> s \in charged
               /\ s \in candidates' <=> s \in candidates,
           r \in dead' => q.token \in revoked,
           q.pc = "verify" => r \in charged' \cup candidates',
           q.pc = "passed" => r \notin dead',
           q.pc \in {"failed", "throttled"} => r \in charged'
    PROVE  StoreInv'
<1>1. StoreTypeOK /\ DiskInv /\ RequestInv
  BY DEF StoreInv
<1>2. req' \in [Requests -> Reqs] /\ req'[r] = q /\ \A s \in Requests : s # r => req'[s] = req[s]
  BY <1>1, OneReq DEF StoreTypeOK
<1>3. StoreTypeOK'
  BY <1>1, <1>2 DEF StoreTypeOK
<1>4. DiskInv'
  BY <1>1 DEF DiskInv, Steady, OwnIds, AcknowledgedKept
<1>5. Marked'
  BY <1>1, <1>2 DEF RequestInv, Marked, StoreTypeOK
<1>6. Counted'
  BY <1>1, <1>2 DEF RequestInv, Counted
<1>7. RevokedStaysOut'
  BY <1>1, <1>2 DEF RequestInv, RevokedStaysOut
<1>8. FailuresCharged'
  BY <1>1, <1>2 DEF RequestInv, FailuresCharged
<1> QED
  BY <1>3, <1>4, <1>5, <1>6, <1>7, <1>8 DEF StoreInv, RequestInv

LEMMA RequestIInv ==
    ASSUME StoreInv, NEW r \in Requests, Authenticate(r)
    PROVE  StoreInv'
<1>1. /\ StoreTypeOK /\ DiskInv /\ RequestInv /\ req[r] \in Reqs
      /\ file \in Store /\ stamp \in Stamps
      /\ r \in dead => req[r].token \in revoked
  BY DEF StoreInv, StoreTypeOK, RequestInv, Marked
<1> USE DEF diskVars, markVars, toldVars
<1>2. ASSUME NEW x \in Tokens \cup {Guess}, Arrive(r, x) PROVE StoreInv'
  <2> DEFINE q == [NoReq EXCEPT !.pc = "stamp", !.token = x]
  <2>1. q \in Reqs /\ q.pc = "stamp" /\ q.token = x
    BY <1>1 DEF NoReq, Reqs
  <2>2. SetReq(r, q)
    BY <1>2 DEF Arrive
  <2> HIDE DEF q
  <2> QED
    BY <1>1, <1>2, <2>1, <2>2, RequestStep DEF Arrive, StoreTypeOK
<1>3. CASE ReadStamp(r)
  <2> DEFINE q == [req[r] EXCEPT !.pc = IF tokenCache.stamp = stamp THEN "look" ELSE "load", !.seen = stamp]
  <2>1. q \in Reqs /\ q.pc \in {"look", "load"} /\ q.token = req[r].token
    BY <1>1 DEF Reqs
  <2>2. SetReq(r, q)
    BY <1>3 DEF ReadStamp
  <2> HIDE DEF q
  <2> QED
    BY <1>1, <1>3, <2>1, <2>2, RequestStep DEF ReadStamp, StoreTypeOK
<1>4. CASE Load(r)
  <2> DEFINE q == [req[r] EXCEPT !.pc = "restamp", !.read = file]
  <2>1. q \in Reqs /\ q.pc = "restamp" /\ q.token = req[r].token
    BY <1>1 DEF Reqs
  <2>2. SetReq(r, q)
    BY <1>4 DEF Load
  <2> HIDE DEF q
  <2> QED
    BY <1>1, <1>4, <2>1, <2>2, RequestStep DEF Load, StoreTypeOK
<1>5. CASE Refresh(r)
  <2> DEFINE q == [req[r] EXCEPT !.pc = "look"]
  <2>1. q \in Reqs /\ q.pc = "look" /\ q.token = req[r].token
    BY <1>1, ReqAt
  <2>2. SetReq(r, q)
    BY <1>5 DEF Refresh
  <2>3. tokenCache' \in [tokens : Store, stamp : Stamps]
    BY <1>1, <1>5 DEF Refresh, Reqs
  <2> HIDE DEF q
  <2> QED
    BY <1>1, <1>5, <2>1, <2>2, <2>3, RequestStep DEF Refresh, StoreTypeOK
<1>6. CASE Changed(r)
  <2> DEFINE q == [req[r] EXCEPT !.pc = IF r \in again THEN "idle" ELSE "stamp"]
  <2>1. q \in Reqs /\ q.pc \in {"idle", "stamp"} /\ q.token = req[r].token
    BY <1>1 DEF Reqs
  <2>2. SetReq(r, q)
    BY <1>6 DEF Changed
  <2> HIDE DEF q
  <2> QED
    BY <1>1, <1>6, <2>1, <2>2, RequestStep DEF Changed, StoreTypeOK
<1>7. CASE Unreadable(r) \/ Answer(r)
  <2> DEFINE q == [req[r] EXCEPT !.pc = "idle"]
  <2>1. q \in Reqs /\ q.pc = "idle" /\ q.token = req[r].token
    BY <1>1, ReqAt
  <2>2. SetReq(r, q)
    BY <1>7 DEF Unreadable, Answer
  <2> HIDE DEF q
  <2> QED
    BY <1>1, <1>7, <2>1, <2>2, RequestStep DEF Unreadable, Answer, StoreTypeOK
<1>8. ASSUME NEW b \in BOOLEAN, Look(r, b) PROVE StoreInv'
  <2> DEFINE q == [req[r] EXCEPT !.pc = "admit"]
  <2>1. q \in Reqs /\ q.pc = "admit" /\ q.token = req[r].token
    BY <1>1, ReqAt
  <2>2. SetReq(r, q)
    BY <1>8 DEF Look
  <2>3. candidates' \in {candidates, candidates \cup {r}}
    BY <1>8 DEF Look
  <2> HIDE DEF q
  <2> QED
    BY <1>1, <1>8, <2>1, <2>2, <2>3, RequestStep DEF Look, StoreTypeOK
<1>9. ASSUME NEW b \in BOOLEAN, Admit(r, b) PROVE StoreInv'
  <2> DEFINE p == IF r \in candidates \/ b THEN "verify" ELSE "throttled"
             q == [req[r] EXCEPT !.pc = p]
  <2>1. p \in {"verify", "throttled"} /\ (p = "throttled" => r \notin candidates)
    OBVIOUS
  <2>2. SetReq(r, q)
    BY <1>9 DEF Admit
  <2> HIDE DEF p
  <2>3. q \in Reqs /\ q.pc = p /\ q.token = req[r].token
    BY <1>1, <2>1 DEF Reqs
  <2> HIDE DEF q
  <2>4. r \in charged' \cup candidates /\ (p = "throttled" => r \in charged')
    BY <1>9, <2>1 DEF Admit
  <2> QED
    BY <1>1, <1>9, <2>1, <2>2, <2>3, <2>4, RequestStep DEF Admit, StoreTypeOK
<1>10. CASE Verified(r)
  <2> DEFINE q == [req[r] EXCEPT !.pc = "passed"]
  <2>1. q \in Reqs /\ q.pc = "passed" /\ q.token = req[r].token
    BY <1>1, ReqAt
  <2>2. SetReq(r, q) /\ Live(file, req[r].token)
    BY <1>10 DEF Verified
  <2> HIDE DEF q
  <2>3. req[r].token \notin revoked
    BY <1>1, <2>2 DEF Live, DiskInv, AcknowledgedKept
  <2>4. tokenCache' \in [tokens : Store, stamp : Stamps]
    BY <1>1, <1>10 DEF Verified
  <2> QED
    BY <1>1, <1>10, <2>1, <2>2, <2>3, <2>4, RequestStep DEF Verified, StoreTypeOK
<1>11. ASSUME NEW b \in BOOLEAN, Rejected(r, b) PROVE StoreInv'
  <2> DEFINE q == [req[r] EXCEPT !.pc = "failed"]
  <2>1. q \in Reqs /\ q.pc = "failed" /\ q.token = req[r].token
    BY <1>1, ReqAt
  <2>2. SetReq(r, q)
    BY <1>11 DEF Rejected
  <2> HIDE DEF q
  <2>3. r \in charged'
    BY <1>1, <1>11 DEF Rejected, RequestInv, Counted
  <2>4. tokenCache' \in [tokens : Store, stamp : Stamps]
    BY <1>1, <1>11 DEF Rejected, StoreTypeOK
  <2> QED
    BY <1>1, <1>11, <2>1, <2>2, <2>3, <2>4, RequestStep DEF Rejected, StoreTypeOK
<1> QED
  BY <1>2, <1>3, <1>4, <1>5, <1>6, <1>7, <1>8, <1>9, <1>10, <1>11 DEF Authenticate

-----------------------------------------------------------------------------
LEMMA CrashIInv ==
    ASSUME StoreInv, Crash
    PROVE  StoreInv'
<1>1. StoreTypeOK /\ DiskInv
  BY DEF StoreInv
<1>2. /\ file' \in {file, synced} /\ synced' = file' /\ stamp' \in Stamps /\ lock' = NoOne
      /\ tokenCache' = [tokens |-> file', stamp |-> stamp']
      /\ job' = [w \in Writers |-> NoJob] /\ req' = [r \in Requests |-> NoReq]
      /\ again' = {} /\ candidates' = {} /\ charged' = {} /\ dead' = {}
      /\ UNCHANGED <<used, known, revoked>>
  BY DEF Crash, toldVars
<1>3. NoReq \in Reqs /\ NoReq.pc = "idle"
  BY <1>1, NoReqType DEF StoreTypeOK
<1>4. StoreTypeOK'
  BY <1>1, <1>2, <1>3, NoJobType DEF StoreTypeOK
<1>5. DiskInv'
  BY <1>1, <1>2, NoJobType DEF DiskInv, Steady, OwnIds, AcknowledgedKept, Locking, Copying, Issuing
<1>6. RequestInv'
  BY <1>2, <1>3 DEF RequestInv, Marked, Counted, RevokedStaysOut, FailuresCharged
<1> QED
  BY <1>4, <1>5, <1>6 DEF StoreInv

LEMMA StoreInvStep ==
    ASSUME NoOne \notin Writers, StoreInv, [StoreNext]_storeVars
    PROVE  StoreInv'
<1>1. CASE UNCHANGED storeVars
  <2>1. UNCHANGED <<file, stamp, synced, lock, tokenCache, job, req, again, candidates, charged, dead, used, known, revoked>>
    BY <1>1 DEF storeVars, diskVars, toldVars, reqVars, markVars
  <2>2. StoreTypeOK' /\ DiskInv'
    BY <2>1 DEF StoreInv, StoreTypeOK, DiskInv, Steady, OwnIds, AcknowledgedKept
  <2>3. RequestInv'
    BY <2>1 DEF StoreInv, RequestInv, Marked, Counted, RevokedStaysOut, FailuresCharged
  <2> QED
    BY <2>2, <2>3 DEF StoreInv
<1>2. ASSUME NEW w \in Writers, Write(w) PROVE StoreInv'
  BY <1>2, WriterIssue, WriterRevoke, WriterAcquire, WriterRename, WriterSynced, WriterStops DEF Write
<1> QED
  BY <1>1, <1>2, RequestIInv, CrashIInv DEF StoreNext

-----------------------------------------------------------------------------
(* Theorems.                                                               *)

\* The inductive invariant of the token store, when nobody is no writer.
THEOREM TokenInvariant ==
    ASSUME NoOne \notin Writers
    PROVE  StoreSpec => []StoreInv
<1>1. StoreInit => StoreInv
  BY StoreInvInit
<1>2. StoreInv /\ [StoreNext]_storeVars => StoreInv'
  BY StoreInvStep
<1> QED
  BY <1>1, <1>2, PTL DEF StoreSpec

\* An acknowledged issue or revocation is never lost: not to another process's
\* rewrite of the file, not to a failed write, not to a crash of the host.
THEOREM TokenAcknowledged ==
    ASSUME NoOne \notin Writers
    PROVE  StoreSpec => []AcknowledgedKept
<1>1. StoreInv => AcknowledgedKept
  BY DEF StoreInv, DiskInv
<1> QED
  BY <1>1, TokenInvariant, PTL

\* No bearer authenticates whose revocation was acknowledged before the request,
\* whatever the cache holds and whichever stamps come back.
THEOREM TokenRevokedStaysOut ==
    ASSUME NoOne \notin Writers
    PROVE  StoreSpec => []RevokedStaysOut
<1>1. StoreInv => RevokedStaysOut
  BY DEF StoreInv, RequestInv
<1> QED
  BY <1>1, TokenInvariant, PTL

\* Every bearer that was looked up and failed was put to auth_rate_limiter.
THEOREM TokenFailuresCharged ==
    ASSUME NoOne \notin Writers
    PROVE  StoreSpec => []FailuresCharged
<1>1. StoreInv => FailuresCharged
  BY DEF StoreInv, RequestInv
<1> QED
  BY <1>1, TokenInvariant, PTL
=============================================================================
