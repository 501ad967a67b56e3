---------------------------- MODULE AgentSessions ----------------------------
(***************************************************************************)
(* The session cache of DaemonProvider, crates/agentd/src/lib.rs, for one  *)
(* saved connection.  A tool call reads the saved row, takes the row's     *)
(* lock, digests the secrets (session_material_digest), reuses the cached  *)
(* session if its key still matches and it answers a ping, or opens a new  *)
(* one and caches it under a second digest.  The row and the secrets       *)
(* change under it, drivers fail, and run_bounded drops it at any await.   *)
(* The secrets are known by their revision.  Of the row the key holds the  *)
(* transport fields; read_only, auth_source, attached_databases and        *)
(* connect_timeout_secs, with which the connection is opened as well, are  *)
(* the rest of it.                                                         *)
(***************************************************************************)
EXTENDS Naturals, Sequences

CONSTANTS
    Callers,      \* tool calls that may be under way at once
    Nobody,       \* no call
    MaxRows,      \* bound: values of the saved row's fields
    MaxRotations, \* bound: rotations of its secrets
    MaxSessions   \* bound: connections opened

VARIABLES
    pc,           \* where each call is
    row,          \* the saved connection
    material,     \* revision of its secrets and key files
    opened,       \* the row each connection was opened with, in order
    retired,      \* OpenSession::retired, set
    faulted,      \* connections a guard has reported as unusable
    cache,        \* the cached session, 0 for none
    key,          \* the key it is cached under
    holder,       \* session_lock: the call that holds it, or Nobody
    call          \* what each call holds

world == <<row, material>>
flagVars == <<retired, faulted>>
vars == <<pc, world, opened, flagVars, cache, key, holder, call>>

\* SavedConnection: what SessionKey takes of it, and what it leaves out.
Rows == [transport : Nat, rest : Nat]
FirstRow == [transport |-> 0, rest |-> 0]
Keys == [transport : Nat, material : Nat]
NoKey == [transport |-> 0, material |-> 0]
\* saved: the row the call read; seen: the secrets when it began; at: its
\* connection; flags: the session whose flags its guard shares.
Calls == [saved : Rows, seen : Nat, key : Keys, at : Nat, flags : Nat]
NoCall == [saved |-> FirstRow, seen |-> 0, key |-> NoKey, at |-> 0, flags |-> 0]

TypeOK ==
    /\ pc \in [Callers -> {"idle", "locking", "digesting", "pinging", "connecting", "recheck",
                           "guarding", "serving"}]
    /\ row \in Rows /\ material \in Nat
    /\ opened \in Seq(Rows) /\ retired \subseteq Nat /\ faulted \subseteq Nat
    /\ cache \in 0 .. Len(opened) /\ key \in Keys
    /\ holder \in Callers \cup {Nobody}
    /\ call \in [Callers -> Calls]

\* DaemonProvider::new.
Init ==
    /\ pc = [c \in Callers |-> "idle"]
    /\ row = FirstRow /\ material = 0
    /\ opened = <<>> /\ retired = {} /\ faulted = {} /\ cache = 0 /\ key = NoKey
    /\ holder = Nobody
    /\ call = [c \in Callers |-> NoCall]

Goto(c, l) == pc' = [pc EXCEPT ![c] = l]
Hold(c, r) == call' = [call EXCEPT ![c] = r]
\* The guard of the row's lock is dropped.
Unlock == holder' = Nobody

-----------------------------------------------------------------------------
(* The world outside the call.                                             *)

\* update_connection and save_connections: any field, to any value, an earlier
\* one included.
EditRow ==
    /\ row' \in [transport : 0 .. MaxRows, rest : 0 .. MaxRows]
    /\ UNCHANGED <<pc, material, opened, flagVars, cache, key, holder, call>>

\* store_secret, or another key file.
Rotate ==
    /\ material < MaxRotations
    /\ material' = material + 1
    /\ UNCHANGED <<pc, row, opened, flagVars, cache, key, holder, call>>

-----------------------------------------------------------------------------
(* open_session_for.                                                       *)

\* ConnectionProvider::connection reads the row and asks for its lock.
Begin(c) ==
    /\ pc[c] = "idle"
    /\ Hold(c, [NoCall EXCEPT !.saved = row, !.seen = material])
    /\ Goto(c, "locking")
    /\ UNCHANGED <<world, opened, flagVars, cache, key, holder>>

Lock(c) ==
    /\ pc[c] = "locking" /\ holder = Nobody
    /\ holder' = c
    /\ Goto(c, "digesting")
    /\ UNCHANGED <<world, opened, flagVars, cache, key, call>>

\* SessionKey::from_saved.
SessionKey(r, m) == [transport |-> r.transport, material |-> m]

\* The digest succeeds; cached_connection drops a session under another key.
Digest(c) ==
    /\ pc[c] = "digesting"
    /\ LET k == SessionKey(call[c].saved, material)
           kept == IF cache # 0 /\ key = k THEN cache ELSE 0
       IN  /\ cache' = kept
           /\ Hold(c, [call[c] EXCEPT !.key = k, !.at = kept])
           /\ Goto(c, IF kept # 0 THEN "pinging" ELSE "connecting")
    /\ UNCHANGED <<world, opened, flagVars, key, holder>>

\* session_is_current.
Current(c) == cache # 0 /\ cache = call[c].at /\ key = call[c].key

\* ping_is_healthy under SESSION_PING_TIMEOUT, then session_retirement and
\* session_is_current.
PingReuses(c) ==
    /\ pc[c] = "pinging" /\ call[c].at \notin retired /\ Current(c)
    /\ Unlock
    /\ Goto(c, "guarding")
    /\ UNCHANGED <<world, opened, flagVars, cache, key, call>>

\* A session that does not answer, is retired or is not current any more is
\* removed (remove_session).
PingRemoves(c) ==
    /\ pc[c] = "pinging"
    /\ cache' = IF Current(c) THEN 0 ELSE cache
    /\ Hold(c, [call[c] EXCEPT !.at = 0])
    /\ Goto(c, "connecting")
    /\ UNCHANGED <<world, opened, flagVars, key, holder>>

\* connect_session.
Establish(c) ==
    /\ pc[c] = "connecting" /\ Len(opened) < MaxSessions
    /\ opened' = Append(opened, call[c].saved)
    /\ Hold(c, [call[c] EXCEPT !.at = Len(opened) + 1])
    /\ Goto(c, "recheck")
    /\ UNCHANGED <<world, flagVars, cache, key, holder>>

\* A digest fails, or the driver, its route or its secrets cannot be had.
OpenFails(c) ==
    /\ pc[c] \in {"digesting", "connecting", "recheck"}
    /\ Unlock
    /\ Hold(c, NoCall)
    /\ Goto(c, "idle")
    /\ UNCHANGED <<world, opened, flagVars, cache, key>>

\* The second digest, then new_session goes into the cache.
Cache(c) ==
    /\ pc[c] = "recheck"
    /\ key' = SessionKey(call[c].saved, material)
    /\ cache' = call[c].at
    /\ Unlock
    /\ Goto(c, "guarding")
    /\ UNCHANGED <<world, opened, flagVars, call>>

-----------------------------------------------------------------------------
(* The guarded handle.                                                     *)

\* guarded, with session_retirement: the cached session's flags if it is still
\* this connection, fresh ones otherwise.
Guarded(c) ==
    /\ pc[c] = "guarding"
    /\ Hold(c, [call[c] EXCEPT !.flags = IF cache = call[c].at THEN cache ELSE 0])
    /\ Goto(c, "serving")
    /\ UNCHANGED <<world, opened, flagVars, cache, key, holder>>

\* connection_became_unusable of SessionFaultSink.
Fault(c) ==
    /\ pc[c] = "serving"
    /\ faulted' = faulted \cup {call[c].at}
    /\ retired' = retired \cup ({call[c].flags} \ {0})
    /\ UNCHANGED <<pc, world, opened, cache, key, holder, call>>

\* The calls of SessionConnection forward to the driver; closing the handle
\* leaves the shared session open.
Serve(c) ==
    /\ pc[c] = "serving"
    /\ Hold(c, NoCall)
    /\ Goto(c, "idle")
    /\ UNCHANGED <<world, opened, flagVars, cache, key, holder>>

\* run_bounded drops the future at an await: the lock goes with it.
Dropped(c) ==
    /\ pc[c] \in {"locking", "digesting", "pinging", "connecting", "recheck"}
    /\ holder' = IF holder = c THEN Nobody ELSE holder
    /\ Hold(c, NoCall)
    /\ Goto(c, "idle")
    /\ UNCHANGED <<world, opened, flagVars, cache, key>>

-----------------------------------------------------------------------------
Step(c) ==
    \/ Begin(c) \/ Lock(c) \/ Digest(c) \/ PingReuses(c) \/ PingRemoves(c) \/ Establish(c)
    \/ OpenFails(c) \/ Cache(c) \/ Guarded(c) \/ Fault(c) \/ Serve(c) \/ Dropped(c)

Next == EditRow \/ Rotate \/ \E c \in Callers : Step(c)

Spec == Init /\ [][Next]_vars

-----------------------------------------------------------------------------
(* Properties.                                                             *)

\* At most one call pings, opens or caches a session of the row at a time, also
\* when calls fail or are dropped (session_lock).
Opening == {"digesting", "pinging", "connecting", "recheck"}
OneOpener == \A c, d \in Callers : pc[c] \in Opening /\ pc[d] \in Opening => c = d

\* The handle a call is given goes where the row the call read says: it was
\* opened with the same transport fields, whoever opened it and whatever was
\* edited since (SessionKey).  Nothing is claimed of the rest of the row: a
\* session opened before an edit of it is reused after the edit.
HandleHasItsTransport ==
    \A c \in Callers : pc[c] \in {"guarding", "serving"} =>
        opened[call[c].at].transport = call[c].saved.transport

\* "attaches a fault sink that retires only the matching session, even if its
\* ping still succeeds" (docs/connections.md): a session is retired by a fault
\* of its own connection only, and a fault reported by any handle keeps the
\* connection from being served again, however late it comes.
FaultsRetire ==
    /\ retired \subseteq faulted
    /\ cache # 0 /\ cache \in faulted => cache \in retired

\* A cached session is handed out only if no handle reported it, and only under
\* a digest of the secrets no older than the call: a call begun after a
\* rotation is not served from a cache filled before it
\* (a_key_material_rotation_during_connect_is_not_cached_under_the_stale_digest).
ReuseIsSound ==
    [][\A c \in Callers : pc[c] = "pinging" /\ pc'[c] = "guarding"
          => call[c].at \notin faulted /\ key.material >= call[c].seen]_vars
=============================================================================
