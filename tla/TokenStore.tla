----------------------------- MODULE TokenStore -----------------------------
(***************************************************************************)
(* TokenStore of crates/mcp/src/tokens.rs and McpBridge::authenticate.     *)
(* Processes share one token file under its lock file.  Issuing and        *)
(* revoking rewrite the whole file through a synced temporary file and a   *)
(* rename; a host crash undoes a rename whose directory was not synced.    *)
(* Requests first look a bearer up in a cache that is known by the file's  *)
(* stamp and refreshed without the lock, then in the file under the lock.  *)
(* A stamp may come back on another file, as an inode does.                *)
(***************************************************************************)
CONSTANTS
    Tokens,    \* token ids that may be issued
    Guess,     \* a bearer that is no token
    Writers,   \* callers of issue and revoke, in any process
    Serving,   \* those of them in the process that serves requests
    Requests,  \* requests that process answers at once
    Stamps,    \* what token_file_stamp tells apart
    NoOne      \* nobody holds the lock file

VARIABLES
    file,      \* tokens in the file: "none", "live" or "revoked"
    stamp,     \* its stamp
    synced,    \* the tokens a host crash leaves
    lock,      \* holder of the lock file
    tokenCache, \* TokenCache: the tokens and the stamp last read
    job,       \* what each writer does
    req,       \* what each request does
    again,     \* requests that found the file changing once
    candidates, \* requests whose bearer has_live_candidate found
    charged,   \* requests auth_rate_limiter counted or refused
    dead,      \* requests whose bearer's revocation had been acknowledged before
    used,      \* ids generated by Uuid::new_v4 so far
    known,     \* tokens whose plaintext was handed out
    revoked    \* tokens whose revocation was acknowledged

diskVars == <<file, stamp, synced>>
toldVars == <<used, known, revoked>>
markVars == <<again, candidates, charged, dead>>
reqVars == <<req, markVars>>
storeVars == <<diskVars, lock, tokenCache, job, reqVars, toldVars>>

States == {"none", "live", "revoked"}
Store == [Tokens -> States]
NoJob == [pc |-> "idle", token |-> Guess, read |-> [x \in Tokens |-> "none"]]
Jobs == [pc : {"idle", "issue", "revoke", "issuing", "revoking", "issueSync", "revokeSync"},
         token : Tokens \cup {Guess}, read : Store]
NoReq == [pc |-> "idle", token |-> Guess, seen |-> stamp, read |-> file]
Reqs == [pc : {"idle", "stamp", "load", "restamp", "look", "admit", "verify", "passed", "failed", "throttled"},
         token : Tokens \cup {Guess}, seen : Stamps, read : Store]

StoreTypeOK ==
    /\ file \in Store /\ stamp \in Stamps /\ synced \in Store
    /\ lock \in Writers \cup {NoOne}
    /\ tokenCache \in [tokens : Store, stamp : Stamps]
    /\ job \in [Writers -> Jobs] /\ req \in [Requests -> Reqs]
    /\ again \subseteq Requests /\ candidates \subseteq Requests
    /\ charged \subseteq Requests /\ dead \subseteq Requests
    /\ used \subseteq Tokens /\ known \subseteq used /\ revoked \subseteq used

\* TokenStore::open of an empty store.
StoreInit ==
    /\ file = [x \in Tokens |-> "none"] /\ stamp \in Stamps /\ synced = file
    /\ lock = NoOne /\ tokenCache = [tokens |-> file, stamp |-> stamp]
    /\ job = [w \in Writers |-> NoJob] /\ req = [r \in Requests |-> NoReq]
    /\ again = {} /\ candidates = {} /\ charged = {} /\ dead = {}
    /\ used = {} /\ known = {} /\ revoked = {}

SetJob(w, j) == job' = [job EXCEPT ![w] = j]
SetReq(r, q) == req' = [req EXCEPT ![r] = q]
\* hashes_match: a plaintext matches the entry it was made for.
Live(tokens, x) == x \in Tokens /\ tokens[x] = "live"

-----------------------------------------------------------------------------
(* issue and revoke.                                                       *)

\* issue generates an id and a plaintext.
Issue(w, x) ==
    /\ job[w].pc = "idle" /\ x \notin used
    /\ used' = used \cup {x}
    /\ SetJob(w, [job[w] EXCEPT !.pc = "issue", !.token = x])
    /\ UNCHANGED <<diskVars, lock, tokenCache, reqVars, known, revoked>>

\* revoke of an id from list, which knows it once it was in the file.
Revoke(w, x) ==
    /\ job[w].pc = "idle" /\ x \in used
    /\ \A v \in Writers : job[v].pc \in {"issue", "issuing"} => job[v].token # x
    /\ SetJob(w, [job[w] EXCEPT !.pc = "revoke", !.token = x])
    /\ UNCHANGED <<diskVars, lock, tokenCache, reqVars, toldVars>>

\* acquire_process_lock, then load_tokens.
Acquire(w) ==
    /\ job[w].pc \in {"issue", "revoke"} /\ lock = NoOne
    /\ lock' = w
    /\ SetJob(w, [job[w] EXCEPT !.pc = IF @ = "issue" THEN "issuing" ELSE "revoking", !.read = file])
    /\ UNCHANGED <<diskVars, tokenCache, reqVars, toldVars>>

\* The entry the writer leaves: revoke only marks one that is there.
Entry(j) == IF j.pc = "issuing" THEN "live" ELSE IF j.read[j.token] = "none" THEN "none" ELSE "revoked"

\* persist_through_temporary up to the rename.
Rename(w) ==
    /\ job[w].pc \in {"issuing", "revoking"}
    /\ file' = [job[w].read EXCEPT ![job[w].token] = Entry(job[w])]
    /\ stamp' \in Stamps
    /\ SetJob(w, [job[w] EXCEPT !.pc = IF @ = "issuing" THEN "issueSync" ELSE "revokeSync"])
    /\ UNCHANGED <<synced, lock, tokenCache, reqVars, toldVars>>

\* The directory is synced; the writer's cache takes the new file and its stamp.
Synced(w) ==
    /\ job[w].pc \in {"issueSync", "revokeSync"}
    /\ synced' = file
    /\ known' = IF job[w].pc = "issueSync" THEN known \cup {job[w].token} ELSE known
    /\ revoked' = IF job[w].pc = "revokeSync" THEN revoked \cup {job[w].token} ELSE revoked
    /\ tokenCache' = IF w \in Serving THEN [tokens |-> file, stamp |-> stamp] ELSE tokenCache
    /\ lock' = NoOne /\ SetJob(w, NoJob)
    /\ UNCHANGED <<file, stamp, reqVars, used>>

\* Loading, writing, renaming or syncing fails, or the writer's process dies: the
\* lock is released, and a file that was renamed stays.
Stops(w) ==
    /\ job[w].pc # "idle"
    /\ lock' = IF lock = w THEN NoOne ELSE lock
    /\ SetJob(w, NoJob)
    /\ UNCHANGED <<diskVars, tokenCache, reqVars, toldVars>>

-----------------------------------------------------------------------------
(* McpBridge::authenticate.                                                *)

\* A request arrives with a token or a guess.
Arrive(r, x) ==
    /\ req[r].pc = "idle"
    /\ SetReq(r, [NoReq EXCEPT !.pc = "stamp", !.token = x])
    /\ again' = again \ {r} /\ candidates' = candidates \ {r} /\ charged' = charged \ {r}
    /\ dead' = IF x \in revoked THEN dead \cup {r} ELSE dead \ {r}
    /\ UNCHANGED <<diskVars, lock, tokenCache, job, toldVars>>

\* refresh_cache_if_stale compares the stamp, without the lock.
ReadStamp(r) ==
    /\ req[r].pc = "stamp"
    /\ SetReq(r, [req[r] EXCEPT !.pc = IF tokenCache.stamp = stamp THEN "look" ELSE "load", !.seen = stamp])
    /\ UNCHANGED <<diskVars, lock, tokenCache, job, markVars, toldVars>>

Load(r) ==
    /\ req[r].pc = "load"
    /\ SetReq(r, [req[r] EXCEPT !.pc = "restamp", !.read = file])
    /\ UNCHANGED <<diskVars, lock, tokenCache, job, markVars, toldVars>>

\* The file looks the same before and after it was read.
Refresh(r) ==
    /\ req[r].pc = "restamp" /\ stamp = req[r].seen
    /\ tokenCache' = [tokens |-> req[r].read, stamp |-> stamp]
    /\ SetReq(r, [req[r] EXCEPT !.pc = "look"])
    /\ UNCHANGED <<diskVars, lock, job, markVars, toldVars>>

\* A file that changed is read once more; after that the call fails.
Changed(r) ==
    /\ req[r].pc = "restamp" /\ stamp # req[r].seen
    /\ SetReq(r, [req[r] EXCEPT !.pc = IF r \in again THEN "idle" ELSE "stamp"])
    /\ again' = again \cup {r}
    /\ UNCHANGED <<diskVars, lock, tokenCache, job, candidates, charged, dead, toldVars>>

\* The file cannot be examined or read.
Unreadable(r) ==
    /\ req[r].pc \in {"stamp", "load", "restamp"}
    /\ SetReq(r, [req[r] EXCEPT !.pc = "idle"])
    /\ UNCHANGED <<diskVars, lock, tokenCache, job, markVars, toldVars>>

\* has_live_candidate; a token may have expired.
Look(r, expired) ==
    /\ req[r].pc = "look"
    /\ SetReq(r, [req[r] EXCEPT !.pc = "admit"])
    /\ candidates' = IF Live(tokenCache.tokens, req[r].token) /\ ~expired THEN candidates \cup {r} ELSE candidates
    /\ UNCHANGED <<diskVars, lock, tokenCache, job, again, charged, dead, toldVars>>

\* A bearer that is no live candidate goes to auth_rate_limiter first.
Admit(r, room) ==
    /\ req[r].pc = "admit"
    /\ SetReq(r, [req[r] EXCEPT !.pc = IF r \in candidates \/ room THEN "verify" ELSE "throttled"])
    /\ charged' = IF r \in candidates THEN charged ELSE charged \cup {r}
    /\ UNCHANGED <<diskVars, lock, tokenCache, job, again, candidates, dead, toldVars>>

\* TokenStore::authenticate under the lock.
Verified(r) ==
    /\ req[r].pc = "verify" /\ lock = NoOne /\ Live(file, req[r].token)
    /\ SetReq(r, [req[r] EXCEPT !.pc = "passed"])
    /\ tokenCache' = [tokens |-> file, stamp |-> stamp]
    /\ UNCHANGED <<diskVars, lock, job, markVars, toldVars>>

\* The bearer is not in the file, revoked or expired, or the file cannot be read:
\* a candidate that fails is charged now.
Rejected(r, readable) ==
    /\ req[r].pc = "verify" /\ lock = NoOne
    /\ SetReq(r, [req[r] EXCEPT !.pc = "failed"])
    /\ tokenCache' = IF readable THEN [tokens |-> file, stamp |-> stamp] ELSE tokenCache
    /\ charged' = IF r \in candidates THEN charged \cup {r} ELSE charged
    /\ UNCHANGED <<diskVars, lock, job, again, candidates, dead, toldVars>>

Answer(r) ==
    /\ req[r].pc \in {"passed", "failed", "throttled"}
    /\ SetReq(r, [req[r] EXCEPT !.pc = "idle"])
    /\ UNCHANGED <<diskVars, lock, tokenCache, job, markVars, toldVars>>

-----------------------------------------------------------------------------
\* The host crashes: unsynced renames are undone or kept, and the processes start
\* again from the file.
Crash ==
    /\ file' \in {file, synced} /\ synced' = file' /\ stamp' \in Stamps
    /\ lock' = NoOne /\ tokenCache' = [tokens |-> file', stamp |-> stamp']
    /\ job' = [w \in Writers |-> NoJob] /\ req' = [r \in Requests |-> NoReq]
    /\ again' = {} /\ candidates' = {} /\ charged' = {} /\ dead' = {}
    /\ UNCHANGED toldVars

Write(w) ==
    \/ \E x \in Tokens : Issue(w, x) \/ Revoke(w, x)
    \/ Acquire(w) \/ Rename(w) \/ Synced(w) \/ Stops(w)

Authenticate(r) ==
    \/ \E x \in Tokens \cup {Guess} : Arrive(r, x)
    \/ ReadStamp(r) \/ Load(r) \/ Refresh(r) \/ Changed(r) \/ Unreadable(r)
    \/ \E b \in BOOLEAN : Look(r, b) \/ Admit(r, b) \/ Rejected(r, b)
    \/ Verified(r) \/ Answer(r)

StoreNext == (\E w \in Writers : Write(w)) \/ (\E r \in Requests : Authenticate(r)) \/ Crash

StoreSpec == StoreInit /\ [][StoreNext]_storeVars

-----------------------------------------------------------------------------
(* Properties.                                                             *)

\* What was acknowledged is in the file and survives a crash of the host: a
\* token handed out is there, and a revoked one never becomes live again,
\* whatever other processes wrote in between (issue, revoke).
AcknowledgedKept ==
    /\ \A x \in known : file[x] # "none" /\ synced[x] # "none"
    /\ \A x \in revoked : file[x] # "live" /\ synced[x] # "live"

\* A token whose revocation was acknowledged before a request came in never
\* authenticates it, however stale the cache and its stamp are (authenticate
\* reads the file again under the lock).
RevokedStaysOut == \A r \in Requests : req[r].pc = "passed" => r \notin dead

\* Every bearer that was looked up and failed went through auth_rate_limiter,
\* also one the cache took for live (McpBridge::authenticate).
FailuresCharged == \A r \in Requests : req[r].pc \in {"failed", "throttled"} => r \in charged
=============================================================================
