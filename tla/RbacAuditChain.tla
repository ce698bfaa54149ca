--------------------------- MODULE RbacAuditChain ---------------------------
(***************************************************************************)
(* The rbac_audit_log hash chain: CreateAuditLog under each proxy          *)
(* instance's HashChain, the unchained rows retention writes about its own *)
(* prunes, the TTL cleanup, restarts, and the integrity verifier.          *)
(*                                                                         *)
(* A row's entry hash is named by its id and 0 names the empty hash.  No   *)
(* code writes an audit_chain_anchor row for this chain, so the walk always *)
(* starts from the empty hash and id 0.                                    *)
(***************************************************************************)
EXTENDS Integers, FiniteSets

CONSTANTS
    Instances,  \* proxy processes sharing the database
    Primary,    \* the instance that always writes
    Workloads,  \* the sets of events a behaviour may be open to: see OpNames
    MaxId       \* bound: ids the sequence hands out

\* Restarts, failed writes, retention's own rows, cleanups, a head that cannot be
\* read at start-up, and further instances on the same table.
OpNames == {"restart", "fail", "prune", "cleanup", "seedError", "share"}

VARIABLES
    ops,      \* the events this behaviour is open to; never changes
    rows,     \* rbac_audit_log: [id, prev, hashed]
    nextId,   \* rbac_audit_log_id_seq
    pending,  \* per instance: the id reserved inside Append, 0 if none
    head,     \* per instance: HashChain.lastHash
    ver       \* the verifier: [pc, seed, verdict]

vars == <<ops, rows, nextId, pending, head, ver>>

Last(S) == CHOOSE r \in S : \A s \in S : s.id <= r.id
Hashed == {r \in rows : r.hashed}

\* mutant: the newest row whether or not it has a hash
NewestRowHash == IF rows = {} THEN 0 ELSE IF Last(rows).hashed THEN Last(rows).id ELSE 0

\* GetLatestRBACAuditLogHash
LatestHash == IF Hashed = {} THEN 0 ELSE Last(Hashed).id

Init ==
    /\ ops \in Workloads
    /\ rows = {}
    /\ nextId = 1
    /\ pending = [i \in Instances |-> 0]
    /\ head = [i \in Instances |-> 0]
    /\ ver = [pc |-> "idle", seed |-> 0, verdict |-> "none"]
----------------------------------------------------------------------------
\* CreateAuditLog: nextval, under the instance's chain mutex.
Reserve(i) ==
    /\ i = Primary \/ "share" \in ops
    /\ pending[i] = 0 /\ nextId <= MaxId
    /\ pending' = [pending EXCEPT ![i] = nextId]
    /\ nextId' = nextId + 1
    /\ UNCHANGED <<ops, rows, head, ver>>

\* CreateAuditLog: the INSERT fails; the error is returned and nothing is written.
InsertFails(i) ==
    /\ "fail" \in ops /\ pending[i] # 0
    /\ pending' = [pending EXCEPT ![i] = 0]
    /\ UNCHANGED <<ops, rows, nextId, head, ver>>

\* CreateAuditLog: the INSERT commits and the head advances.
Insert(i) ==
    /\ pending[i] # 0
    /\ rows' = rows \cup {[id |-> pending[i], prev |-> head[i], hashed |-> TRUE]}
    /\ head' = [head EXCEPT ![i] = pending[i]]
    /\ pending' = [pending EXCEPT ![i] = 0]
    /\ UNCHANGED <<ops, nextId, ver>>

\* LogAuditAction: retention records a prune of access_logs, without a hash.
LogAuditAction ==
    /\ "prune" \in ops /\ nextId <= MaxId
    /\ rows' = rows \cup {[id |-> nextId, prev |-> 0, hashed |-> FALSE]}
    /\ nextId' = nextId + 1
    /\ UNCHANGED <<ops, pending, head, ver>>

\* CleanupRBACAuditLogs: the rows created before the cutoff go, nothing is anchored.
CleanupRBACAuditLogs ==
    /\ "cleanup" \in ops
    /\ \E cutoff \in 2..nextId :
          /\ rows' = {r \in rows : r.id >= cutoff}
          /\ rows' # rows
    /\ UNCHANGED <<ops, nextId, pending, head, ver>>

\* The instance restarts and seeds its chain; a failed read starts it fresh.
Restart(i) ==
    /\ "restart" \in ops
    /\ head' = [head EXCEPT ![i] = LatestHash]
    /\ pending' = [pending EXCEPT ![i] = 0]
    /\ UNCHANGED <<ops, rows, nextId, ver>>

RestartUnseeded(i) ==
    /\ "seedError" \in ops
    /\ head' = [head EXCEPT ![i] = 0]
    /\ pending' = [pending EXCEPT ![i] = 0]
    /\ UNCHANGED <<ops, rows, nextId, ver>>
----------------------------------------------------------------------------
\* The hash the walk holds when it reaches r.
ReachedHash(r) ==
    LET before == {s \in rows : s.id < r.id}
    IN  IF before = {} THEN 0 ELSE Last(before).id

\* The rows verifyRBACAuditLog's walk cannot accept; it stops at the first.
BadRows == {r \in rows : ~r.hashed \/ r.prev # ReachedHash(r)}

\* The walk's answer: the first bad row's reason, else the comparison of the
\* tail with the seed read earlier.
WalkReason(seed) ==
    LET first == CHOOSE r \in BadRows : \A s \in BadRows : r.id <= s.id
        tail == IF rows = {} THEN 0 ELSE Last(rows).id
    IN  IF BadRows # {} THEN (IF first.hashed THEN "hash_mismatch" ELSE "null_entry_hash")
        ELSE IF seed # 0 /\ seed # tail THEN "anchor_mismatch" ELSE "ok"

\* verifyRBACAuditLog: GetLatestRBACAuditLogHash is read first.
VerifySeed ==
    /\ ver.pc = "idle"
    /\ ver' = [pc |-> "walk", seed |-> LatestHash, verdict |-> "none"]
    /\ UNCHANGED <<ops, rows, nextId, pending, head>>

\* verifyRBACAuditLog: one SELECT of the rows, the walk and the verdict.
VerifyWalk ==
    /\ ver.pc = "walk"
    /\ ver' = [pc |-> "idle", seed |-> 0, verdict |-> WalkReason(ver.seed)]
    /\ UNCHANGED <<ops, rows, nextId, pending, head>>

Next ==
    \/ \E i \in Instances :
          Reserve(i) \/ Insert(i) \/ InsertFails(i) \/ Restart(i) \/ RestartUnseeded(i)
    \/ LogAuditAction \/ CleanupRBACAuditLogs
    \/ VerifySeed \/ VerifyWalk

Spec == Init /\ [][Next]_vars
----------------------------------------------------------------------------
\* With one writer, its failures and restarts leave a log every walk accepts,
\* until retention writes or deletes rows (CreateAuditLog's commit / rollback
\* contract with HashChain.Append).
RbacVerifiable ==
    ops \cap {"prune", "cleanup", "seedError", "share"} = {} => BadRows = {}

\* As long as a chained row survives, the single writer's head is the newest of
\* them, so a restart (GetLatestRBACAuditLogHash) continues the same chain, also
\* next to retention's own rows and after a cleanup.
RestartKeepsChain ==
    ops \cap {"seedError", "share"} = {} /\ Hashed # {} => head[Primary] = Last(Hashed).id

\* No interleaving of instances, restarts and prunes hides a break from later
\* walks: until a cleanup deletes rows, a log the walk rejects stays rejected
\* (verifyRBACAuditLog).
BreakStaysVisible ==
    [][BadRows # {} /\ ~CleanupRBACAuditLogs => (BadRows # {})']_vars

\* The administrative log stays verifiable and continues across restarts, and a break in it
\* is never hidden again but by a cleanup.
LogContinues == [](RbacVerifiable /\ RestartKeepsChain) /\ BreakStaysVisible
=============================================================================
