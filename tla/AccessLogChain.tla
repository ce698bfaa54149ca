--------------------------- MODULE AccessLogChain ---------------------------
(***************************************************************************)
(* The access_logs hash chains once rows are in the table: the writers     *)
(* (internal/audit HashChain over internal/db), retention with its chain   *)
(* anchor, signed checkpoints, the integrity verifier and the break-glass  *)
(* re-anchor, each running on its own goroutine or in the CLI.             *)
(*                                                                         *)
(* Data abstraction.  A row's entry hash is named by the row's id and 0    *)
(* names the empty hash, so with a collision-free hash the recomputation   *)
(* of a row matches exactly when row.prev is the hash the walk reached.    *)
(* Append takes a row's id and its created_at in one callback, so created_at *)
(* orders rows as id does.  Signatures verify.  An INSERT that commits but *)
(* reports an error is AuditPipeline's SealLosesAnswer.                    *)
(***************************************************************************)
EXTENDS Integers, FiniteSets

CONSTANTS
    Chains,         \* the chain names, one writing instance each
    Default,        \* ChainNameAccessLogs, the default chain_name
    Workloads,      \* the sets of events a behaviour may be open to: see OpNames
    CheckpointKey,  \* AUDIT_CHECKPOINT_KEY is set
    MaxAccessLogRows, TrimBatch,  \* the FIFO cap and its batch
    MaxId           \* bound: ids the sequence hands out

\* Restarts, failed writes, fallback rows, TTL and FIFO retention, break-glass,
\* and instances that write under a chain_name of their own.
OpNames == {"restart", "fail", "basic", "ttl", "fifo", "reanchor", "partition"}

ASSUME ChainAssumption ==
    /\ IsFiniteSet(Chains) /\ Default \in Chains /\ Workloads \subseteq SUBSET OpNames
    /\ CheckpointKey \in BOOLEAN
    /\ MaxAccessLogRows \in Nat /\ TrimBatch \in Nat \ {0} /\ MaxId \in Nat

VARIABLES
    ops,      \* the events this behaviour is open to; never changes
    rows,     \* access_logs: [id, chain, prev, hashed]
    nextId,   \* access_logs_id_seq
    pending,  \* per writer: the id reserved inside HashChain.Append, 0 if none
    head,     \* per writer: HashChain.lastHash
    anchor,   \* audit_chain_anchor per chain: [id, hash], zeros when absent
    ckpt,     \* the latest checkpoint's head_id per chain, 0 if none
    cw,       \* checkpoint worker per chain: the head it read, 0 if idle
    bg,       \* break-glass operation: [pc, id, hash]
    ver       \* verifier pass: [pc, chain, id, prev, head, verdict]

vars == <<ops, rows, nextId, pending, head, anchor, ckpt, cw, bg, ver>>

Row == [id : Nat, chain : Chains, prev : Nat, hashed : BOOLEAN]

Of(c) == {r \in rows : r.chain = c}
Last(S) == CHOOSE r \in S : \A s \in S : s.id <= r.id

\* entry_hash, with NULL read as the empty string.
HashOf(r) == IF r.hashed THEN r.id ELSE 0

\* mutant: the seed is the newest row of any chain, the pre-partition query
SeedGlobal(c) ==
    LET linked == {r \in rows : r.hashed}
    IN  IF linked # {} THEN Last(linked).id ELSE anchor[c].hash

\* GetLatestAccessLogHashForChain
Seed(c) ==
    LET linked == {r \in Of(c) : r.hashed}
    IN  IF linked # {} THEN Last(linked).id ELSE anchor[c].hash
----------------------------------------------------------------------------
Init ==
    /\ ops \in Workloads
    /\ rows = {}
    /\ nextId = 1
    /\ pending = [c \in Chains |-> 0]
    /\ head = [c \in Chains |-> 0]
    /\ anchor = [c \in Chains |-> [id |-> 0, hash |-> 0]]
    /\ ckpt = [c \in Chains |-> 0]
    /\ cw = [c \in Chains |-> 0]
    /\ bg = [pc |-> "idle", id |-> 0, hash |-> 0]
    /\ ver = [pc |-> "idle", chain |-> Default, id |-> 0, prev |-> 0, head |-> 0,
              verdict |-> "none"]

\* HashChain.Append's build: nextval, under the chain's mutex.
Reserve(c) ==
    /\ c = Default \/ "partition" \in ops
    /\ pending[c] = 0 /\ nextId <= MaxId
    /\ pending' = [pending EXCEPT ![c] = nextId]
    /\ nextId' = nextId + 1
    /\ UNCHANGED <<ops, rows, head, anchor, ckpt, cw, bg, ver>>

\* The row the INSERT of Append's write callback puts in the table.
Written(c) == [id |-> pending[c], chain |-> c, prev |-> head[c], hashed |-> TRUE]

\* The INSERT commits and the head advances.
Insert(c) ==
    /\ pending[c] # 0
    /\ rows' = rows \cup {Written(c)}
    /\ head' = [head EXCEPT ![c] = pending[c]]
    /\ pending' = [pending EXCEPT ![c] = 0]
    /\ UNCHANGED <<ops, nextId, anchor, ckpt, cw, bg, ver>>

\* The INSERT fails: the id is burnt, the head stays.
InsertFails(c) ==
    /\ "fail" \in ops /\ pending[c] # 0
    /\ pending' = [pending EXCEPT ![c] = 0]
    /\ UNCHANGED <<ops, rows, nextId, head, anchor, ckpt, cw, bg, ver>>

\* logAccess's fallback: LogAccess writes a row with no hash in the default chain.
BasicLog ==
    /\ "basic" \in ops /\ nextId <= MaxId
    /\ rows' = rows \cup {[id |-> nextId, chain |-> Default, prev |-> 0, hashed |-> FALSE]}
    /\ nextId' = nextId + 1
    /\ UNCHANGED <<ops, pending, head, anchor, ckpt, cw, bg, ver>>

\* The instance restarts: what it had reserved is lost, the head is read back.
Restart(c) ==
    /\ "restart" \in ops
    /\ head' = [head EXCEPT ![c] = Seed(c)]
    /\ pending' = [pending EXCEPT ![c] = 0]
    /\ UNCHANGED <<ops, rows, nextId, anchor, ckpt, cw, bg, ver>>
----------------------------------------------------------------------------
\* mutant: rows are deleted and the anchor is left as it was
PruneUnanchored(D) ==
    /\ D # {}
    /\ rows' = rows \ D
    /\ UNCHANGED <<ops, nextId, pending, head, anchor, ckpt, cw, bg, ver>>

\* The transaction of both prunes: delete D, move the default chain's anchor to
\* the highest deleted row, keeping the old hash when that row has none.
Prune(D) ==
    \E last \in D :
        /\ \A r \in D : r.id <= last.id
        /\ rows' = rows \ D
        /\ anchor' = [anchor EXCEPT ![Default] =
              [id |-> last.id, hash |-> IF last.hashed THEN last.id ELSE @.hash]]
        /\ UNCHANGED <<ops, nextId, pending, head, ckpt, cw, bg, ver>>

\* CleanupAccessLogs: everything created before the cutoff, of every chain.
CleanupAccessLogs ==
    /\ "ttl" \in ops
    /\ \E cutoff \in 2..nextId : Prune({r \in rows : r.id < cutoff})

\* The oldest rows beyond the cap, at most one batch.
OldestExcess ==
    LET excess == Cardinality(rows) - MaxAccessLogRows
        n == IF excess > TrimBatch THEN TrimBatch ELSE excess
    IN  {r \in rows : Cardinality({s \in rows : s.id < r.id}) < n}

\* TrimAccessLogsFIFOBatch: one batch of trimAccessLogsFIFO's loop.
TrimAccessLogsFIFOBatch ==
    /\ "fifo" \in ops
    /\ Prune(OldestExcess)
----------------------------------------------------------------------------
\* CheckpointWorker.Checkpoint: ChainStats reads the head of a non-empty chain.
CheckpointRead(c) ==
    /\ CheckpointKey /\ cw[c] = 0 /\ Of(c) # {}
    /\ cw' = [cw EXCEPT ![c] = Last(Of(c)).id]
    /\ UNCHANGED <<ops, rows, nextId, pending, head, anchor, ckpt, bg, ver>>

\* CheckpointWorker.Checkpoint: the signed row is appended.
CheckpointWrite(c) ==
    /\ cw[c] # 0
    /\ ckpt' = [ckpt EXCEPT ![c] = cw[c]]
    /\ cw' = [cw EXCEPT ![c] = 0]
    /\ UNCHANGED <<ops, rows, nextId, pending, head, anchor, bg, ver>>

\* privacy-cli audit re-anchor: the stats of the (non-empty, default) chain, and
\* the signed record of the break.
ReAnchorRecord ==
    /\ "reanchor" \in ops /\ CheckpointKey /\ bg.pc = "idle" /\ Of(Default) # {}
    /\ bg' = [pc |-> "recorded", id |-> Last(Of(Default)).id, hash |-> HashOf(Last(Of(Default)))]
    /\ UNCHANGED <<ops, rows, nextId, pending, head, anchor, ckpt, cw, ver>>

\* BreakGlassReAnchor: SetAnchor.
ReAnchorSet ==
    /\ bg.pc = "recorded"
    /\ anchor' = [anchor EXCEPT ![Default] = [id |-> bg.id, hash |-> bg.hash]]
    /\ bg' = [bg EXCEPT !.pc = "anchored"]
    /\ UNCHANGED <<ops, rows, nextId, pending, head, ckpt, cw, ver>>

\* BreakGlassReAnchor: the fresh checkpoint; the operation reports success.
ReAnchorCheckpoint ==
    /\ bg.pc = "anchored"
    /\ ckpt' = [ckpt EXCEPT ![Default] = bg.id]
    /\ bg' = [bg EXCEPT !.pc = "idle"]
    /\ UNCHANGED <<ops, rows, nextId, pending, head, anchor, cw, ver>>

\* Any of its statements may fail: the operator sees the error, what was
\* written stays.
ReAnchorFails ==
    /\ bg.pc \in {"recorded", "anchored"}
    /\ bg' = [bg EXCEPT !.pc = "idle"]
    /\ UNCHANGED <<ops, rows, nextId, pending, head, anchor, ckpt, cw, ver>>
----------------------------------------------------------------------------
\* The hash the walk holds when it reaches r, starting from hash h after id i.
ReachedHash(c, i, h, r) ==
    LET before == {s \in Of(c) : i < s.id /\ s.id < r.id}
    IN  IF before = {} THEN h ELSE HashOf(Last(before))

\* verifyOneAccessLogChain's walk over the rows of c above id i.
BadRows(c, i, h) ==
    {r \in Of(c) : r.id > i /\ (~r.hashed \/ r.prev # ReachedHash(c, i, h, r))}

WalkReason(c, i, h) ==
    LET bad == BadRows(c, i, h)
        first == CHOOSE r \in bad : \A s \in bad : r.id <= s.id
    IN  IF bad = {} THEN "ok"
        ELSE IF first.hashed THEN "hash_mismatch" ELSE "null_entry_hash"

\* checkpointTruncated against the chain's current head.
Truncated(c, h) == IF Of(c) = {} THEN h > 0 ELSE Last(Of(c)).id < h

\* startingPrev reads the anchor in a statement of its own.
VerifyStart(c) ==
    /\ ver.pc = "idle"
    /\ ver' = [pc |-> "walk", chain |-> c, id |-> anchor[c].id, prev |-> anchor[c].hash,
               head |-> 0, verdict |-> "none"]
    /\ UNCHANGED <<ops, rows, nextId, pending, head, anchor, ckpt, cw, bg>>

\* One SELECT returns the rows; the walk stops at the first bad one.
VerifyWalk ==
    LET reason == WalkReason(ver.chain, ver.id, ver.prev) IN
    /\ ver.pc = "walk"
    /\ ver' = IF reason = "ok" /\ CheckpointKey
              THEN [ver EXCEPT !.pc = "checkpoint"]
              ELSE [ver EXCEPT !.pc = "idle", !.verdict = reason]
    /\ UNCHANGED <<ops, rows, nextId, pending, head, anchor, ckpt, cw, bg>>

\* checkTruncation: LatestCheckpoint.
VerifyReadCheckpoint ==
    /\ ver.pc = "checkpoint"
    /\ ver' = IF ckpt[ver.chain] = 0
              THEN [ver EXCEPT !.pc = "idle", !.verdict = "ok"]
              ELSE [ver EXCEPT !.pc = "head", !.head = ckpt[ver.chain]]
    /\ UNCHANGED <<ops, rows, nextId, pending, head, anchor, ckpt, cw, bg>>

\* checkTruncation: max(id), and the verdict.
VerifyReadHead ==
    /\ ver.pc = "head"
    /\ ver' = [ver EXCEPT !.pc = "idle",
                  !.verdict = IF Truncated(ver.chain, ver.head) THEN "chain_truncated" ELSE "ok"]
    /\ UNCHANGED <<ops, rows, nextId, pending, head, anchor, ckpt, cw, bg>>
----------------------------------------------------------------------------
Next ==
    \/ \E c \in Chains :
          \/ Reserve(c) \/ Insert(c) \/ InsertFails(c)
          \/ Restart(c)
          \/ CheckpointRead(c) \/ CheckpointWrite(c)
          \/ VerifyStart(c)
    \/ BasicLog
    \/ CleanupAccessLogs \/ TrimAccessLogsFIFOBatch
    \/ ReAnchorRecord \/ ReAnchorSet \/ ReAnchorCheckpoint \/ ReAnchorFails
    \/ VerifyWalk \/ VerifyReadCheckpoint \/ VerifyReadHead

Spec == Init /\ [][Next]_vars
----------------------------------------------------------------------------
TypeOK ==
    /\ ops \subseteq OpNames
    /\ rows \subseteq Row
    /\ nextId \in Nat
    /\ pending \in [Chains -> Nat] /\ head \in [Chains -> Nat]
    /\ anchor \in [Chains -> [id : Nat, hash : Nat]]
    /\ ckpt \in [Chains -> Nat] /\ cw \in [Chains -> Nat]
    /\ bg \in [pc : {"idle", "recorded", "anchored"}, id : Nat, hash : Nat]
    /\ ver \in [pc : {"idle", "walk", "checkpoint", "head"}, chain : Chains, id : Nat,
                prev : Nat, head : Nat,
                verdict : {"none", "ok", "hash_mismatch", "null_entry_hash", "chain_truncated"}]

Retention == {"ttl", "fifo"}

\* A walk that reads anchor and rows at this moment accepts every chain.
Intact == \A c \in Chains : BadRows(c, anchor[c].id, anchor[c].hash) = {}

\* The writers' heads are the hashes such walks end with.
HeadsFollow ==
    \A c \in Chains :
        LET kept == {r \in Of(c) : r.id > anchor[c].id}
        IN  head[c] = IF kept = {} THEN anchor[c].hash ELSE HashOf(Last(kept))

\* The rows left in the table continue the anchor across every prune, failed
\* write and restart, unless the fallback logger writes rows outside the chain,
\* or retention meets several chains (CleanupAccessLogs,
\* TrimAccessLogsFIFOBatch, HashChain.Append).
Verifiable ==
    /\ ops \cap {"basic", "reanchor"} = {}
    /\ "partition" \in ops => ops \cap Retention = {}
    => Intact

\* Under the same conditions a writer's in-memory head is the hash such a walk
\* ends with, so the next row continues the chain too, also when retention has
\* taken every row (GetLatestAccessLogHashForChain).
HeadContinues ==
    /\ ops \cap {"basic", "reanchor"} = {}
    /\ "partition" \in ops => ops \cap Retention = {}
    => HeadsFollow

\* A restart changes nothing: the hash it would seed the writer from is the head
\* the writer holds (GetLatestAccessLogHashForChain), also next to rows the
\* fallback LogAccess wrote, other instances' chains and a break-glass, unless
\* retention runs together with one of these.
RestartKeepsHead ==
    (ops \cap Retention = {} \/ ops \cap {"basic", "partition", "reanchor"} = {})
    => \A c \in Chains : head[c] = Seed(c)

\* A verifier pass that interleaves with the writers, checkpoints and break-glass
\* never reports a bad row among rows this code chained (Verifier.Verify,
\* IntegrityWorker.pass).  Retention takes the rows between its statements, so
\* the statement excludes it.
NoMismatchAlarm ==
    ops \cap ({"basic"} \cup Retention) = {}
    => ver.verdict \notin {"hash_mismatch", "null_entry_hash"}

\* Nor does a pass report a truncation while no row is deleted, whatever
\* checkpoints and break-glass write around it (Verifier.checkTruncation).
NoTruncationAlarm == ops \cap Retention = {} => ver.verdict # "chain_truncated"

\* A break-glass re-anchor that reports success leaves a chain the verifier
\* accepts and the writer continues, unless the fallback logger wrote the row it
\* anchors or a later one (BreakGlassReAnchor).
BreakGlassResumes ==
    [][ReAnchorCheckpoint /\ (\A r \in Of(Default) : r.id >= bg.id => r.hashed)
          => (Intact /\ HeadsFollow)']_vars

\* A pass that interleaves with writers, checkpoints and a break-glass raises no alarm
\* over rows this code wrote: neither a bad row nor a truncation.
NoFalseAlarm == NoMismatchAlarm /\ NoTruncationAlarm
=============================================================================
