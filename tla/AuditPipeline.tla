--------------------------- MODULE AuditPipeline ---------------------------
(***************************************************************************)
(* The asynchronous access-log path: request goroutines append records to  *)
(* the durable Pebble buffer (internal/audit/buffer), one background       *)
(* sealer (internal/audit/sealer) drains it in sequence order into the     *)
(* hash chain of access_logs (internal/db SealBufferedAccessLog over       *)
(* internal/audit HashChain), and then deletes what it drained.  The       *)
(* process may crash between any two steps and restart.                    *)
(*                                                                         *)
(* Data abstraction.  A record is an element of Records.  access_logs is   *)
(* the sequence rows, in id order; the entry hash of the i-th row is named *)
(* by i and 0 names the empty seed, so with a collision-free hash the      *)
(* verifier's recomputation accepts row i exactly when rows[i].prev is the *)
(* hash it reached.  Rows are not pruned here (AuditChain does that).      *)
(***************************************************************************)
EXTENDS Integers, Sequences, FiniteSets

CONSTANTS
    Records,      \* the access-log records the requests produce
    Corrupt,      \* the records whose buffered bytes no longer unmarshal
    MaxInFlight,  \* bound: how many Append calls overlap
    Batch,        \* sealer Config.Batch, entries per tick
    MaxCrashes,   \* bound: crashes (or orderly restarts) of the process
    MaxFailures,  \* bound: storage calls that fail
    Workloads     \* the sets of events a behaviour may be open to

\* Appends that overlap, restarts, an INSERT whose answer is lost, a failed read
\* of the chain head at start-up.
EventNames == {"overlap", "crash", "lostAck", "seedError"}

ASSUME PipelineAssumption ==
    /\ IsFiniteSet(Records) /\ Corrupt \subseteq Records
    /\ MaxInFlight \in Nat \ {0} /\ Batch \in Nat \ {0}
    /\ MaxCrashes \in Nat /\ MaxFailures \in Nat
    /\ Workloads \subseteq SUBSET EventNames

VARIABLES
    events,     \* the events this behaviour is open to; never changes
    req,        \* per record: new, writing, stored, acked, basic or gone
    slot,       \* per record: the buffer sequence its Append allocated
    seq,        \* Buffer.seq, the last allocated sequence (in memory)
    buf,        \* the persisted entries [seq, rec]
    rows,       \* access_logs: [rec, bseq, prev], in id order
    lastHash,   \* HashChain.lastHash (in memory)
    pc,         \* where the sealer's Tick is
    hw,         \* Tick: the high-water it read
    batch,      \* Tick: the drained entries it has not sealed yet
    lastSealed, \* Tick: lastSealed
    crashes, failures

memory == <<seq, lastHash>>
tick == <<pc, hw, batch, lastSealed>>
vars == <<events, req, slot, seq, buf, rows, lastHash, pc, hw, batch, lastSealed,
          crashes, failures>>

Entry == [seq : Nat, rec : Records]
Row == [rec : Records, bseq : Nat, prev : Nat]

\* m is the greatest element of S, 0 when S is empty
IsMax(m, S) == m \in S \cup {0} /\ \A n \in S : n <= m

SealedSeqs == {rows[i].bseq : i \in DOMAIN rows}
BufferedSeqs == {e.seq : e \in buf}
InFlight == {r \in Records : req[r] \in {"writing", "stored"}}
----------------------------------------------------------------------------
Init ==
    /\ events \in Workloads
    /\ req = [r \in Records |-> "new"]
    /\ slot = [r \in Records |-> 0]
    /\ seq = 0
    /\ buf = {}
    /\ rows = <<>>
    /\ lastHash = 0
    /\ pc = "idle"
    /\ hw = 0
    /\ batch = {}
    /\ lastSealed = 0
    /\ crashes = 0
    /\ failures = 0

\* Buffer.Append: the atomic allocation, with no lock held afterwards.
Allocate(r) ==
    /\ req[r] = "new"
    /\ Cardinality(InFlight) < (IF "overlap" \in events THEN MaxInFlight ELSE 1)
    /\ seq' = seq + 1
    /\ slot' = [slot EXCEPT ![r] = seq + 1]
    /\ req' = [req EXCEPT ![r] = "writing"]
    /\ UNCHANGED <<events, buf, rows, lastHash, tick, crashes, failures>>

\* Buffer.Append: db.Set with pebble.Sync commits the entry under its key.
Store(r) ==
    /\ req[r] = "writing"
    /\ buf' = {e \in buf : e.seq # slot[r]} \cup {[seq |-> slot[r], rec |-> r]}
    /\ req' = [req EXCEPT ![r] = "stored"]
    /\ UNCHANGED <<events, slot, memory, rows, tick, crashes, failures>>

\* Buffer.Append fails: the sequence stays a hole, and logAccess falls back to
\* a basic row outside the chain.
StoreFails(r) ==
    /\ req[r] = "writing" /\ failures < MaxFailures
    /\ req' = [req EXCEPT ![r] = "basic"]
    /\ failures' = failures + 1
    /\ UNCHANGED <<events, slot, memory, buf, rows, tick, crashes>>

\* Buffer.Append returns: from here on the request counts the record as logged.
Acknowledge(r) ==
    /\ req[r] = "stored"
    /\ req' = [req EXCEPT ![r] = "acked"]
    /\ UNCHANGED <<events, slot, memory, buf, rows, tick, crashes, failures>>
----------------------------------------------------------------------------
\* mutant: the high-water is the number of sealed rows
ReadSealedCount ==
    /\ pc = "idle"
    /\ hw' = Len(rows)
    /\ pc' = "drain"
    /\ UNCHANGED <<events, req, slot, memory, buf, rows, batch, lastSealed, crashes, failures>>

\* Tick: hw, err := s.highWater(ctx), the greatest sealed buffer_seq.
ReadHighWater ==
    /\ pc = "idle"
    /\ IsMax(hw', SealedSeqs)
    /\ pc' = "drain"
    /\ UNCHANGED <<events, req, slot, memory, buf, rows, batch, lastSealed, crashes, failures>>

\* Buffer.Drain: the first n entries after the sequence, in key order.
DrainAfter(after, n) ==
    {e \in buf : /\ e.seq > after
                 /\ Cardinality({d \in buf : after < d.seq /\ d.seq < e.seq}) < n}

\* Tick: the drain, and the start of the loop over what it returned.
Drain ==
    /\ pc = "drain"
    /\ batch' = DrainAfter(hw, Batch)
    /\ lastSealed' = 0
    /\ pc' = "seal"
    /\ UNCHANGED <<events, req, slot, memory, buf, rows, hw, crashes, failures>>

\* The entry the loop is at: the drained entries come in sequence order.
IsNext(e) == e \in batch /\ \A d \in batch : e.seq <= d.seq

\* mutant: the INSERT leaves buffer_seq out, as the synchronous writer's does
SealedRowUntagged(e, prev) == [rec |-> e.rec, bseq |-> 0, prev |-> prev]

\* The row SealBufferedAccessLog inserts, chained to the head it hashed.
SealedRow(e, prev) == [rec |-> e.rec, bseq |-> e.seq, prev |-> prev]

\* mutant: the head is advanced only in the table, not in memory
SealEntryKeepsHead(e) ==
    /\ pc = "seal" /\ IsNext(e) /\ e.rec \notin Corrupt
    /\ e.seq \notin SealedSeqs
    /\ rows' = Append(rows, SealedRow(e, lastHash))
    /\ batch' = batch \ {e}
    /\ lastSealed' = e.seq
    /\ UNCHANGED <<events, req, slot, memory, buf, pc, hw, crashes, failures>>

\* sealFn succeeds: HashChain.Append writes the row, then advances the head.
\* The unique index on buffer_seq admits the row.
SealEntry(e) ==
    /\ pc = "seal" /\ IsNext(e) /\ e.rec \notin Corrupt
    /\ e.seq \notin SealedSeqs
    /\ rows' = Append(rows, SealedRow(e, lastHash))
    /\ lastHash' = Len(rows) + 1
    /\ batch' = batch \ {e}
    /\ lastSealed' = e.seq
    /\ UNCHANGED <<events, req, slot, seq, buf, pc, hw, crashes, failures>>

\* sealFn on a record that does not unmarshal: logged, skipped, counted as sealed.
SkipCorrupt(e) ==
    /\ pc = "seal" /\ IsNext(e) /\ e.rec \in Corrupt
    /\ batch' = batch \ {e}
    /\ lastSealed' = e.seq
    /\ UNCHANGED <<events, req, slot, memory, buf, rows, pc, hw, crashes, failures>>

\* sealFn fails and the row is not there: the batch stops, the chain head stays.
SealFails(e) ==
    /\ pc = "seal" /\ IsNext(e) /\ e.rec \notin Corrupt
    /\ e.seq \in SealedSeqs \/ failures < MaxFailures
    /\ failures' = IF e.seq \in SealedSeqs THEN failures ELSE failures + 1
    /\ pc' = "clean"
    /\ UNCHANGED <<events, req, slot, memory, buf, rows, hw, batch, lastSealed, crashes>>

\* The INSERT commits but its answer is lost: Append sees an error and keeps
\* the old head although the row is in the table.
SealLosesAnswer(e) ==
    /\ "lostAck" \in events
    /\ pc = "seal" /\ IsNext(e) /\ e.rec \notin Corrupt
    /\ e.seq \notin SealedSeqs /\ failures < MaxFailures
    /\ failures' = failures + 1
    /\ rows' = Append(rows, SealedRow(e, lastHash))
    /\ pc' = "clean"
    /\ UNCHANGED <<events, req, slot, memory, buf, hw, batch, lastSealed, crashes>>

\* The loop is over.
SealDone ==
    /\ pc = "seal" /\ batch = {}
    /\ pc' = "clean"
    /\ UNCHANGED <<events, req, slot, memory, buf, rows, hw, batch, lastSealed, crashes, failures>>

\* mutant: deletes through the last drained entry, sealed or not
CleanThroughBatch == IF batch = {} THEN lastSealed ELSE seq

\* Tick: what DeleteThrough deletes through.
CleanThrough == IF lastSealed > hw THEN lastSealed ELSE hw

\* Tick: DeleteThrough(cleanThrough); the tick ends.
Clean ==
    /\ pc = "clean"
    /\ buf' = {e \in buf : e.seq > CleanThrough}
    /\ batch' = {}
    /\ pc' = "idle"
    /\ UNCHANGED <<events, req, slot, memory, rows, hw, lastSealed, crashes, failures>>

\* Tick: DeleteThrough fails, which is only logged.
CleanFails ==
    /\ pc = "clean" /\ failures < MaxFailures
    /\ failures' = failures + 1
    /\ batch' = {}
    /\ pc' = "idle"
    /\ UNCHANGED <<events, req, slot, memory, buf, rows, hw, lastSealed, crashes>>
----------------------------------------------------------------------------
\* recoverSeq: the highest persisted key, 0 when the buffer is empty.
RecoveredSeq(n) == IsMax(n, BufferedSeqs)

\* NewServer: the chain head is read back from the table; a failed read is
\* logged and the chain starts fresh.
RecoveredHash(h) == h \in {Len(rows)} \cup IF "seedError" \in events THEN {0} ELSE {}

\* The process dies and starts again: buffer and table survive, memory does not.
Crash ==
    /\ "crash" \in events /\ crashes < MaxCrashes
    /\ crashes' = crashes + 1
    /\ req' = [r \in Records |-> IF r \in InFlight THEN "gone" ELSE req[r]]
    /\ RecoveredSeq(seq')
    /\ RecoveredHash(lastHash')
    /\ pc' = "idle" /\ hw' = 0 /\ batch' = {} /\ lastSealed' = 0
    /\ UNCHANGED <<events, slot, buf, rows, failures>>

SealStep ==
    \/ ReadHighWater
    \/ Drain
    \/ \E e \in batch : SealEntry(e) \/ SkipCorrupt(e) \/ SealFails(e)
    \/ SealDone
    \/ Clean
    \/ CleanFails

Next ==
    \/ \E r \in Records : Allocate(r) \/ Store(r) \/ StoreFails(r) \/ Acknowledge(r)
    \/ SealStep
    \/ \E e \in batch : SealLosesAnswer(e)
    \/ Crash

Spec == Init /\ [][Next]_vars

\* Sealer.Run ticks for ever, and a request that began to log finishes.
FairSpec ==
    /\ Spec
    /\ WF_vars(SealStep)
    /\ \A r \in Records : WF_vars(Store(r) \/ Acknowledge(r))
----------------------------------------------------------------------------
TypeOK ==
    /\ events \subseteq EventNames
    /\ req \in [Records -> {"new", "writing", "stored", "acked", "basic", "gone"}]
    /\ slot \in [Records -> Nat]
    /\ seq \in Nat
    /\ buf \subseteq Entry
    /\ rows \in Seq(Row)
    /\ lastHash \in Nat
    /\ pc \in {"idle", "drain", "seal", "clean"}
    /\ hw \in Nat
    /\ batch \subseteq Entry
    /\ lastSealed \in Nat
    /\ crashes \in Nat /\ failures \in Nat

\* While the database tells the truth about what it committed and the head is
\* read back at start-up, the verifier's walk over access_logs succeeds: every
\* row hashes the entry hash of the row before it, whatever the sealer, its
\* failures and its restarts did (HashChain.Append, SealBufferedAccessLog).
ChainIntact ==
    events \cap {"lostAck", "seedError"} = {} =>
        \A i \in DOMAIN rows : rows[i].prev = i - 1

\* The sealer never seals an entry twice and never out of buffer order, also
\* when it dies between the chain commit and the buffer delete (Sealer.Tick
\* resumes from the table's high-water).
SealedInOrder ==
    \A i, j \in DOMAIN rows : i < j => rows[i].bseq < rows[j].bseq

\* No record is logged twice.
SealedOnce ==
    \A i, j \in DOMAIN rows : rows[i].rec = rows[j].rec => i = j

\* In a process that never restarts and appends one record at a time, a record
\* whose Append returned is in the buffer or in the chain, or the sealer found
\* it unreadable (Buffer.Append's durability promise, and DeleteThrough, which
\* "never outruns the sealed chain").
NothingLost ==
    events \cap {"overlap", "crash"} = {} =>
        \A r \in Records \ Corrupt : req[r] = "acked" =>
            \/ \E e \in buf : e.rec = r
            \/ \E i \in DOMAIN rows : rows[i].rec = r

\* The same promise without that restriction, as Buffer and Sealer state it.
NothingEverLost ==
    \A r \in Records \ Corrupt : req[r] = "acked" =>
        \/ \E e \in buf : e.rec = r
        \/ \E i \in DOMAIN rows : rows[i].rec = r

\* Every record whose Append returned in such a process reaches the chain, once
\* the database stops failing (Sealer.Run retries the batch on the next tick).
EventuallySealed ==
    \A r \in Records \ Corrupt :
        (req[r] = "acked" /\ events \cap {"overlap", "crash"} = {})
            ~> \E i \in DOMAIN rows : rows[i].rec = r
=============================================================================
