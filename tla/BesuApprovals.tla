--------------------------- MODULE BesuApprovals ---------------------------
(***************************************************************************)
(* The approvals a Besu producer holds (node-approvals/besu): the store    *)
(* with its replacement and eviction rules, the pool and block events that *)
(* move an approval between its three states, the reconciliation with a    *)
(* pool snapshot, the release on finality, the wait window and the gate    *)
(* that lets a transaction into a block.                                   *)
(*                                                                         *)
(* A key id and a fingerprint, compared bytewise, are one number, the id.  *)
(* Signatures, chain ids and hash modes are checked before the store and   *)
(* are taken as valid.  Blocks are numbered as they arrive; 0 is the block *)
(* the plugin started on.  The plugin's boot is time 0.                    *)
(***************************************************************************)
EXTENDS Integers, Sequences, FiniteSets, Functions

CONSTANTS
    Txs,          \* transaction hashes
    Capacity,     \* approvals held at most
    Wait,         \* waitMs: the wait window, and the grace period of the store
    MaxTtl,       \* maxTtlMs plus MAX_ISSUED_AHEAD_MS
    Extension,    \* RESTART_EXTENSION_MS
    MaxTime,      \* bound: the clock of every load
    Loads         \* what a behaviour is open to: [events, batches, txs, adds, blocks, time]

\* Forks and finality; the pool dropping transactions by itself; the periodic
\* reconciliation; candidates for a block.
EventNames == {"blocks", "drop", "reconcile", "gate"}

\* A signed batch that passes the ingress checks: ids maps transactions to ids.
IsBatch(b) ==
    /\ b.issued \in Nat /\ b.expires \in Nat
    /\ b.issued < b.expires /\ b.expires - b.issued <= MaxTtl
    /\ DOMAIN b.ids \subseteq Txs

\* txs are the transactions that reach the pool; adds, blocks and time the bounds on
\* admissions to it, on blocks and on the clock.
ASSUME BesuAssumption ==
    /\ {Capacity, Wait, MaxTtl, Extension, MaxTime} \subseteq Nat
    /\ \A l \in Loads :
          /\ l.events \subseteq EventNames
          /\ l.txs \subseteq Txs /\ l.adds \in Nat /\ l.blocks \in Nat
          /\ l.time \in 0..MaxTime
          /\ \A b \in l.batches : IsBatch(b)

VARIABLES
    load,         \* what this behaviour is open to; never changes
    now,          \* System.currentTimeMillis
    \* ApprovalStore
    entries,      \* transaction -> [issued, id, expires, state]
    pooled, left, \* transaction -> when it was reported in the pool, or gone from it
    \* InclusionTracker
    tracked,      \* block -> [parent, txs, expire, until]
    lastFinalized,
    firstStatus,  \* WaitWindow.firstStatusAt, MaxTime + 1 for none yet
    onBlock,      \* onBlockAdded in progress: [pc, block, canonical]
    rec,          \* reconcile in progress: [pc, at, snapshot]
    cand,         \* the candidate being evaluated: [pc, tx, executed, expires]
    \* the node
    pool,         \* pooled transaction -> addedAt
    news,         \* per transaction, the pool events not yet delivered
    blocks,       \* the blocks: [parent, txs]
    head, final,  \* the canonical head and the finalized block
    adds,
    offers        \* history: per held transaction, what was accepted for it

store == <<entries, pooled, left>>
tracker == <<tracked, lastFinalized>>
node == <<pool, news, blocks, head, final, adds>>
vars == <<load, now, store, tracker, firstStatus, onBlock, rec, cand, node, offers>>

Empty == [t \in {} |-> 0]
NoBlock == [pc |-> "idle", block |-> 0, canonical |-> FALSE]
NoRec == [pc |-> "idle", at |-> 0, snapshot |-> {}]
NoCand == [pc |-> "idle", tx |-> 0, executed |-> 0, expires |-> 0]
NoStatusYet == MaxTime + 1
Without(f, S) == Restrict(f, DOMAIN f \ S)
With(f, t, v) == [u \in DOMAIN f \cup {t} |-> IF u = t THEN v ELSE f[u]]

Init ==
    /\ load \in Loads
    /\ now = 0
    /\ entries = Empty /\ pooled = Empty /\ left = Empty
    /\ tracked = Empty /\ lastFinalized = 0
    /\ firstStatus = NoStatusYet
    /\ onBlock = NoBlock /\ rec = NoRec /\ cand = NoCand
    /\ pool = Empty /\ news = [t \in Txs |-> <<>>]
    /\ blocks = <<>> /\ head = 0 /\ final = 0 /\ adds = 0
    /\ offers = Empty

Tick ==
    /\ now < load.time
    /\ now' = now + 1
    /\ UNCHANGED <<load, store, tracker, firstStatus, onBlock, rec, cand, node, offers>>
----------------------------------------------------------------------------
\* usableAt
Usable(a) == now < a.expires
Held == DOMAIN entries
Approves(t) == t \in Held /\ Usable(entries[t])

\* rank: issued_at, then key id and fingerprint.
Outranks(a, b) == a.issued > b.issued \/ (a.issued = b.issued /\ a.id > b.id)

\* putAll: an offer for a held transaction replaces an expired or lower approval.
Replaces(a, t) == ~Usable(entries[t]) \/ Outranks(a, entries[t])

\* mutant: the grace period alone protects an approval
MayEvictPooled(t) == ~Usable(entries[t]) \/ now - entries[t].issued >= Wait

\* victims: an expired approval, or one that is not pooled and past the grace period.
MayEvict(t) ==
    \/ ~Usable(entries[t])
    \/ entries[t].state # "pooled" /\ now - entries[t].issued >= Wait

\* victims: expired ones by expiry, then included ones, then orphans, by issue.
EvictedBefore(t, u) ==
    LET class(x) == IF ~Usable(entries[x]) THEN 0
                    ELSE IF entries[x].state = "included" THEN 1 ELSE 2
        time(x) == IF class(x) = 0 THEN entries[x].expires ELSE entries[x].issued
    IN  class(t) < class(u) \/ (class(t) = class(u) /\ time(t) < time(u))

Victims(n, keep) ==
    LET candidates == {t \in Held \ keep : MayEvict(t)}
    IN  {V \in SUBSET candidates :
           /\ Cardinality(V) = n
           /\ \A u \in candidates \ V, v \in V : ~EvictedBefore(u, v)}

\* putAll: the room the batch needs beyond the free capacity.
Shortfall(b) ==
    LET n == Cardinality(DOMAIN b.ids \ Held) - (Capacity - Cardinality(Held))
    IN  IF n > 0 THEN n ELSE 0

\* deliver: a valid batch is stored, all or nothing; otherwise nothing changes.
Deliver(b) ==
    LET offer(t) == [issued |-> b.issued, id |-> b.ids[t], expires |-> b.expires]
        state(t) == IF t \in Held THEN entries[t].state
                    ELSE IF t \in DOMAIN pooled THEN "pooled" ELSE "orphan"
        changed == {t \in DOMAIN b.ids : t \notin Held \/ Replaces(offer(t), t)}
    IN  /\ b.issued <= now + 1 /\ b.expires > now
        /\ \E V \in Victims(Shortfall(b), DOMAIN b.ids) :
              /\ entries' = [t \in (Held \ V) \cup changed |->
                    IF t \in changed
                    THEN [issued |-> b.issued, id |-> b.ids[t], expires |-> b.expires,
                          state |-> state(t)]
                    ELSE entries[t]]
              /\ offers' = [t \in (Held \ V) \cup changed |->
                    (IF t \in Held THEN offers[t] ELSE {})
                      \cup (IF t \in DOMAIN b.ids THEN {offer(t)} ELSE {})]
        /\ UNCHANGED <<load, now, pooled, left, tracker, firstStatus, onBlock, rec, cand, node>>

\* remove, with the history.
Remove(S) ==
    /\ entries' = Without(entries, S)
    /\ offers' = Without(offers, S)

SetState(S, s) == [t \in Held |-> IF t \in S THEN [entries[t] EXCEPT !.state = s] ELSE entries[t]]

\* status: the first call after boot starts the restart wait window.
StatusCalled ==
    /\ "gate" \in load.events /\ firstStatus = NoStatusYet
    /\ firstStatus' = now
    /\ UNCHANGED <<load, now, store, tracker, onBlock, rec, cand, node, offers>>

\* sweepExpired: evictExpired, then forgetExpired on the tracker.
SweepExpired ==
    /\ \/ \E t \in Held : ~Usable(entries[t])
       \/ \E b \in DOMAIN tracked :
             tracked[b].until <= now \/ (tracked[b].expire <= now /\ tracked[b].txs # {})
    /\ Remove({t \in Held : ~Usable(entries[t])})
    /\ tracked' = [b \in {c \in DOMAIN tracked : tracked[c].until > now} |->
                     [tracked[b] EXCEPT !.txs = IF tracked[b].expire <= now THEN {} ELSE @]]
    /\ UNCHANGED <<load, now, pooled, left, lastFinalized, firstStatus, onBlock, rec, cand, node>>
----------------------------------------------------------------------------
\* A block and its ancestors, and what they contain.
Branch(b) ==
    LET from[c \in 0..Len(blocks)] ==
          IF c = 0 THEN {0} ELSE {c} \cup from[blocks[c].parent]
    IN  from[b]

Included(b) == UNION {blocks[c].txs : c \in Branch(b) \ {0}}

\* The pool admits a transaction, and drops one by itself.
PoolAdd(t) ==
    /\ adds < load.adds /\ t \in load.txs /\ t \notin DOMAIN pool /\ t \notin Included(head)
    /\ adds' = adds + 1
    /\ pool' = With(pool, t, now)
    /\ news' = [news EXCEPT ![t] = Append(@, "add")]
    /\ UNCHANGED <<load, now, store, tracker, firstStatus, onBlock, rec, cand, blocks, head,
                   final, offers>>

PoolDrop(t) ==
    /\ "drop" \in load.events /\ t \in DOMAIN pool
    /\ pool' = Without(pool, {t})
    /\ news' = [news EXCEPT ![t] = Append(@, "drop")]
    /\ UNCHANGED <<load, now, store, tracker, firstStatus, onBlock, rec, cand, blocks, head,
                   final, adds, offers>>

\* pooled: the TransactionAdded event.
Pooled(t) ==
    /\ news[t] # <<>> /\ Head(news[t]) = "add"
    /\ news' = [news EXCEPT ![t] = Tail(@)]
    /\ pooled' = With(pooled, t, now)
    /\ left' = Without(left, {t})
    /\ entries' = SetState({t}, "pooled")
    /\ UNCHANGED <<load, now, tracker, firstStatus, onBlock, rec, cand, pool, blocks, head,
                   final, adds, offers>>

\* unpooled: the TransactionDropped event.
Unpooled(t) ==
    /\ news[t] # <<>> /\ Head(news[t]) = "drop"
    /\ news' = [news EXCEPT ![t] = Tail(@)]
    /\ pooled' = Without(pooled, {t})
    /\ left' = With(left, t, now)
    /\ entries' = SetState({u \in {t} \cap Held : entries[u].state = "pooled"}, "orphan")
    /\ UNCHANGED <<load, now, tracker, firstStatus, onBlock, rec, cand, pool, blocks, head,
                   final, adds, offers>>

\* The plugin's reconcile reads the clock, then the pool ...
ReconcileStart ==
    /\ "reconcile" \in load.events /\ rec.pc = "idle"
    /\ rec' = [NoRec EXCEPT !.pc = "clock", !.at = now]
    /\ UNCHANGED <<load, now, store, tracker, firstStatus, onBlock, cand, node, offers>>

ReconcileSnapshot ==
    /\ rec.pc = "clock"
    /\ rec' = [rec EXCEPT !.pc = "read", !.snapshot = DOMAIN pool]
    /\ UNCHANGED <<load, now, store, tracker, firstStatus, onBlock, cand, node, offers>>

\* mutant: the snapshot wins over every event
IsGoneAlways(t) == t \notin rec.snapshot

\* reconcile: in the store's pool and not in the snapshot, reported before it.
IsGone(t) == t \notin rec.snapshot /\ pooled[t] < rec.at

\* ... and then aligns the store with the snapshot.
Reconcile ==
    LET gone == {t \in DOMAIN pooled : IsGone(t)}
        orphaned == {t \in gone \cap Held : entries[t].state = "pooled"}
        back == {t \in rec.snapshot :
                   /\ ~(t \in DOMAIN left /\ left[t] >= rec.at)
                   /\ ~(t \in Held /\ entries[t].state = "included")}
        reported == [t \in (DOMAIN pooled \ gone) \cup back |->
                       IF t \in DOMAIN pooled THEN pooled[t] ELSE rec.at]
        departed == [t \in DOMAIN left \cup gone |-> IF t \in gone THEN now ELSE left[t]]
    IN  /\ rec.pc = "read"
        /\ rec' = NoRec
        /\ pooled' = reported
        /\ left' = Restrict(departed, {t \in DOMAIN departed : departed[t] >= rec.at})
        /\ entries' = [t \in Held |->
              IF t \in back THEN [entries[t] EXCEPT !.state = "pooled"]
              ELSE IF t \in orphaned THEN [entries[t] EXCEPT !.state = "orphan"]
              ELSE entries[t]]
        /\ UNCHANGED <<load, now, tracker, firstStatus, onBlock, cand, node, offers>>
----------------------------------------------------------------------------
\* The chain adds a block: on the head, on a fork, or as the new head of one.
\* The pool loses what is now canonical, with or without an event, and gets back
\* what no longer is.  Events of earlier blocks have been delivered, and the
\* transactions are ones this node has seen.
AddBlock(parent, txs, canonical) ==
    LET b == Len(blocks) + 1
        mined == txs \cup Included(parent)
        back == Included(head) \ mined
        confirmed == DOMAIN pool \cap mined
    IN  /\ Len(blocks) < load.blocks /\ onBlock.pc = "idle"
        /\ parent \in 0..Len(blocks) /\ txs \cap Included(parent) = {}
        /\ txs \subseteq DOMAIN pool \cup Included(head)
        /\ parent = head => canonical
        /\ parent # head => "blocks" \in load.events
        /\ canonical => final \in Branch(parent)
        /\ blocks' = Append(blocks, [parent |-> parent, txs |-> txs])
        /\ onBlock' = [pc |-> "record", block |-> b, canonical |-> canonical]
        /\ IF canonical
           THEN /\ head' = b
                /\ pool' = [t \in (DOMAIN pool \ confirmed) \cup back |->
                              IF t \in back THEN now ELSE pool[t]]
                /\ \E told \in SUBSET confirmed :
                     news' = [t \in Txs |-> IF t \in back THEN Append(news[t], "add")
                                            ELSE IF t \in told THEN Append(news[t], "drop")
                                            ELSE news[t]]
           ELSE UNCHANGED <<head, pool, news>>
        /\ UNCHANGED <<load, now, store, tracker, firstStatus, rec, cand, final, adds, offers>>

Finalize(b) ==
    /\ "blocks" \in load.events
    /\ b \in Branch(head) /\ b > final /\ final \in Branch(b)
    /\ final' = b
    /\ UNCHANGED <<load, now, store, tracker, firstStatus, onBlock, rec, cand, pool, news,
                   blocks, head, adds, offers>>

\* The latest expiry of the approvals, and the record of a block that holds them.
Inclusion(b, approved) ==
    [parent |-> blocks[b].parent, txs |-> approved, until |-> now + MaxTtl,
     expire |-> IF approved = {} THEN 0
                ELSE CHOOSE e \in {entries[t].expires : t \in approved} :
                       \A t \in approved : entries[t].expires <= e]

\* recordIncluded: every block, empty or not.
Record(b, approved) == With(tracked, b, Inclusion(b, approved))

\* onBlockAdded looks the block's approvals up, records the block, and marks a
\* canonical block's transactions included ...
BlockRecord ==
    LET b == onBlock.block
        mined == IF onBlock.canonical THEN blocks[b].txs ELSE {}
    IN  /\ onBlock.pc = "record"
        /\ onBlock' = [onBlock EXCEPT !.pc = "release"]
        /\ tracked' = Record(b, blocks[b].txs \cap Held)
        /\ pooled' = Without(pooled, mined)
        /\ left' = [t \in DOMAIN left \cup mined |-> IF t \in mined THEN now ELSE left[t]]
        /\ entries' = SetState(mined, "included")
        /\ UNCHANGED <<load, now, lastFinalized, firstStatus, rec, cand, node, offers>>

\* finalizedUpTo: the tracked blocks on the way from f to the last finalized one.
Walk(f) ==
    LET from[b \in 0..Len(blocks)] ==
          IF b \notin DOMAIN tracked \/ b = lastFinalized THEN {}
          ELSE {b} \cup from[tracked[b].parent]
    IN  from[f]

\* ... and then releaseFinalized: finalizedUpTo, then removeAll.
BlockRelease ==
    /\ onBlock.pc = "release"
    /\ onBlock' = NoBlock
    /\ tracked' = Without(tracked, Walk(final))
    /\ lastFinalized' = final
    /\ Remove(UNION {tracked[b].txs : b \in Walk(final)})
    /\ UNCHANGED <<load, now, pooled, left, firstStatus, rec, cand, node>>
----------------------------------------------------------------------------
\* WaitWindow.startOf
StartOf(t) ==
    LET resumed == IF firstStatus < Extension THEN firstStatus ELSE Extension
    IN  IF pool[t] > resumed THEN pool[t] ELSE resumed

TimedOut(t) == now - StartOf(t) >= Wait

\* An invalid verdict makes Besu drop the transaction from its pool.
DropInvalid(t) ==
    /\ pool' = Without(pool, {t})
    /\ news' = IF t \in DOMAIN pool THEN [news EXCEPT ![t] = Append(@, "drop")] ELSE news

\* evaluateTransactionPreProcessing: an approved candidate is executed.
Select(t) ==
    /\ "gate" \in load.events /\ cand.pc # "exec" /\ t \in DOMAIN pool
    /\ Approves(t)
    /\ \E id \in 1..2 :
         cand' = [pc |-> "exec", tx |-> t, executed |-> id, expires |-> entries[t].expires]
    /\ UNCHANGED <<load, now, store, tracker, firstStatus, onBlock, rec, node, offers>>

\* Without a usable approval it waits, which changes nothing, or is dropped.
SelectAbsent(t) ==
    /\ "gate" \in load.events /\ cand.pc # "exec" /\ t \in DOMAIN pool
    /\ ~Approves(t) /\ TimedOut(t)
    /\ DropInvalid(t)
    /\ cand' = NoCand
    /\ UNCHANGED <<load, now, store, tracker, firstStatus, onBlock, rec, blocks, head, final,
                   adds, offers>>

\* evaluateTransactionPostProcessing: the approval held now covers what executed.
Commit ==
    /\ cand.pc = "exec"
    /\ Approves(cand.tx) /\ entries[cand.tx].id = cand.executed

Allow ==
    /\ Commit
    /\ cand' = [cand EXCEPT !.pc = "granted"]
    /\ UNCHANGED <<load, now, store, tracker, firstStatus, onBlock, rec, node, offers>>

\* Expired meanwhile: it waits out its window.  Anything else: rejected.
Refuse ==
    LET t == cand.tx
        expired == ~Approves(t) /\ (t \in Held \/ now >= cand.expires)
    IN  /\ cand.pc = "exec" /\ ~Commit
        /\ cand' = NoCand
        /\ IF expired /\ ~(t \in DOMAIN pool /\ TimedOut(t)) THEN UNCHANGED <<pool, news>>
           ELSE DropInvalid(t)
        /\ UNCHANGED <<load, now, store, tracker, firstStatus, onBlock, rec, blocks, head,
                       final, adds, offers>>
----------------------------------------------------------------------------
StoreStep ==
    \/ \E b \in load.batches : Deliver(b)
    \/ StatusCalled \/ SweepExpired
    \/ \E t \in Txs : Pooled(t) \/ Unpooled(t)
    \/ ReconcileStart \/ ReconcileSnapshot \/ Reconcile
    \/ BlockRecord \/ BlockRelease

NodeStep ==
    \/ \E t \in Txs : PoolAdd(t) \/ PoolDrop(t)
    \/ \E p \in 0..Len(blocks), txs \in SUBSET Txs, c \in BOOLEAN : AddBlock(p, txs, c)
    \/ \E b \in 1..Len(blocks) : Finalize(b)

Next ==
    \/ Tick \/ StoreStep \/ NodeStep
    \/ \E t \in Txs : Select(t) \/ SelectAbsent(t)
    \/ Allow \/ Refuse

Spec == Init /\ [][Next]_vars
----------------------------------------------------------------------------
TypeOK ==
    /\ load \in Loads
    /\ now \in 0..MaxTime
    /\ Held \subseteq Txs /\ DOMAIN offers = Held
    /\ \A t \in Held : entries[t].state \in {"pooled", "included", "orphan"}
    /\ DOMAIN pooled \subseteq Txs /\ DOMAIN left \subseteq Txs
    /\ DOMAIN tracked \subseteq 1..Len(blocks)
    /\ DOMAIN pool \subseteq Txs
    /\ {lastFinalized, head, final} \subseteq 0..Len(blocks)

\* Of the approvals accepted for a transaction and still valid, the store keeps
\* the greatest, in whatever order they came, also when they came again (rank).
KeepsGreatest ==
    \A t \in Held : \A o \in offers[t] : Usable(o) => ~Outranks(o, entries[t])

\* Every event about the transaction has been delivered.
Settled(t) == news[t] = <<>>

\* The approval of a transaction that is in the pool counts as pooled, whatever
\* reorganisations and stale snapshots there were (reconcile, included).
LiveIsPooled ==
    \A t \in DOMAIN pool \cap Held : Settled(t) => entries[t].state = "pooled"

Producer == INSTANCE ApprovalContract
    WITH held <- [t \in Held |-> [issued |-> entries[t].issued, id |-> entries[t].id,
                                  expires |-> entries[t].expires]],
         live <- {t \in DOMAIN pool : Settled(t)}

\* The store keeps the producer's contract: no step takes the valid approval of a
\* pooled transaction away, replaces one by a lower one or exceeds the capacity,
\* not a full store, finality, a sweep or a reorganisation (putAll, finalizedUpTo).
Contract == Producer!Spec

\* Once a block event has been handled, nothing of the finalized chain is tracked
\* any more: no expired or empty block cuts the walk (finalizedUpTo).
FinalReleased ==
    onBlock.pc = "idle" => DOMAIN tracked \cap Branch(lastFinalized) = {}

\* A transaction is let into a block only under an approval that is held and
\* valid at that moment and covers what was executed (post-processing).
CommitsApproved ==
    [][cand.pc = "exec" /\ cand'.pc = "granted" =>
          Approves(cand.tx) /\ entries[cand.tx].id = cand.executed]_vars

\* No pooled transaction waits for ever: the window closes once the wait has
\* passed since its admission and the restart extension, even if OPS never calls
\* Status; and never before the wait has passed since its admission (WaitWindow).
WaitBounded ==
    \A t \in DOMAIN pool :
        /\ now >= pool[t] + Wait /\ now >= Extension + Wait => TimedOut(t)
        /\ TimedOut(t) => now >= pool[t] + Wait

\* The store is right whatever pool events, snapshots, forks and batches there were: it
\* keeps the greatest offer, counts pooled approvals as pooled, tracks nothing final,
\* closes the wait in time, and lets only approved executions into a block.
ProducerSafe ==
    /\ [](TypeOK /\ KeepsGreatest /\ LiveIsPooled /\ FinalReleased /\ WaitBounded)
    /\ CommitsApproved
=============================================================================
