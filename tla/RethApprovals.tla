--------------------------- MODULE RethApprovals ---------------------------
(***************************************************************************)
(* The approvals a Reth producer holds (node-approvals/reth): one entry    *)
(* per known transaction with its timer, pool arrivals from the listener   *)
(* and the periodic scan, batches, the first Status call, the canonical    *)
(* chain and finality notifications, the sweep that times transactions     *)
(* out, and the payload builder's gate.                                    *)
(*                                                                         *)
(* A key id and a fingerprint, compared bytewise, are one number, the id.  *)
(* Signatures and the other checks before the store are taken as passed.   *)
(* Instants and Unix milliseconds are one clock; boot is time 0.           *)
(***************************************************************************)
EXTENDS Integers, Sequences, FiniteSets, Functions

CONSTANTS
    Txs,          \* transaction hashes
    Capacity,     \* approvals held at most
    Wait,         \* Store.wait: the wait window, and the grace period
    Recheck,      \* RECHECK
    Window,       \* RESTART_WINDOW
    MaxTime,      \* bound: the clock of every load
    Loads         \* what a behaviour is open to: [events, batches, txs, adds, blocks, time];
                  \* txs reach the pool; adds, blocks and time bound admissions, blocks and the clock

\* Reorganisations and finality; finality read before a pending reorganisation; a
\* lost listener notification; the pool dropping transactions by itself; payload
\* building.
EventNames == {"forks", "race", "lose", "drop", "gate"}

\* The transactions that can reach the pool.
Arriving == UNION {l.txs : l \in Loads}

IsBatch(b) ==
    /\ b.issued \in Nat /\ b.expires \in Nat /\ b.issued < b.expires
    /\ DOMAIN b.ids \subseteq Txs

ASSUME RethAssumption ==
    /\ {Capacity, Wait, Recheck, Window, MaxTime} \subseteq Nat
    /\ \A l \in Loads :
          /\ l.events \subseteq EventNames
          /\ l.txs \subseteq Txs /\ l.adds \in Nat /\ l.blocks \in Nat
          /\ l.time \in 0..MaxTime
          /\ \A b \in l.batches : IsBatch(b)

VARIABLES
    load,         \* what this behaviour is open to; never changes
    now,
    entries,      \* transaction -> [approval, pooled, included, deadline]
    firstStatus,  \* State.first_status
    finalized,    \* State.finalized
    \* the node
    pool,         \* pooled transaction -> its timestamp
    calls,        \* seen_at calls announced and not yet made: <<transaction, timestamp>>
    chain,        \* the canonical blocks: a sequence of sets of transactions
    final,        \* the finalized block number
    notes,        \* canonical notifications not yet received: [from, old, new]
    adds, mined,  \* admissions and blocks so far
    sel,          \* the builder's selection: [pc, tx, approval, executed]
    offers        \* history: per held transaction, what was accepted for it

node == <<pool, calls, chain, final, notes, adds, mined>>
vars == <<load, now, entries, firstStatus, finalized, node, sel, offers>>

None == 0 - 1
NoApproval == [issued |-> 0, id |-> 0, expires |-> 0]
NoSel == [pc |-> "idle", tx |-> None, approval |-> NoApproval, executed |-> 0]
Empty == [t \in {} |-> 0]
Without(f, S) == Restrict(f, DOMAIN f \ S)
With(f, t, v) == [u \in DOMAIN f \cup {t} |-> IF u = t THEN v ELSE f[u]]
Least(a, b) == IF a < b THEN a ELSE b
Greatest(a, b) == IF a > b THEN a ELSE b

Init ==
    /\ load \in Loads
    /\ now = 0
    /\ entries = Empty /\ firstStatus = None /\ finalized = 0
    /\ pool = Empty /\ calls = {} /\ chain = <<>> /\ final = 0 /\ notes = <<>>
    /\ adds = 0 /\ mined = 0
    /\ sel = NoSel /\ offers = Empty

Tick ==
    /\ now < load.time
    /\ now' = now + 1
    /\ UNCHANGED <<load, entries, firstStatus, finalized, node, sel, offers>>
----------------------------------------------------------------------------
Known == DOMAIN entries
HasApproval(t) == t \in Known /\ entries[t].approval # NoApproval
Held == {t \in Known : HasApproval(t)}
IsPooled(t) == t \in Known /\ entries[t].pooled # None
UsableAt(a, ms) == ms < a.expires

\* rank
Outranks(a, b) == a.issued > b.issued \/ (a.issued = b.issued /\ a.id > b.id)

\* mutant: without a Status call the window never starts
WaitEndUncapped(arrived) ==
    Greatest(arrived, IF firstStatus = None THEN MaxTime ELSE firstStatus) + Wait

\* wait_end
WaitEnd(arrived) ==
    LET start == IF firstStatus = None THEN Window ELSE Least(firstStatus, Window)
    IN  Greatest(arrived, start) + Wait

\* seen_at: a transaction already pooled keeps its timer.
SeenAt(t, arrived) ==
    IF t \notin Known
    THEN With(entries, t, [approval |-> NoApproval, pooled |-> arrived, included |-> 0,
                           deadline |-> WaitEnd(arrived)])
    ELSE IF IsPooled(t) \/ ~HasApproval(t) THEN entries
    ELSE [entries EXCEPT ![t].pooled = arrived,
                         ![t].deadline = Least(entries[t].approval.expires, now + Recheck)]

\* mutant: the grace period alone protects an approval
MayEvictPooled(t, ms) == ~UsableAt(entries[t].approval, ms) \/ ms - entries[t].approval.issued >= Wait

\* victims: expired, or neither pooled nor young.
MayEvict(t, ms) ==
    \/ ~UsableAt(entries[t].approval, ms)
    \/ ~IsPooled(t) /\ ms - entries[t].approval.issued >= Wait

\* victims: expired ones by expiry, then included ones, then orphans, by issue.
EvictedBefore(t, u, ms) ==
    LET a(x) == entries[x].approval
        class(x) == IF ~UsableAt(a(x), ms) THEN 0 ELSE IF entries[x].included # 0 THEN 1 ELSE 2
        time(x) == IF class(x) = 0 THEN a(x).expires ELSE a(x).issued
    IN  class(t) < class(u) \/ (class(t) = class(u) /\ time(t) < time(u))

\* evict: an expired approval leaves its pooled transaction waiting on.
Evicted(V) ==
    [t \in Known \ {v \in V : ~IsPooled(v)} |->
       IF t \in V THEN [entries[t] EXCEPT !.approval = NoApproval,
                                          !.deadline = WaitEnd(entries[t].pooled)]
       ELSE entries[t]]

\* put, for a known transaction.
Put(e, a, ms) ==
    IF e.approval # NoApproval /\ ~Outranks(a, e.approval) THEN e
    ELSE [e EXCEPT !.approval = a,
                   !.deadline = IF e.pooled # None THEN Least(a.expires, ms + Recheck)
                                ELSE a.expires]

\* put_batch, with the clock the check read before it took the lock: the victims
\* go, then every approval is put; a batch that finds no room changes nothing.
PutBatch(b, ms) ==
    LET named == DOMAIN b.ids
        offer(t) == [issued |-> b.issued, id |-> b.ids[t], expires |-> b.expires]
        fresh == Cardinality(named \ Held)
        free == Capacity - Cardinality(Held)
        candidates == {t \in Held \ named : MayEvict(t, ms)}
        needed == IF fresh > free THEN fresh - free ELSE 0
        blank == [approval |-> NoApproval, pooled |-> None, included |-> 0, deadline |-> 0]
    IN  /\ b.issued <= ms /\ b.expires > ms
        /\ \E V \in SUBSET candidates :
              /\ Cardinality(V) = needed
              /\ \A u \in candidates \ V, v \in V : ~EvictedBefore(u, v, ms)
              /\ LET rest == Evicted(V)
                 IN  entries' = [t \in DOMAIN rest \cup named |->
                       IF t \in named
                       THEN Put(IF t \in DOMAIN rest THEN rest[t] ELSE blank, offer(t), ms)
                       ELSE rest[t]]
              /\ offers' = [t \in (Held \ V) \cup named |->
                    (IF t \in Held THEN offers[t] ELSE {})
                      \cup (IF t \in named THEN {offer(t)} ELSE {})]
        /\ UNCHANGED <<load, now, firstStatus, finalized, node, sel>>

\* status_seen: the first call brings the waiting transactions' timers forward.
StatusSeen ==
    LET end(t) == Greatest(entries[t].pooled, Least(now, Window)) + Wait
    IN  /\ firstStatus = None
        /\ firstStatus' = now
        /\ entries' = [t \in Known |->
              IF ~HasApproval(t) /\ IsPooled(t) THEN [entries[t] EXCEPT !.deadline = end(t)]
              ELSE entries[t]]
        /\ UNCHANGED <<load, now, finalized, node, sel, offers>>

\* remove and approval = None, in the history too.
Forget(S) == offers' = Restrict(offers, DOMAIN offers \ S)
----------------------------------------------------------------------------
\* The pool admits a transaction and tells the listener, or the notification is
\* lost; the pool drops one by itself.
PoolAdd(t) ==
    /\ adds < load.adds /\ t \in load.txs /\ t \notin DOMAIN pool
    /\ \A i \in DOMAIN chain : t \notin chain[i]
    /\ adds' = adds + 1
    /\ pool' = With(pool, t, now)
    /\ \/ calls' = calls \cup {<<t, now>>}
       \/ "lose" \in load.events /\ UNCHANGED calls
    /\ UNCHANGED <<load, now, entries, firstStatus, finalized, chain, final, notes, mined, sel,
                   offers>>

PoolDrop(t) ==
    /\ "drop" \in load.events /\ t \in DOMAIN pool
    /\ pool' = Without(pool, {t})
    /\ UNCHANGED <<load, now, entries, firstStatus, finalized, calls, chain, final, notes, adds,
                   mined, sel, offers>>

\* start: the periodic scan lists the pool and then calls seen_at for each.
Scan ==
    /\ \E t \in DOMAIN pool : ~IsPooled(t)
    /\ calls' = calls \cup {<<t, pool[t]>> : t \in DOMAIN pool}
    /\ UNCHANGED <<load, now, entries, firstStatus, finalized, pool, chain, final, notes, adds,
                   mined, sel, offers>>

Seen(c) ==
    /\ c \in calls
    /\ calls' = calls \ {c}
    /\ entries' = SeenAt(c[1], c[2])
    /\ UNCHANGED <<load, now, firstStatus, finalized, pool, chain, final, notes, adds, mined, sel,
                   offers>>

\* mutant: an unapproved transaction is timed out whenever its timer fires
TimesOutAny(t) == IsPooled(t) /\ ~(HasApproval(t) /\ UsableAt(entries[t].approval, now))

\* sweep: a pooled transaction without a usable approval whose window has closed.
TimesOut(t) ==
    /\ IsPooled(t) /\ ~(HasApproval(t) /\ UsableAt(entries[t].approval, now))
    /\ now >= WaitEnd(entries[t].pooled)

\* sweep, for an entry whose timer is due and that stays.
Swept(t) ==
    LET e == entries[t]
    IN  IF ~HasApproval(t) \/ ~UsableAt(e.approval, now)
        THEN [e EXCEPT !.approval = NoApproval, !.deadline = WaitEnd(e.pooled)]
        ELSE IF e.pooled # None /\ e.included = 0
        THEN IF t \in DOMAIN pool
             THEN [e EXCEPT !.deadline = Least(e.approval.expires, now + Recheck)]
             ELSE [e EXCEPT !.pooled = None, !.deadline = e.approval.expires]
        ELSE [e EXCEPT !.deadline = e.approval.expires]

\* sweep handles the due timers under the store's lock.
Sweep ==
    LET due == {t \in Known : entries[t].deadline <= now}
        unusable(t) == ~HasApproval(t) \/ ~UsableAt(entries[t].approval, now)
        out == {t \in due : TimesOut(t)}
        gone == out \cup {t \in due : unusable(t) /\ ~IsPooled(t)}
    IN  /\ due # {}
        /\ entries' = [t \in Known \ gone |-> IF t \in due THEN Swept(t) ELSE entries[t]]
        /\ pool' = Without(pool, out)
        /\ Forget({t \in due : unusable(t)})
        /\ UNCHANGED <<load, now, firstStatus, finalized, calls, chain, final, notes, adds, mined,
                       sel>>
----------------------------------------------------------------------------
\* The canonical chain drops its blocks above number n and gets one more.
Mine(n, txs) ==
    LET old == [i \in 1..(Len(chain) - n) |-> chain[n + i]]
        kept == UNION {chain[i] : i \in 1..n}
        back == UNION Range(old) \ txs
    IN  /\ mined < load.blocks
        /\ n \in final..Len(chain) /\ (n < Len(chain) => "forks" \in load.events)
        /\ txs \cap kept = {} /\ txs \subseteq DOMAIN pool \cup UNION Range(old)
        /\ mined' = mined + 1
        /\ chain' = Append(SubSeq(chain, 1, n), txs)
        /\ notes' = Append(notes, [from |-> n, old |-> old, new |-> <<txs>>])
        /\ pool' = [t \in (DOMAIN pool \ txs) \cup back |-> IF t \in back THEN now ELSE pool[t]]
        /\ calls' = calls \cup {<<t, now>> : t \in back}
        /\ UNCHANGED <<load, now, entries, firstStatus, finalized, final, adds, sel, offers>>

Finalize(n) ==
    /\ n \in (final + 1)..Len(chain) /\ "forks" \in load.events
    /\ final' = n
    /\ UNCHANGED <<load, now, entries, firstStatus, finalized, pool, calls, chain, notes, adds,
                   mined, sel, offers>>

\* included: kept for a reorganisation until final; a placeholder goes.
Includes(t, b) == HasApproval(t) /\ b > finalized

\* follow: a notification's reverted blocks, then its committed one.
FollowCanonical ==
    LET note == Head(notes)
        b == note.from + 1
        reverted(t) == \E i \in DOMAIN note.old :
                          t \in note.old[i] /\ entries[t].included = note.from + i
        gone == {t \in note.new[1] \cap Known : ~Includes(t, b)}
    IN  /\ notes # <<>>
        /\ notes' = Tail(notes)
        /\ entries' = [t \in Known \ gone |->
              IF t \in note.new[1]
              THEN [entries[t] EXCEPT !.included = b, !.pooled = None,
                                      !.deadline = entries[t].approval.expires]
              ELSE IF reverted(t) THEN [entries[t] EXCEPT !.included = 0] ELSE entries[t]]
        /\ Forget(gone)
        /\ UNCHANGED <<load, now, firstStatus, finalized, pool, calls, chain, final, adds, mined,
                       sel>>

\* follow: the finalized block advanced.  The select may take it before a chain
\* notification that is already there.
FollowFinalized ==
    LET gone == {t \in Held : entries[t].included \in 1..final}
    IN  /\ final > finalized
        /\ "race" \in load.events \/ \A i \in DOMAIN notes : notes[i].old = <<>>
        /\ finalized' = final
        /\ entries' = Without(entries, gone)
        /\ Forget(gone)
        /\ UNCHANGED <<load, now, firstStatus, node, sel>>
----------------------------------------------------------------------------
\* try_build's filter: seen_at, and a usable approval becomes the selection.
Select(t) ==
    /\ "gate" \in load.events /\ sel.pc # "exec" /\ t \in DOMAIN pool
    /\ entries' = SeenAt(t, pool[t])
    /\ IF HasApproval(t) /\ UsableAt(entries[t].approval, now)
       THEN \E id \in 1..2 :
              sel' = [pc |-> "exec", tx |-> t, approval |-> entries[t].approval, executed |-> id]
       ELSE sel' = NoSel
    /\ sel' # sel \/ entries' # entries
    /\ UNCHANGED <<load, now, firstStatus, finalized, node, offers>>

\* require_unexpired, after the execution and after the comparison.
Unexpired == now < sel.approval.expires

\* transact_raw returns the result for commit, or denies.
Transact ==
    /\ sel.pc = "exec"
    /\ sel' = IF Unexpired /\ sel.executed = sel.approval.id
              THEN [sel EXCEPT !.pc = "granted"] ELSE NoSel
    /\ UNCHANGED <<load, now, entries, firstStatus, finalized, node, offers>>
----------------------------------------------------------------------------
StoreStep ==
    \/ \E b \in load.batches, ms \in {now - 1, now} : PutBatch(b, ms)
    \/ StatusSeen \/ Scan \/ Sweep
    \/ \E c \in calls : Seen(c)
    \/ FollowCanonical \/ FollowFinalized

NodeStep ==
    \/ \E t \in Txs : PoolAdd(t) \/ PoolDrop(t)
    \/ \E n \in 0..Len(chain), txs \in SUBSET Txs : Mine(n, txs)
    \/ \E n \in 1..Len(chain) : Finalize(n)

Next ==
    \/ Tick \/ StoreStep \/ NodeStep
    \/ \E t \in Txs : Select(t)
    \/ Transact

Spec == Init /\ [][Next]_vars

\* Time passes, and the store's tasks keep running.
FairSpec ==
    /\ Spec
    /\ WF_vars(Tick) /\ WF_vars(Scan) /\ WF_vars(Sweep)
    /\ WF_vars(FollowCanonical)
    /\ \A t \in Arriving : WF_vars(\E c \in calls : c[1] = t /\ Seen(c))
----------------------------------------------------------------------------
TypeOK ==
    /\ load \in Loads
    /\ now \in 0..MaxTime
    /\ Known \subseteq Txs /\ DOMAIN offers = Held
    /\ \A t \in Known :
          /\ entries[t].pooled \in {None} \cup 0..now
          /\ entries[t].included \in 0..load.blocks
          /\ entries[t].approval # NoApproval \/ entries[t].pooled # None
    /\ DOMAIN pool \subseteq Txs
    /\ finalized \in 0..final /\ final \in 0..Len(chain)

\* Of the approvals accepted for a transaction and still valid, the store keeps
\* the greatest, in whatever order they came, also when they came again (rank).
KeepsGreatest ==
    \A t \in Held : \A o \in offers[t] :
        UsableAt(o, now) => ~Outranks(o, entries[t].approval)

Producer == INSTANCE ApprovalContract
    WITH held <- [t \in Held |-> entries[t].approval],
         live <- {t \in DOMAIN pool : IsPooled(t)}

\* The store keeps the producer's contract: no step takes the valid approval of a
\* transaction it knows to be pooled away, replaces one by a lower one or exceeds
\* the capacity, while finality is not read before a reorganisation (put_batch, finalized).
Contract == Producer!Spec

\* The approval of a transaction in a finalized block is not kept, in whichever
\* order the block and its finality are learned (included, finalized), unless a
\* late announcement made the store take the transaction for pooled again.
FinalReleased ==
    \A t \in Held :
        entries[t].included # 0 /\ ~IsPooled(t) => entries[t].included > finalized

\* The sweep times a transaction out only without a valid approval in the store,
\* and after a full window since its admission (sweep under the store's lock).
TimeoutJustified ==
    [][\A t \in DOMAIN pool \cap Known :
          t \notin DOMAIN pool' /\ t \notin Known' =>
             /\ ~(HasApproval(t) /\ UsableAt(entries[t].approval, now))
             /\ (IsPooled(t) => now >= entries[t].pooled + Wait)]_vars

\* A transaction is let into a block only under an approval that was accepted and
\* is valid when the execution ends, and that covers what was executed.
CommitsApproved ==
    [][sel.pc = "exec" /\ sel'.pc = "granted" =>
          now < sel.approval.expires /\ sel.approval.id = sel.executed]_vars

\* No transaction waits for ever in the pool: it gets an approval or leaves, also
\* when its notification is lost and OPS never calls Status (seen_at, sweep).
EventuallyDecided ==
    \A t \in Arriving :
        t \in DOMAIN pool /\ Greatest(pool[t], Window) + Wait <= load.time
          ~> (t \notin DOMAIN pool \/ HasApproval(t))

\* The store is right whatever the pool, the chain and its notifications did: it keeps the
\* greatest offer and nothing final, times out only transactions without a valid approval
\* after their window, and lets only approved executions into a block.
ProducerSafe ==
    /\ [](TypeOK /\ KeepsGreatest /\ FinalReleased)
    /\ TimeoutJustified /\ CommitsApproved
=============================================================================
