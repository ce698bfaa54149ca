-------------------------- MODULE ApprovalDelivery --------------------------
(***************************************************************************)
(* Delivery of signed approvals to one block producer                      *)
(* (internal/nodeapproval): Enqueue and the signer, the retention of signed *)
(* batches, the producer's lane with its dispatcher, calls and backoff, the *)
(* connection watcher, redelivery after a producer restart, and the drain  *)
(* on Close.  Lanes of several producers share only the retention, which   *)
(* each walks with its own cursor, so one lane is modelled.                *)
(*                                                                         *)
(* A batch is its sequence number; its approvals are counted, not named.   *)
(* Time is abstracted: a batch may expire, and a backoff may elapse, at    *)
(* any moment.  A wake-up is sent right after the lock is released and is  *)
(* part of the step.  Generation 0 and boot id 0 stand for none.           *)
(***************************************************************************)
EXTENDS Integers, Sequences, FiniteSets

CONSTANTS
    Slots,        \* the call slots of a lane, one per maxInFlight
    MaxBatch,     \* Service.maxBatch, approvals per batch
    RetainMax,    \* retention.max, approvals retained
    QueueCap,     \* capacity of Service.queue
    Workloads,    \* the sets of events a behaviour may be open to
    MaxApprovals, \* bound: approvals handed to Enqueue
    MaxConns,     \* bound: connections established
    MaxRestarts,  \* bound: producer restarts
    MaxFaults,    \* bound: refusals, timeouts and unusable answers
    MaxExpired    \* bound: batches that expire

\* Close, batches that expire, connections that break, producer restarts,
\* refusals, timeouts and unusable Status answers, and a lane with all its slots
\* instead of one.
EventNames == {"close", "expire", "flap", "restart", "fault", "wide"}

ASSUME DeliveryAssumption ==
    /\ Workloads \subseteq SUBSET EventNames
    /\ IsFiniteSet(Slots) /\ Slots # {} /\ "watch" \notin Slots
    /\ MaxBatch \in Nat \ {0} /\ RetainMax \in Nat \ {0} /\ QueueCap \in Nat \ {0}
    /\ {MaxApprovals, MaxConns, MaxRestarts, MaxFaults, MaxExpired} \subseteq Nat

VARIABLES
    events,       \* the events this behaviour is open to; never changes
    \* Service
    queue, left, closing, cancelled, finished, stopped,
    \* retention: approvals per batch signed so far, the oldest retained batch
    sizes, front, expired,
    \* lane
    cursor, retries, redo, backoff, gen, boot, readyGen, lost, confirmed,
    run, wake,    \* the dispatcher and its wake channel
    calls,        \* per slot: [pc, seq, probe, gen, conn, boot, out]
    obs,          \* per goroutine inside observeBoot: [pc, gen, boot, redo]
    watch,        \* the watcher: [pc, conn, boot, usable]
    \* the producer and the connection to it
    conn, conns, process, store, restarts, blind, faults

service == <<queue, left, closing, cancelled, finished, stopped>>
retain == <<sizes, front, expired>>
lane == <<cursor, retries, redo, gen, boot, lost, confirmed>>
disp == <<run, wake>>
producer == <<conn, conns, process, store, restarts, blind>>
vars == <<events, service, retain, lane, backoff, readyGen, disp, calls, obs, watch, producer, faults>>

NoCall == [pc |-> "free", seq |-> 0, probe |-> FALSE, gen |-> 0, conn |-> 0, boot |-> 0,
           out |-> "none"]
NoRedo == [next |-> 0, low |-> 1]
NoObs == [pc |-> "none", gen |-> 0, boot |-> 0, redo |-> NoRedo]
NoWatch == [pc |-> "look", conn |-> 0, boot |-> 0, usable |-> TRUE]
NoBackoff == [active |-> FALSE, probing |-> FALSE, due |-> FALSE]
Threads == Slots \cup {"watch"}
Batches == 1..Len(sizes)
Faulty == "fault" \in events /\ faults < MaxFaults

\* mutant: the token is not sent
NotifyNone == UNCHANGED wake

\* notify: the wake channel holds one token.
Notify == wake' = TRUE

Init ==
    /\ events \in Workloads
    /\ queue = 0 /\ left = MaxApprovals
    /\ closing = FALSE /\ cancelled = FALSE /\ finished = FALSE /\ stopped = FALSE
    /\ sizes = <<>> /\ front = 1 /\ expired = {}
    /\ cursor = 0 /\ retries = <<>> /\ redo = NoRedo /\ backoff = NoBackoff
    /\ gen = 0 /\ boot = 0 /\ readyGen = 0 /\ lost = {} /\ confirmed = {}
    /\ run = "next" /\ wake = FALSE
    /\ calls = [s \in Slots |-> NoCall]
    /\ obs = [t \in Threads |-> NoObs]
    /\ watch = NoWatch
    /\ conn = 0 /\ conns = 0 /\ process = 1 /\ store = {} /\ restarts = 0
    /\ blind = FALSE /\ faults = 0
----------------------------------------------------------------------------
\* Enqueue accepts; it refuses, and changes nothing, while closing, while no
\* producer is ready and while the queue is full.
Enqueue ==
    /\ ~closing /\ readyGen # 0 /\ queue < QueueCap /\ left > 0
    /\ queue' = queue + 1
    /\ left' = left - 1
    /\ UNCHANGED <<events, closing, cancelled, finished, stopped, retain, lane, backoff, readyGen,
                   disp, calls, obs, watch, producer, faults>>

\* pruneLocked: expired batches leave from the front only.
IsPruned(f) ==
    /\ f \in front..(Len(sizes) + 1)
    /\ front..(f - 1) \subseteq expired
    /\ f \notin Batches \ expired => f = Len(sizes) + 1

PrunedFront == CHOOSE f \in front..(Len(sizes) + 1) : IsPruned(f)

\* The approvals of the batches from f on.
Weight(s, f) ==
    LET sum[i \in 0..Len(s)] == IF i < f THEN 0 ELSE sum[i - 1] + s[i]
    IN  IF f > Len(s) THEN 0 ELSE sum[Len(s)]

\* removeLocked: the lane loses what it had not taken.
Dropped(f) == {b \in front..(f - 1) : b > cursor}

\* signOne: takeBatch, SignBatch, and retention.add, which evicts the oldest
\* batches beyond the cap but always keeps the new one.
SignOne ==
    LET n == IF queue < MaxBatch THEN queue ELSE MaxBatch
        grown == Append(sizes, n)
        kept == CHOOSE f \in PrunedFront..Len(grown) :
                  /\ f = Len(grown) \/ Weight(grown, f) <= RetainMax
                  /\ \A g \in PrunedFront..(f - 1) : Weight(grown, g) > RetainMax
    IN  /\ queue > 0
        /\ queue' = queue - n
        /\ sizes' = grown
        /\ front' = kept
        /\ lost' = lost \cup Dropped(kept)
        /\ Notify
        /\ UNCHANGED <<events, left, closing, cancelled, finished, stopped, expired, cursor, retries,
                       redo, gen, boot, confirmed, backoff, readyGen, run, calls, obs, watch,
                       producer, faults>>

\* signLoop's ticker: retention.prune.
PruneTick ==
    /\ ~finished /\ PrunedFront # front
    /\ front' = PrunedFront
    /\ lost' = lost \cup Dropped(PrunedFront)
    /\ UNCHANGED <<events, service, sizes, expired, cursor, retries, redo, gen, boot, confirmed,
                   backoff, readyGen, disp, calls, obs, watch, producer, faults>>

\* A batch reaches its expires_at.
Expire(b) ==
    /\ "expire" \in events
    /\ b \in Batches \ expired /\ Cardinality(expired) < MaxExpired
    /\ expired' = expired \cup {b}
    /\ UNCHANGED <<events, service, sizes, front, lane, backoff, readyGen, disp, calls, obs, watch,
                   producer, faults>>

\* Close: closing is set under the lock, then the signer is cancelled.
Close ==
    /\ "close" \in events /\ ~closing
    /\ closing' = TRUE
    /\ UNCHANGED <<events, queue, left, cancelled, finished, stopped, retain, lane, backoff, readyGen,
                   disp, calls, obs, watch, producer, faults>>

CancelSigner ==
    /\ closing /\ ~cancelled
    /\ cancelled' = TRUE
    /\ UNCHANGED <<events, queue, left, closing, finished, stopped, retain, lane, backoff, readyGen,
                   disp, calls, obs, watch, producer, faults>>

\* signLoop returns once the queue is empty: retention.finish.
Finish ==
    /\ cancelled /\ ~finished /\ queue = 0
    /\ finished' = TRUE
    /\ Notify
    /\ UNCHANGED <<events, queue, left, closing, cancelled, stopped, retain, lane, backoff, readyGen,
                   run, calls, obs, watch, producer, faults>>

\* stopDelivery: every lane is done, or the drain timeout passed.
Stop ==
    /\ finished /\ ~stopped
    /\ stopped' = TRUE
    /\ UNCHANGED <<events, queue, left, closing, cancelled, finished, retain, lane, backoff, readyGen,
                   disp, calls, obs, watch, producer, faults>>
----------------------------------------------------------------------------
Free == {s \in Slots : calls[s].pc = "free"}
Busy == Slots \ Free

NextSlot == CHOOSE s \in Free : TRUE

\* next: no call may start now.
Blocked ==
    \/ Free = {} \/ ("wide" \notin events /\ Busy # {})
    \/ (backoff.active /\ backoff.probing)

\* next: the backoff has not elapsed.
Waiting == backoff.active /\ ~backoff.probing /\ ~backoff.due

\* takeFresh: what the lane has not taken, and where its cursor ends up.
Untaken == {b \in PrunedFront..Len(sizes) : b > cursor}
LiveRetries == {i \in DOMAIN retries : retries[i] \notin expired}
LiveRedo == {b \in redo.low..redo.next : b \in PrunedFront..Len(sizes) /\ b \notin expired}
LiveWork == (Untaken \ expired) # {} \/ LiveRetries # {} \/ LiveRedo # {}

\* The job gets a slot, and is the probe of a lane that is backing off.
Start(s, b) ==
    /\ calls' = [calls EXCEPT ![s] = [NoCall EXCEPT !.pc = "picked", !.seq = b,
                                                    !.probe = backoff.active]]
    /\ backoff' = [backoff EXCEPT !.probing = backoff.active]

\* pickLocked: a fresh batch, the oldest first.
TakeFresh(s) ==
    /\ run = "next" /\ ~Blocked /\ ~Waiting /\ s = NextSlot
    /\ \E b \in Untaken \ expired :
          /\ \A c \in Untaken \ expired : b <= c
          /\ cursor' = b
          /\ lost' = lost \cup Dropped(PrunedFront) \cup {c \in Untaken : c < b}
          /\ Start(s, b)
    /\ front' = PrunedFront
    /\ UNCHANGED <<events, service, sizes, expired, retries, redo, gen, boot, confirmed, readyGen,
                   disp, obs, watch, producer, faults>>

\* takeFresh finds nothing live: the cursor has passed what expired.
SkipUntaken ==
    /\ Untaken \subseteq expired
    /\ cursor' = IF Untaken = {} THEN cursor ELSE Len(sizes)
    /\ front' = PrunedFront

\* pickLocked: a batch refused earlier, the oldest refusal first.
TakeRetry(s) ==
    /\ run = "next" /\ ~Blocked /\ ~Waiting /\ s = NextSlot
    /\ SkipUntaken
    /\ \E i \in LiveRetries :
          /\ \A j \in LiveRetries : i <= j
          /\ Start(s, retries[i])
          /\ retries' = SubSeq(retries, i + 1, Len(retries))
          /\ lost' = lost \cup Dropped(PrunedFront) \cup Untaken
                        \cup {retries[j] : j \in 1..(i - 1)}
    /\ UNCHANGED <<events, service, sizes, expired, redo, gen, boot, confirmed, readyGen, disp, obs,
                   watch, producer, faults>>

\* What a pick loses on its way past everything that is not live.
PassedOver == Dropped(PrunedFront) \cup Untaken \cup {retries[j] : j \in DOMAIN retries}

\* pickLocked: the redelivery, the newest first.
TakeRedo(s) ==
    /\ run = "next" /\ ~Blocked /\ ~Waiting /\ s = NextSlot
    /\ SkipUntaken
    /\ LiveRetries = {}
    /\ retries' = <<>>
    /\ lost' = lost \cup PassedOver
    /\ \E b \in LiveRedo :
          /\ \A c \in LiveRedo : c <= b
          /\ Start(s, b)
          /\ redo' = [redo EXCEPT !.next = b - 1]
    /\ UNCHANGED <<events, service, sizes, expired, gen, boot, confirmed, readyGen, disp, obs, watch,
                   producer, faults>>

\* Nothing to send: the dispatcher ends when the drain is complete, else idles.
TakeNothing ==
    /\ run = "next" /\ ~Blocked /\ ~Waiting
    /\ SkipUntaken
    /\ LiveRetries = {} /\ LiveRedo = {}
    /\ retries' = <<>> /\ redo' = NoRedo
    /\ lost' = lost \cup PassedOver
    /\ run' = IF finished /\ Busy = {} THEN "done" ELSE "idle"
    /\ UNCHANGED <<events, service, sizes, expired, gen, boot, confirmed, backoff, readyGen, wake,
                   calls, obs, watch, producer, faults>>

\* next returns without a job: idle, with a timer while the lane backs off.
Hold ==
    /\ run = "next"
    /\ \/ Blocked /\ run' = "idle"
       \/ ~Blocked /\ Waiting /\ run' = "timer"
    /\ UNCHANGED <<events, service, retain, lane, backoff, readyGen, wake, calls, obs, watch,
                   producer, faults>>

\* idle: a wake-up, the timer, or stop.
Wake ==
    /\ run \in {"idle", "timer"} /\ wake
    /\ run' = "next" /\ wake' = FALSE
    /\ UNCHANGED <<events, service, retain, lane, backoff, readyGen, calls, obs, watch, producer,
                   faults>>

Timer ==
    /\ run = "timer" /\ backoff.due
    /\ run' = "next"
    /\ UNCHANGED <<events, service, retain, lane, backoff, readyGen, wake, calls, obs, watch,
                   producer, faults>>

RunStops ==
    /\ run \in {"idle", "timer"} /\ stopped
    /\ run' = "done"
    /\ UNCHANGED <<events, service, retain, lane, backoff, readyGen, wake, calls, obs, watch,
                   producer, faults>>

\* The backoff's until passes.
BackoffElapses ==
    /\ backoff.active /\ ~backoff.due
    /\ backoff' = [backoff EXCEPT !.due = TRUE]
    /\ UNCHANGED <<events, service, retain, lane, readyGen, disp, calls, obs, watch, producer, faults>>
----------------------------------------------------------------------------
Ends(s, outcome) == [calls EXCEPT ![s] = [@ EXCEPT !.pc = "settle", !.out = outcome]]

\* send: an expired batch is not sent; the call fails at once without a
\* connection; else it goes out on the current one.
Send(s) ==
    /\ calls[s].pc = "picked"
    /\ calls' = IF calls[s].seq \in expired THEN Ends(s, "expired")
                ELSE IF stopped THEN Ends(s, "abandoned")
                ELSE IF conn = 0 THEN Ends(s, "retry")
                ELSE [calls EXCEPT ![s] = [@ EXCEPT !.pc = "sent", !.gen = gen, !.conn = conn]]
    /\ lost' = IF calls[s].seq \in expired THEN lost \cup {calls[s].seq} ELSE lost
    /\ UNCHANGED <<events, service, retain, cursor, retries, redo, gen, boot, confirmed, backoff,
                   readyGen, disp, obs, watch, producer, faults>>

\* The producer stores the batch.
Accept(s) ==
    /\ calls[s].pc = "sent" /\ calls[s].conn = conn /\ calls[s].seq \notin expired
    /\ store' = store \cup {calls[s].seq}
    /\ calls' = [calls EXCEPT ![s] = [@ EXCEPT !.pc = "stored", !.boot = process]]
    /\ UNCHANGED <<events, service, retain, lane, backoff, readyGen, disp, obs, watch, conn, conns,
                   process, restarts, blind, faults>>

\* The producer refuses for good, as it does an expired batch: the lane drops it.
RefuseForGood(s) ==
    /\ calls[s].pc = "sent" /\ calls[s].conn = conn
    /\ calls[s].seq \in expired \/ Faulty
    /\ faults' = IF calls[s].seq \in expired THEN faults ELSE faults + 1
    /\ calls' = Ends(s, "done")
    /\ lost' = lost \cup {calls[s].seq}
    /\ UNCHANGED <<events, service, retain, cursor, retries, redo, gen, boot, confirmed, backoff,
                   readyGen, disp, obs, watch, producer>>

\* The producer refuses for now, or the deadline passes on either side of storing.
CallFails(s) ==
    /\ calls[s].pc \in {"sent", "stored"}
    /\ stopped \/ calls[s].seq \in expired \/ Faulty
    /\ faults' = IF stopped \/ calls[s].seq \in expired THEN faults ELSE faults + 1
    /\ calls' = Ends(s, IF stopped THEN "abandoned" ELSE "retry")
    /\ UNCHANGED <<events, service, retain, lane, backoff, readyGen, disp, obs, watch, producer>>

\* The confirmation arrives; send calls observeBoot before it settles the call.
Answer(s) ==
    /\ calls[s].pc = "stored"
    /\ calls' = Ends(s, "done")
    /\ obs' = [obs EXCEPT ![s] = [NoObs EXCEPT !.pc = "observe", !.gen = calls[s].gen,
                                               !.boot = calls[s].boot]]
    /\ confirmed' = confirmed \cup {calls[s].seq}
    /\ UNCHANGED <<events, service, retain, cursor, retries, redo, gen, boot, lost, backoff, readyGen,
                   disp, watch, producer, faults>>

\* settle: a refusal starts the backoff or, of a probe, extends it; a probe's
\* final answer ends it; calls sent before it began do not change it.
BackoffAfter(s) ==
    LET probing == backoff.probing /\ ~calls[s].probe
    IN  IF calls[s].out = "retry" /\ (calls[s].probe \/ ~backoff.active)
        THEN [active |-> TRUE, probing |-> probing, due |-> FALSE]
        ELSE IF calls[s].out = "done" /\ calls[s].probe THEN NoBackoff
        ELSE [backoff EXCEPT !.probing = probing]

\* settle: the slot is free again and a refused batch waits in retries.
Settle(s) ==
    /\ calls[s].pc = "settle" /\ obs[s].pc = "none"
    /\ calls' = [calls EXCEPT ![s] = NoCall]
    /\ retries' = IF calls[s].out = "retry" THEN Append(retries, calls[s].seq) ELSE retries
    /\ backoff' = BackoffAfter(s)
    /\ Notify
    /\ UNCHANGED <<events, service, retain, cursor, redo, gen, boot, lost, confirmed, readyGen, run,
                   obs, watch, producer, faults>>
----------------------------------------------------------------------------
\* mutant: every answer after the first is taken for an old one
StaleAlways(t) == obs[t].gen # gen \/ boot # 0

\* observeBoot ignores the known process and answers of earlier connections.
Stale(t) == obs[t].gen # gen \/ obs[t].boot = boot

\* observeBoot, under the lane's lock.
ObserveBoot(t) ==
    /\ obs[t].pc = "observe"
    /\ boot' = IF Stale(t) THEN boot ELSE obs[t].boot
    /\ obs' = [obs EXCEPT ![t] =
                  IF Stale(t) \/ boot = 0 THEN NoObs ELSE [@ EXCEPT !.pc = "compute"]]
    /\ UNCHANGED <<events, service, retain, cursor, retries, redo, gen, lost, confirmed, backoff,
                   readyGen, disp, calls, watch, producer, faults>>

\* mutant: the pass leaves the newest batch out
RedeliveryBelow == [next |-> cursor - 1, low |-> PrunedFront]

\* retention.redelivery: everything retained that the lane had taken.
Redelivery ==
    IF PrunedFront \in Batches /\ PrunedFront <= cursor
    THEN [next |-> cursor, low |-> PrunedFront] ELSE NoRedo

\* startRedelivery computes the pass under the retention's lock ...
ComputeRedelivery(t) ==
    /\ obs[t].pc = "compute"
    /\ obs' = [obs EXCEPT ![t] = [@ EXCEPT !.pc = "set", !.redo = Redelivery]]
    /\ front' = PrunedFront
    /\ lost' = lost \cup Dropped(PrunedFront)
    /\ UNCHANGED <<events, service, sizes, expired, cursor, retries, redo, gen, boot, confirmed,
                   backoff, readyGen, disp, calls, watch, producer, faults>>

\* ... and hands it to the lane under the lane's.
SetRedelivery(t) ==
    /\ obs[t].pc = "set"
    /\ redo' = obs[t].redo
    /\ obs' = [obs EXCEPT ![t] = NoObs]
    /\ Notify
    /\ UNCHANGED <<events, service, retain, cursor, retries, gen, boot, lost, confirmed, backoff,
                   readyGen, run, calls, watch, producer, faults>>
----------------------------------------------------------------------------
\* watch finds the channel READY: becameReady.
BecameReady ==
    /\ watch.pc = "look" /\ conn # 0 /\ ~stopped
    /\ gen' = gen + 1
    /\ backoff' = IF backoff.active /\ ~backoff.probing THEN [backoff EXCEPT !.due = TRUE]
                  ELSE backoff
    /\ watch' = [watch EXCEPT !.pc = "ask"]
    /\ Notify
    /\ UNCHANGED <<events, service, retain, cursor, retries, redo, boot, lost, confirmed, readyGen,
                   run, calls, obs, producer, faults>>

\* watch finds it in any other state, or ends: notReady.
NotReady ==
    /\ watch.pc = "look" \/ stopped
    /\ conn = 0 \/ stopped
    /\ readyGen # 0
    /\ readyGen' = 0
    /\ UNCHANGED <<events, service, retain, lane, backoff, disp, calls, obs, watch, producer, faults>>

\* status: the call goes out on the current connection.
AskStatus ==
    /\ watch.pc = "ask" /\ ~stopped
    /\ watch' = IF conn = 0 THEN [NoWatch EXCEPT !.pc = "enter"]
                ELSE [watch EXCEPT !.pc = "asked", !.conn = conn]
    /\ UNCHANGED <<events, service, retain, lane, backoff, readyGen, disp, calls, obs, producer, faults>>

\* The producer answers; the answer may name no trusted key, another chain or
\* too short a lifetime.
ServeStatus ==
    /\ watch.pc = "asked" /\ watch.conn = conn
    /\ \E usable \in BOOLEAN :
          /\ usable \/ Faulty
          /\ faults' = IF usable THEN faults ELSE faults + 1
          /\ watch' = [watch EXCEPT !.pc = "answered", !.boot = process, !.usable = usable]
    /\ UNCHANGED <<events, service, retain, lane, backoff, readyGen, disp, calls, obs, producer>>

\* Status fails: the connection is gone, or the call timed out.
StatusFails ==
    /\ watch.pc = "asked" /\ (watch.conn # conn \/ Faulty)
    /\ faults' = IF watch.conn # conn THEN faults ELSE faults + 1
    /\ watch' = [NoWatch EXCEPT !.pc = "enter"]
    /\ UNCHANGED <<events, service, retain, lane, backoff, readyGen, disp, calls, obs, producer>>

\* status: the answer sets readiness and goes to observeBoot.
ApplyStatus ==
    /\ watch.pc = "answered"
    /\ readyGen' = IF watch.usable THEN gen ELSE 0
    /\ obs' = [obs EXCEPT !["watch"] = [NoObs EXCEPT !.pc = "observe", !.gen = gen,
                                                     !.boot = watch.boot]]
    /\ watch' = [NoWatch EXCEPT !.pc = "enter"]
    /\ UNCHANGED <<events, service, retain, lane, backoff, disp, calls, producer, faults>>

\* pollStatus enters WaitForStateChange, which sees changes from here on.
EnterWait ==
    /\ watch.pc = "enter" /\ obs["watch"].pc = "none"
    /\ watch' = IF conn = 0 THEN [watch EXCEPT !.pc = "look"]
                ELSE [watch EXCEPT !.pc = "wait", !.conn = conn]
    /\ UNCHANGED <<events, service, retain, lane, backoff, readyGen, disp, calls, obs, producer, faults>>

\* The wait ends: the state changed, or statusEvery passed.
WaitEnds ==
    /\ watch.pc = "wait" /\ ~stopped
    /\ watch' = [NoWatch EXCEPT !.pc = IF conn = watch.conn THEN "ask" ELSE "look"]
    /\ UNCHANGED <<events, service, retain, lane, backoff, readyGen, disp, calls, obs, producer, faults>>
----------------------------------------------------------------------------
\* A call or the watcher brings the channel to READY.
Connect ==
    /\ conn = 0 /\ conns < MaxConns /\ ~stopped
    /\ conn' = conns + 1 /\ conns' = conns + 1
    /\ UNCHANGED <<events, service, retain, lane, backoff, readyGen, disp, calls, obs, watch, process,
                   store, restarts, blind, faults>>

\* Calls on a lost connection fail with Unavailable, or as stop's victims.
CutCalls ==
    [s \in Slots |-> IF calls[s].pc \in {"sent", "stored"}
                     THEN [calls[s] EXCEPT !.pc = "settle",
                                           !.out = IF stopped THEN "abandoned" ELSE "retry"]
                     ELSE calls[s]]

Disconnect ==
    /\ "flap" \in events /\ conn # 0 /\ conns < MaxConns
    /\ conn' = 0
    /\ calls' = CutCalls
    /\ UNCHANGED <<events, service, retain, lane, backoff, readyGen, disp, obs, watch, conns, process,
                   store, restarts, blind, faults>>

\* The producer restarts: its store is in memory only.  blind records that the
\* lane had not learned which process had stored its batches.
ProducerRestart ==
    /\ "restart" \in events
    /\ restarts < MaxRestarts /\ conns < MaxConns
    /\ restarts' = restarts + 1 /\ process' = process + 1
    /\ store' = {}
    /\ conn' = 0
    /\ calls' = CutCalls
    /\ blind' = (blind \/ (boot = 0 /\ store # {}))
    /\ UNCHANGED <<events, service, retain, lane, backoff, readyGen, disp, obs, watch, conns, faults>>
----------------------------------------------------------------------------
ServiceStep == SignOne \/ PruneTick \/ CancelSigner \/ Finish
DispatcherStep ==
    \/ \E s \in Slots : TakeFresh(s) \/ TakeRetry(s) \/ TakeRedo(s)
    \/ TakeNothing \/ Hold \/ Wake \/ Timer \/ RunStops
CallStep(s) ==
    Send(s) \/ Accept(s) \/ RefuseForGood(s) \/ CallFails(s) \/ Answer(s) \/ Settle(s)
ObserveStep(t) == ObserveBoot(t) \/ ComputeRedelivery(t) \/ SetRedelivery(t)
WatchStep ==
    \/ BecameReady \/ NotReady \/ AskStatus \/ ServeStatus \/ StatusFails
    \/ ApplyStatus \/ EnterWait \/ WaitEnds

Next ==
    \/ Enqueue \/ Close \/ Stop
    \/ \E b \in Batches : Expire(b)
    \/ ServiceStep
    \/ DispatcherStep
    \/ BackoffElapses
    \/ \E s \in Slots : CallStep(s)
    \/ \E t \in Threads : ObserveStep(t)
    \/ WatchStep
    \/ Connect \/ Disconnect \/ ProducerRestart

Spec == Init /\ [][Next]_vars

\* Every goroutine keeps running, time passes, gRPC reconnects, and every call
\* ends, at its deadline at the latest.
FairSpec ==
    /\ Spec
    /\ WF_vars(ServiceStep) /\ WF_vars(DispatcherStep) /\ WF_vars(BackoffElapses)
    /\ \A s \in Slots : WF_vars(CallStep(s))
    /\ \A t \in Threads : WF_vars(ObserveStep(t))
    /\ WF_vars(WatchStep) /\ WF_vars(Connect)
----------------------------------------------------------------------------
TypeOK ==
    /\ events \subseteq EventNames
    /\ queue \in 0..QueueCap /\ left \in 0..MaxApprovals
    /\ {closing, cancelled, finished, stopped, wake, blind} \subseteq BOOLEAN
    /\ sizes \in Seq(1..MaxBatch) /\ front \in 1..(Len(sizes) + 1)
    /\ expired \subseteq Batches /\ lost \subseteq Batches /\ confirmed \subseteq Batches
    /\ cursor \in 0..Len(sizes) /\ retries \in Seq(Batches)
    /\ redo \in [next : 0..Len(sizes), low : Nat]
    /\ backoff \in [active : BOOLEAN, probing : BOOLEAN, due : BOOLEAN]
    /\ gen \in Nat /\ boot \in 0..process /\ readyGen \in 0..gen
    /\ run \in {"next", "idle", "timer", "done"}
    /\ store \subseteq Batches
    /\ faults \in 0..MaxFaults

\* A lane that backs off has exactly the one probe in flight that its flag says,
\* whatever calls from before the backoff are still unanswered (next, settle).
OneProbe ==
    /\ \A s, t \in Slots : calls[s].probe /\ calls[t].probe => s = t
    /\ backoff.probing <=> \E s \in Slots : calls[s].probe

\* The dispatcher never sleeps, without a wake-up pending, over a batch it could
\* send or a drain it could end (next, idle, notify).
NoLostWakeup ==
    (run = "idle" /\ ~wake /\ ~stopped) =>
        \/ Blocked
        \/ ~LiveWork /\ ~(finished /\ Busy = {})

\* Once the signer has finished, everything Enqueue accepted has been signed
\* (Close, Enqueue, signLoop).
AcceptedIsSigned == finished => queue = 0

\* A dispatcher that ends its drain by itself leaves no batch unaccounted: each
\* was confirmed by the producer or counted as lost (run, lane.lost).
DrainAccounted ==
    (run = "done" /\ ~stopped) => Batches \subseteq confirmed \cup lost

\* The lane is at rest: nothing to send, no call, no answer being processed, and
\* it knows the process it talks to.
AtRest ==
    /\ run = "idle" /\ ~wake /\ Busy = {} /\ ~LiveWork
    /\ \A t \in Threads : obs[t].pc = "none"
    /\ watch.pc # "answered" /\ boot = process

\* A lane at rest has given its producer every retained batch that is still
\* valid, also after the producer restarted once and lost its store, provided
\* the lane had met the process that restarted (observeBoot, startRedelivery).
Redelivered ==
    (AtRest /\ restarts <= 1 /\ ~blind) =>
        \A b \in Batches : b >= front => b \in store \cup expired \cup lost

\* Every signed batch ends up, for good, in the store of the producer, unless
\* it expires, is refused or evicted, or OPS stops (lane.run, lane.watch).
EventuallyHeld ==
    <>[](\/ stopped \/ blind \/ restarts > 1
         \/ \A b \in Batches : b >= front => b \in store \cup expired \cup lost)

\* No approval is lost inside OPS: the lane keeps its one probe, never sleeps over work,
\* and what Enqueue accepted is signed and, once drained, confirmed or counted as lost.
LaneSound == TypeOK /\ OneProbe /\ NoLostWakeup /\ AcceptedIsSigned /\ DrainAccounted
=============================================================================
