---------------------------- MODULE Transactions ----------------------------
(***************************************************************************)
(* The life of a submission, eth_sendTransaction ("send") or               *)
(* eth_sendRawTransaction ("raw"), in internal/server/                     *)
(* jsonrpc_processor.go: access, concurrency limit, trace and compliance,  *)
(* circuit breaker, pre-registration of what it creates, approval, the     *)
(* node, the finalizers of Deployments, the outbox of VisibilityOutbox and *)
(* the row of the access log.  The verdicts of access, traces and          *)
(* compliance are those of other modules; here they are a choice, except   *)
(* that a trace which creates at an address of another organization is     *)
(* refused.  Each statement or message is a step, and the server may stop  *)
(* between two of them.                                                    *)
(***************************************************************************)
EXTENDS VisibilityOutbox

CONSTANTS
    Keys,            \* upstream API keys
    MaxConcurrent    \* requests of one user in flight

\* plain: the address the sender and nonce give, for a creation.  traced: what its trace
\* created.  made: what it creates when it is mined and succeeds.  surviving: what the
\* signed preflight says it creates.  prepared: approvals are on.  shares: it names
\* recipients.
RequestType ==
    [kind : {"send", "raw"}, user : Users, org : Orgs, key : Keys, tx : Txs,
     plain : Addrs \cup {None}, traced : SUBSET Addrs, made : SUBSET Addrs,
     surviving : SUBSET Addrs, prepared : BOOLEAN, shares : BOOLEAN]

NodeAnswers == {"accepted", "rejected", "limited", "failed", "lost"}

\* node: what the node does with submissions.  refusals: access, trace or compliance may
\* say no.  dbFails: writes may fail.  deaf: receipt calls may fail.  untraced: the trace
\* of a mined transaction may fail.  deployer: the sender keeps a group that may deploy.
\* troubles, stops: how many promotions fail and how often the server stops.
ASSUME TransactionsAssumption ==
    /\ None \notin Orgs \cup Addrs \cup Txs \cup Requests
    /\ MaxConcurrent \in Nat \ {0} /\ MaxPolls \in Nat /\ MaxAttempts \in Nat /\ BatchSize \in Nat \ {0}
    /\ \A l \in Loads :
          /\ l.reqs \in [Requests -> RequestType] /\ l.node \subseteq NodeAnswers
          /\ l.used \subseteq Requests
          /\ {l.refusals, l.dbFails, l.deaf, l.untraced, l.deployer} \subseteq BOOLEAN
          /\ l.troubles \in Nat /\ l.stops \in Nat

VARIABLES
    reqs,       \* progress of each submission
    slots,      \* ConcurrencyLimiter: requests of each user that hold a slot
    tripped,    \* CircuitBreaker: keys that cool down
    approved,   \* transactions handed to the approval queue
    stops       \* how often the server has stopped

vars == <<load, deployVars, outboxVars, reqs, slots, tripped, approved, stops>>

Fresh == [at |-> "start", slot |-> FALSE, plain |-> None, runtime |-> {}, answer |-> "none",
          rows |-> 0, queued |-> FALSE]

Init ==
    /\ load \in Loads /\ InitDeployments /\ InitOutbox
    /\ reqs = [r \in Requests |-> Fresh] /\ slots = [u \in Users |-> 0]
    /\ tripped = {} /\ approved = {} /\ stops = 0

Req(r) == load.reqs[r]
At(r, p) == r \in load.used /\ reqs[r].at = p
Step(r, q) == reqs' = [reqs EXCEPT ![r] = q]
Onto(r, p) == Step(r, [reqs[r] EXCEPT !.at = p])

\* mutant: the slot is not released
AnswerKeepsSlot(r, q, rows) ==
    /\ Step(r, [q EXCEPT !.at = "done", !.slot = FALSE, !.rows = @ + rows])
    /\ UNCHANGED slots

\* Every return: the deferred release, and the access-log row except for malformed input.
Answer(r, q, rows) ==
    /\ Step(r, [q EXCEPT !.at = "done", !.slot = FALSE, !.rows = @ + rows])
    /\ slots' = IF q.slot THEN [slots EXCEPT ![Req(r).user] = @ - 1] ELSE slots

\* Access control, after decoding; a transaction that does not decode leaves no row.
Admit(r) ==
    /\ At(r, "start")
    /\ \/ Onto(r, "limit") /\ UNCHANGED slots
       \/ load.refusals /\ \E rows \in {0, 1} : (rows = 0 => Req(r).kind = "raw")
                                                /\ Answer(r, reqs[r], rows)
    /\ UNCHANGED <<load, deployVars, outboxVars, tripped, approved, stops>>

TryAcquire(r) ==
    /\ At(r, "limit")
    /\ IF slots[Req(r).user] < MaxConcurrent
       THEN /\ slots' = [slots EXCEPT ![Req(r).user] = @ + 1]
            /\ Step(r, [reqs[r] EXCEPT !.slot = TRUE, !.at = "validate"])
       ELSE Answer(r, reqs[r], 1)
    /\ UNCHANGED <<load, deployVars, outboxVars, tripped, approved, stops>>

\* ValidateTrace on the addresses the trace creates; a send without a target is not traced.
ForeignCreation(r) ==
    \E a \in Req(r).traced : \E o \in GetContractOwnerOrgID(a) : o # Req(r).org

\* Approvals accept and the preflight succeeds, the trace is allowed, compliance agrees and
\* the recipients are acceptable: contract calls only, and not too many.
Validate(r) ==
    /\ At(r, "validate")
    /\ \/ ~ForeignCreation(r) /\ ~(Req(r).shares /\ Req(r).plain # None)
          /\ Onto(r, "breaker") /\ UNCHANGED slots
       \/ (load.refusals \/ ForeignCreation(r)) /\ Answer(r, reqs[r], 1)
       \/ Req(r).shares /\ (load.refusals \/ Req(r).plain # None) /\ Answer(r, reqs[r], 0)
    /\ UNCHANGED <<load, deployVars, outboxVars, tripped, approved, stops>>

CheckBreaker(r) ==
    /\ At(r, "breaker")
    /\ IF Req(r).key \in tripped THEN Answer(r, reqs[r], 1)
                                 ELSE Onto(r, "plain") /\ UNCHANGED slots
    /\ UNCHANGED <<load, deployVars, outboxVars, tripped, approved, stops>>

\* A failed insert is only logged: the address is then nobody's to finalize.
PreRegisterPlain(r) ==
    LET q == Req(r)   wants == q.plain # None /\ (q.prepared => q.plain \in q.surviving) IN
    /\ At(r, "plain")
    /\ \E ok \in {wants} \cup (IF load.dbFails THEN {FALSE} ELSE {}) :
          /\ Step(r, [reqs[r] EXCEPT !.at = "runtime", !.plain = IF ok THEN q.plain ELSE None])
          /\ PreRegisterPlainCreate(q.org, IF ok THEN {q.plain} ELSE {})
    /\ UNCHANGED <<load, contracts, tracker, chain, born, fins, outboxVars, slots, tripped,
                   approved, stops>>

PreRegisterRuntime(r) ==
    /\ At(r, "runtime")
    /\ \E as \in {Req(r).traced} \cup (IF load.dbFails THEN SUBSET Req(r).traced ELSE {}) :
          /\ Step(r, [reqs[r] EXCEPT !.at = IF Req(r).prepared THEN "approve" ELSE "forward",
                                     !.runtime = as])
          /\ PreRegisterPlainCreate(Req(r).org, as)
    /\ UNCHANGED <<load, contracts, tracker, chain, born, fins, outboxVars, slots, tripped,
                   approved, stops>>

Claims(r) == ({reqs[r].plain} \cup reqs[r].runtime) \ {None}

\* Enqueue of the prepared approval; a full or closed queue refuses the request.
EnqueueApproval(r) ==
    /\ At(r, "approve")
    /\ \/ /\ approved' = approved \cup {Tx(r)} /\ Onto(r, "forward")
          /\ UNCHANGED <<prereg, slots>>
       \/ /\ load.refusals /\ Answer(r, reqs[r], 1) /\ DeletePreregistered(Claims(r))
          /\ UNCHANGED approved
    /\ UNCHANGED <<load, contracts, tracker, chain, born, fins, outboxVars, tripped, stops>>

\* The node takes a transaction it does not know; its answer may be lost.  A 429 trips the
\* breaker of the key and any 200 resets it.
Forward(r) ==
    /\ At(r, "forward")
    /\ \E n \in load.node :
          /\ n \in {"accepted", "lost"} => chain[Tx(r)] = "unknown"
          /\ chain' = IF n \in {"accepted", "lost"} THEN [chain EXCEPT ![Tx(r)] = "pool"] ELSE chain
          /\ tripped' = CASE n = "limited" -> tripped \cup {Req(r).key}
                          [] n \in {"accepted", "rejected"} -> tripped \ {Req(r).key}
                          [] OTHER -> tripped
          /\ Step(r, [reqs[r] EXCEPT !.at = "settle", !.answer = IF n = "lost" THEN "failed" ELSE n])
    /\ UNCHANGED <<load, prereg, contracts, tracker, born, fins, outboxVars, slots, approved, stops>>

\* Without an answer a raw submission takes its rows back, a send leaves them.
SettleFailed(r) ==
    /\ At(r, "settle") /\ reqs[r].answer = "failed"
    /\ Answer(r, reqs[r], 1)
    /\ DeletePreregistered(IF Req(r).kind = "raw" THEN Claims(r) ELSE {})
    /\ UNCHANGED <<load, contracts, tracker, chain, born, fins, outboxVars, tripped, approved, stops>>

SettleRefused(r) ==
    /\ At(r, "settle") /\ reqs[r].answer \in {"rejected", "limited"}
    /\ Answer(r, reqs[r], 1)
    /\ DeletePreregistered(Claims(r))
    /\ UNCHANGED <<load, contracts, tracker, chain, born, fins, outboxVars, tripped, approved, stops>>

\* TrackPlainCreateDeployment, and the goroutines that poll.
SettleAccepted(r) ==
    LET q == reqs[r] IN
    /\ At(r, "settle") /\ q.answer = "accepted"
    /\ tracker' = IF q.plain = None THEN tracker
                  ELSE [tracker EXCEPT ![Tx(r)] = [addr |-> q.plain, org |-> Req(r).org]]
    /\ fins' = [fins EXCEPT ![r] =
                  [k \in Kinds |-> CASE k = "plain" /\ q.plain # None -> Polling({q.plain})
                                     [] k = "runtime" /\ q.runtime # {} -> Polling(q.runtime)
                                     [] OTHER -> Off]]
    /\ IF Req(r).shares THEN Onto(r, "share") /\ UNCHANGED slots ELSE Answer(r, q, 1)
    /\ UNCHANGED <<load, prereg, contracts, chain, born, outboxVars, tripped, approved, stops>>

\* A failed enqueue is logged; the submission is answered all the same.
Share(r) ==
    /\ At(r, "share")
    /\ \E ok \in {TRUE, ~load.dbFails} :
          /\ IF ok THEN EnqueuePendingTxVisibility(r) ELSE UNCHANGED outbox
          /\ Answer(r, [reqs[r] EXCEPT !.queued = ok], 1)
    /\ UNCHANGED <<load, deployVars, visible, workers, troubles, tripped, approved, stops>>

Cooldown(k) ==
    /\ k \in tripped /\ tripped' = tripped \ {k}
    /\ UNCHANGED <<load, deployVars, outboxVars, reqs, slots, approved, stops>>

Live(r) == reqs[r].at \notin {"done", "dead"}
Stopped == [Off EXCEPT !.at = "stopped"]
Active(f) == f.at \notin {"off", "done", "gaveup", "stopped"}
Held(a) == \E r \in Requests : \/ Live(r) /\ a \in Claims(r)
                               \/ \E k \in Kinds : Active(fins[r][k]) /\ a \in fins[r][k].known

\* The sweep of rows older than an hour that no contract took the place of; a submission
\* and its finalizers, which give up within minutes, are over by then.
SweepOrphanedPreregistrations ==
    LET old == {a \in Addrs : prereg[a] # None /\ contracts[a] = Unregistered /\ ~Held(a)} IN
    /\ old # {} /\ DeletePreregistered(old)
    /\ UNCHANGED <<load, contracts, tracker, chain, born, fins, outboxVars, reqs, slots, tripped,
                   approved, stops>>

\* The server stops and another takes over: goroutines, tracker, slots and breaker are gone.
Stop ==
    /\ stops < load.stops /\ stops' = stops + 1
    /\ reqs' = [r \in Requests |-> IF Live(r) /\ reqs[r].at # "start"
                                   THEN [reqs[r] EXCEPT !.at = "dead", !.slot = FALSE] ELSE reqs[r]]
    /\ fins' = [r \in Requests |-> [k \in Kinds |-> IF Active(fins[r][k]) THEN Stopped ELSE fins[r][k]]]
    /\ tracker' = [t \in Txs |-> Untracked] /\ slots' = [u \in Users |-> 0] /\ tripped' = {}
    /\ workers' = [w \in Workers |-> <<>>]
    /\ UNCHANGED <<load, prereg, contracts, chain, born, outbox, visible, troubles, approved>>

Process(r) ==
    \/ Admit(r) \/ TryAcquire(r) \/ Validate(r) \/ CheckBreaker(r) \/ PreRegisterPlain(r)
    \/ PreRegisterRuntime(r) \/ EnqueueApproval(r) \/ Forward(r) \/ SettleFailed(r)
    \/ SettleRefused(r) \/ SettleAccepted(r) \/ Share(r)

Gateway == <<reqs, slots, tripped, approved, stops>>

Server ==
    \/ \E r \in Requests : Process(r)
    \/ \E r \in Requests : Finalize(r) /\ UNCHANGED <<outboxVars, Gateway>>
    \/ \E w \in Workers : Reconcile(w) /\ UNCHANGED Gateway
    \/ SweepOrphanedPreregistrations

Next ==
    \/ Server
    \/ \E t \in Txs : Mine(t) /\ UNCHANGED <<outboxVars, Gateway>>
    \/ \E k \in Keys : Cooldown(k)
    \/ Stop

\* Some handler, goroutine, reconciler or sweeper with work left takes its next step; since
\* each has a bounded number of them, all of them finish.  Nothing is asked of the node, of
\* the chain or of the breaker's clock.
Fairness == WF_vars(Server)

Spec == Init /\ [][Next]_vars /\ Fairness
-----------------------------------------------------------------------------
(* Properties *)

FinalizerType ==
    [at : {"off", "poll", "notify", "next", "create", "grant", "clear", "done", "gaveup",
           "stopped"},
     polls : 0..MaxPolls, known : SUBSET Addrs, todo : SUBSET Addrs, made : SUBSET Addrs,
     cur : Addrs \cup {None}, fallback : BOOLEAN,
     entry : [addr : Addrs \cup {None}, org : Orgs \cup {None}]]

\* Type invariant.
TypeOK ==
    /\ prereg \in [Addrs -> Orgs \cup {None}]
    /\ contracts \in [Addrs -> [org : Orgs \cup {None}, granted : BOOLEAN]]
    /\ tracker \in [Txs -> [addr : Addrs \cup {None}, org : Orgs \cup {None}]]
    /\ chain \in [Txs -> {"unknown", "pool", "ok", "reverted"}]
    /\ born \in [Addrs -> Txs \cup {None}]
    /\ \A r \in Requests, k \in Kinds : fins[r][k] \in FinalizerType
    /\ outbox \in Seq([req : Requests, attempts : 0..(MaxAttempts + Cardinality(Workers) - 1)])
    /\ visible \in [Txs -> Requests \cup {None}]
    /\ workers \in [Workers -> Seq(Requests)]
    /\ slots \in [Users -> 0..MaxConcurrent] /\ tripped \subseteq Keys /\ approved \subseteq Txs

\* The limiter's counters are the requests in flight, on every path out of the handler:
\* no slot leaks and none is given back twice.
SlotsMatchRequests ==
    \A u \in Users : slots[u] = Cardinality({r \in Requests : reqs[r].slot /\ Req(r).user = u})

\* With approvals on, the approval of a transaction is queued before the node can know it.
ApprovedBeforeNode ==
    \A r \in Requests : Req(r).prepared /\ chain[Tx(r)] # "unknown" => Tx(r) \in approved

\* Every submission that reached the node is in the access log, once, when it is answered;
\* a request that is refused earlier is there at most once.
ForwardedOnRecord ==
    \A r \in Requests : /\ reqs[r].rows <= 1
                        /\ reqs[r].at = "done" /\ reqs[r].answer # "none" => reqs[r].rows = 1

\* Another submission claims the address as well.
Contested(r, a) == \E q \in load.used \ {r} : a \in Req(q).traced \cup {Req(q).plain}

\* One creation only, or one finalizer only: the tracker entry is not shared.
Simple(r) == Cardinality(Req(r).made \cup Claims(r)) <= 1 \/ \E k \in Kinds : fins[r][k].at = "off"

\* From the moment the node has the transaction until its finalizers are done, an address
\* it creates has an owner: there is no window in which a mined contract belongs to nobody.
\* It holds when no other submission claims the address, while no finalizer has given up
\* and unless two finalizers of the transaction share the tracker's only entry.
WindowClosed ==
    \A r \in Requests, k \in Kinds : \A a \in fins[r][k].known \cap Req(r).made :
        /\ Active(fins[r][k]) /\ chain[Tx(r)] \in {"pool", "ok"} /\ Simple(r) /\ ~Contested(r, a)
        /\ \A j \in Kinds : fins[r][j].at # "gaveup"
        => GetContractOwnerOrgID(a) # {}

\* Once the finalizers of a mined creation are done its contract is registered, under the
\* conditions of WindowClosed except that other submissions may claim the address.
MinedCreationsRegistered ==
    \A r \in Requests, k \in Kinds : \A a \in fins[r][k].known \cap Req(r).made :
        /\ fins[r][k].at = "done" /\ \A j \in Kinds : fins[r][j].at \in {"done", "off"}
        /\ chain[Tx(r)] = "ok" /\ Simple(r)
        => contracts[a].org = Req(r).org

\* A contract row belongs to the organization of the transaction that created the code,
\* whoever claimed the address, unless the mined transaction could not be traced.
RegisteredToCreator ==
    \A a \in Addrs : contracts[a].org # None =>
        \E r \in Requests : /\ contracts[a].org = Req(r).org
                            /\ born[a] = Tx(r) \/ fins[r]["runtime"].fallback

\* The owner lookup takes either table's row: once nobody holds an address its two rows do
\* not name different organizations.
OneOwnerAtRest ==
    \A a \in Addrs : ~Held(a) => Cardinality(GetContractOwnerOrgID(a)) <= 1

\* A transaction shows its recipients the list of an accepted submission of it, and a
\* transaction whose list is neither queued nor visible had none queued: a row leaves the
\* outbox only when its list, or an earlier one of the transaction, is in force.
OutboxKept ==
    /\ \A t \in Txs : visible[t] # None =>
          Tx(visible[t]) = t /\ Req(visible[t]).shares /\ reqs[visible[t]].answer = "accepted"
    /\ \A r \in Requests : reqs[r].queued =>
          visible[Tx(r)] # None \/ \E i \in DOMAIN outbox : outbox[i].req = r

\* A pre-registration ends: its row goes, or a contract takes its place.
PreregistrationsEnd ==
    \A a \in Addrs : prereg[a] # None ~> (prereg[a] = None \/ contracts[a] # Unregistered)

\* Recipients that were queued come into force unless the row is parked after MaxAttempts,
\* whatever rows are ahead of it and however often the server stops.
RecipientsServed ==
    \A r \in Requests : reqs[r].queued ~>
        \/ visible[Tx(r)] # None
        \/ \E i \in DOMAIN outbox : outbox[i].req = r /\ outbox[i].attempts >= MaxAttempts

\* Every path of a submission leaves its books right: the limiter's slots, the approval
\* queued before the node knows the transaction, the access log row, the recipients.
SubmissionsAccounted ==
    TypeOK /\ SlotsMatchRequests /\ ApprovedBeforeNode /\ ForwardedOnRecord /\ OutboxKept

\* A created contract belongs to its creator's organization, from the node's acceptance
\* on and for good, whoever else claims the address.
CreationsOwned ==
    WindowClosed /\ MinedCreationsRegistered /\ RegisteredToCreator /\ OneOwnerAtRest

\* What a submission leaves behind is settled in the end: pre-registrations and recipients.
EventuallySettled == PreregistrationsEnd /\ RecipientsServed
=============================================================================
