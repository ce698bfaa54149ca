---------------------------- MODULE Deployments ----------------------------
(***************************************************************************)
(* Contracts created by transactions.  Before a creation is forwarded its  *)
(* address is pre-registered to the sender's organization; once the node   *)
(* has accepted the transaction, goroutines poll for the receipt and turn  *)
(* the row into a contract or delete it (internal/server/                  *)
(* jsonrpc_processor.go, internal/rbac/access.go, pending_deployments.go,  *)
(* internal/db/rbac_store_preregistered.go).  A request may have two such  *)
(* finalizers, which share one tracker entry: "plain" for the address the  *)
(* sender and nonce give, "runtime" for the addresses its trace created.   *)
(***************************************************************************)
EXTENDS Integers, FiniteSets

CONSTANTS
    Requests,   \* submissions
    Users, Orgs, Addrs, Txs,
    MaxPolls,   \* attempts of a finalizer to get a receipt: 12 in the code
    Loads       \* what a behaviour is open to; see Transactions

None == "none"
Kinds == {"plain", "runtime"}

VARIABLES
    load,
    prereg,     \* preregistered_addresses: the organization of each address, or None
    contracts,  \* contracts: [org, granted] of each address; org is None without a row
    tracker,    \* PendingDeploymentTracker: [addr, org] of each transaction
    chain,      \* what the node did with each transaction
    born,       \* transaction that created the code at each address
    fins        \* finalizers of each request

deployVars == <<prereg, contracts, tracker, chain, born, fins>>

Untracked == [addr |-> None, org |-> None]
Unregistered == [org |-> None, granted |-> FALSE]
Off == [at |-> "off", polls |-> 0, known |-> {}, todo |-> {}, made |-> {}, cur |-> None,
        entry |-> Untracked, fallback |-> FALSE]

InitDeployments ==
    /\ prereg = [a \in Addrs |-> None] /\ contracts = [a \in Addrs |-> Unregistered]
    /\ tracker = [t \in Txs |-> Untracked] /\ chain = [t \in Txs |-> "unknown"]
    /\ born = [a \in Addrs |-> None]
    /\ fins = [r \in Requests |-> [k \in Kinds |-> Off]]

Tx(r) == load.reqs[r].tx
Fin(r, k, f) == fins' = [fins EXCEPT ![r][k] = f]

\* ON CONFLICT (address) DO NOTHING: a row of another organization stays, without an error.
PreRegisterPlainCreate(org, as) ==
    prereg' = [a \in Addrs |-> IF a \in as /\ prereg[a] = None THEN org ELSE prereg[a]]

DeletePreregistered(as) ==
    prereg' = [a \in Addrs |-> IF a \in as THEN None ELSE prereg[a]]

\* contracts UNION preregistered_addresses, LIMIT 1 without an order.
GetContractOwnerOrgID(a) == {contracts[a].org, prereg[a]} \ {None}

Polling(known) == [Off EXCEPT !.at = "poll", !.known = known]

\* No receipt yet, or an error from the node: the next attempt waits.
PollAgain(r, k) ==
    /\ fins[r][k].at = "poll" /\ fins[r][k].polls < MaxPolls
    /\ chain[Tx(r)] \in {"unknown", "pool"} \/ load.deaf
    /\ Fin(r, k, [fins[r][k] EXCEPT !.polls = @ + 1])
    /\ UNCHANGED <<load, prereg, contracts, tracker, chain, born>>

\* The tracker entry stays behind.
GiveUp(r, k) ==
    /\ fins[r][k].at = "poll" /\ fins[r][k].polls = MaxPolls
    /\ Fin(r, k, [fins[r][k] EXCEPT !.at = "gaveup"])
    /\ DeletePreregistered(fins[r][k].known)
    /\ UNCHANGED <<load, contracts, tracker, chain, born>>

\* The receipt names the created address, or none when the transaction reverted.
PlainReceipt(r) ==
    LET f == fins[r]["plain"] IN
    /\ f.at = "poll" /\ f.polls < MaxPolls /\ chain[Tx(r)] \in {"ok", "reverted"}
    /\ Fin(r, "plain", [f EXCEPT !.at = "notify",
                                 !.cur = IF chain[Tx(r)] = "ok" THEN load.reqs[r].plain ELSE None])
    /\ UNCHANGED <<load, prereg, contracts, tracker, chain, born>>

RuntimeReverted(r) ==
    LET f == fins[r]["runtime"] IN
    /\ f.at = "poll" /\ f.polls < MaxPolls /\ chain[Tx(r)] = "reverted"
    /\ Fin(r, "runtime", [f EXCEPT !.at = "done"])
    /\ DeletePreregistered(f.known)
    /\ UNCHANGED <<load, contracts, tracker, chain, born>>

\* What the transaction created: the approved preflight says so, or the trace of the mined
\* transaction does, or, when that fails, what was predicted is believed.
Actual(r, traced) ==
    LET q == load.reqs[r] IN
    IF q.prepared THEN q.surviving ELSE IF traced THEN q.made ELSE fins[r]["runtime"].known

RuntimeReceipt(r) ==
    LET f == fins[r]["runtime"] IN
    /\ f.at = "poll" /\ f.polls < MaxPolls /\ chain[Tx(r)] = "ok"
    /\ \E traced \in BOOLEAN :
          /\ traced \/ (load.untraced /\ ~load.reqs[r].prepared)
          /\ Fin(r, "runtime", [f EXCEPT !.at = "next", !.todo = Actual(r, traced),
                                         !.made = Actual(r, traced), !.fallback = ~traced])
    /\ UNCHANGED <<load, prereg, contracts, tracker, chain, born>>

\* TrackPlainCreateDeployment for a pre-registered address, a row at once for one that was
\* not predicted.
TrackNext(r) ==
    LET f == fins[r]["runtime"] IN
    /\ f.at = "next"
    /\ \E a \in f.todo \cap f.known :
          /\ tracker' = [tracker EXCEPT ![Tx(r)] = [addr |-> a, org |-> load.reqs[r].org]]
          /\ Fin(r, "runtime", [f EXCEPT !.at = "notify", !.cur = a, !.todo = @ \ {a}])
    /\ UNCHANGED <<load, prereg, contracts, chain, born>>

RegisterDiverged(r) ==
    LET f == fins[r]["runtime"] IN
    /\ f.at = "next"
    /\ \E a \in f.todo \ f.known :
          /\ contracts' = IF contracts[a] = Unregistered
                          THEN [contracts EXCEPT ![a] = [org |-> load.reqs[r].org,
                                                         granted |-> load.deployer]]
                          ELSE contracts
          /\ Fin(r, "runtime", [f EXCEPT !.todo = @ \ {a}])
    /\ UNCHANGED <<load, prereg, tracker, chain, born>>

CleanDiverged(r) ==
    LET f == fins[r]["runtime"] IN
    /\ f.at = "next" /\ f.todo = {}
    /\ Fin(r, "runtime", [f EXCEPT !.at = "done"])
    /\ DeletePreregistered(f.known \ f.made)
    /\ UNCHANGED <<load, contracts, tracker, chain, born>>

Back(k) == IF k = "plain" THEN "done" ELSE "next"

\* mutant: the row is cleared before the contract is there
NotifyClearsFirst(r, k) ==
    LET f == fins[r][k]   e == tracker[Tx(r)] IN
    /\ f.at = "notify"
    /\ tracker' = [tracker EXCEPT ![Tx(r)] = Untracked]
    /\ Fin(r, k, [f EXCEPT !.at = IF e = Untracked \/ f.cur = None THEN Back(k) ELSE "create",
                           !.entry = e])
    /\ DeletePreregistered({e.addr})
    /\ UNCHANGED <<load, contracts, chain, born>>

\* NotifyDeploymentMined takes the entry of the transaction, whoever put it there.
NotifyDeploymentMined(r, k) ==
    LET f == fins[r][k]   e == tracker[Tx(r)] IN
    /\ f.at = "notify"
    /\ tracker' = [tracker EXCEPT ![Tx(r)] = Untracked]
    /\ Fin(r, k, [f EXCEPT !.at = IF e = Untracked \/ f.cur = None THEN Back(k) ELSE "create",
                           !.entry = e])
    /\ DeletePreregistered(IF f.cur = None THEN {e.addr} ELSE {})
    /\ UNCHANGED <<load, contracts, chain, born>>

\* The address is unique in the table; an error is logged and the row still cleared.
CreateContract(r, k) ==
    LET f == fins[r][k]   free == contracts[f.cur] = Unregistered IN
    /\ f.at = "create"
    /\ contracts' = IF free THEN [contracts EXCEPT ![f.cur].org = f.entry.org] ELSE contracts
    /\ Fin(r, k, [f EXCEPT !.at = IF free THEN "grant" ELSE "clear"])
    /\ UNCHANGED <<load, prereg, tracker, chain, born>>

GrantContractToDeployerGroup(r, k) ==
    /\ fins[r][k].at = "grant"
    /\ contracts' = [contracts EXCEPT ![fins[r][k].cur].granted = load.deployer]
    /\ Fin(r, k, [fins[r][k] EXCEPT !.at = "clear"])
    /\ UNCHANGED <<load, prereg, tracker, chain, born>>

ClearPreregistered(r, k) ==
    LET f == fins[r][k] IN
    /\ f.at = "clear"
    /\ DeletePreregistered({f.entry.addr})
    /\ Fin(r, k, [f EXCEPT !.at = Back(k)])
    /\ UNCHANGED <<load, contracts, tracker, chain, born>>

\* The chain: a transaction of the pool is mined, and reverts when an address it creates
\* is taken.  Every request for a transaction describes the same effect.
Mine(t) ==
    LET made == UNION {load.reqs[r].made : r \in {q \in Requests : Tx(q) = t}}
        free == \A a \in made : born[a] = None IN
    /\ chain[t] = "pool"
    /\ \E ok \in {free, FALSE} :
          /\ chain' = [chain EXCEPT ![t] = IF ok THEN "ok" ELSE "reverted"]
          /\ born' = [a \in Addrs |-> IF ok /\ a \in made THEN t ELSE born[a]]
    /\ UNCHANGED <<load, prereg, contracts, tracker, fins>>

Finalize(r) ==
    \/ \E k \in Kinds : \/ PollAgain(r, k) \/ GiveUp(r, k) \/ NotifyDeploymentMined(r, k)
                        \/ CreateContract(r, k) \/ GrantContractToDeployerGroup(r, k)
                        \/ ClearPreregistered(r, k)
    \/ PlainReceipt(r) \/ RuntimeReverted(r) \/ RuntimeReceipt(r)
    \/ TrackNext(r) \/ RegisterDiverged(r) \/ CleanDiverged(r)
=============================================================================
