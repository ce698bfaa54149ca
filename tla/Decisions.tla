------------------------------ MODULE Decisions ------------------------------
(***************************************************************************)
(* The decisions that keep no state between requests, each as one step: a  *)
(* question is chosen once and for all, the answer is computed as the code *)
(* computes it, and the properties relate the answer to the question or to *)
(* what another part of the code answers to the same question.             *)
(***************************************************************************)
EXTENDS SimulationDecision, ExplorerRedaction, DisclosureScope

CONSTANTS
    Calls, Callers, RpcWorlds,       \* JSON-RPC calls, users and worlds
    Traces, Tracers, TraceWorlds,    \* [kind, q, from, tx, trace], users and worlds
    Submissions, Senders, Settings,  \* [via, q, from, trace, prepared], users and worlds
    Policies,                        \* [allow, requested]: what a policy check is asked
    Transactions, Viewers, Views,    \* transactions, viewers and worlds of the JSON-RPC filters
    Chains, Watchers,                \* sets of transactions and viewers of the explorer
    Requests, Overrides,             \* disclosure scopes asked for and narrowed to
    Bounds                           \* [start, end, row]

VARIABLES input, verdict

vars == <<input, verdict>>

NoVerdict == [kind |-> "none"]

Init ==
    /\ verdict = NoVerdict
    /\ \/ \E q \in Calls, u \in Callers, w \in RpcWorlds :
             input = [kind |-> "access", q |-> q, u |-> u, w |-> w]
       \/ \E c \in Traces, u \in Tracers, w \in TraceWorlds :
             input = [kind |-> c.kind, q |-> c.q, from |-> c.from, tx |-> c.tx, trace |-> c.trace,
                      u |-> u, w |-> w]
       \/ \E c \in Submissions, u \in Senders, w \in Settings, p \in Policies :
             input = [kind |-> "submission", allow |-> p.allow, requested |-> p.requested,
                      s |-> [via |-> c.via, from |-> c.from, trace |-> c.trace, prepared |-> c.prepared,
                             q |-> [c.q EXCEPT !.org = p.requested], u |-> u, w |-> w]]
       \/ \E t \in Transactions, v \in Viewers, w \in Views, r \in BOOLEAN :
             input = [kind |-> "view", t |-> t, v |-> v, w |-> w, resolved |-> r]
       \/ \E c \in Chains, v \in Watchers, w \in Views, audit \in BOOLEAN :
             input = [kind |-> "explorer", chain |-> c, v |-> v, w |-> w, audit |-> audit]
       \/ \E b \in Requests, o \in Overrides :
             input = [kind |-> "narrowing", base |-> b, override |-> o, parties |-> {"you"}, time |-> 2]
       \/ \E b \in Bounds :
             input = [kind |-> "bounds", start |-> b.start, end |-> b.end, row |-> b.row]

Asked(kind) == verdict = NoVerdict /\ input.kind = kind /\ UNCHANGED input

DecideAccess ==
    /\ Asked("access")
    /\ verdict' = CheckAccess(input.q, input.u, input.w)

DecideTraceCall ==
    /\ Asked("traceCall")
    /\ verdict' = DebugTraceCall(input.q, input.from, input.u, input.w, input.trace)

DecideTraceTransaction ==
    /\ Asked("traceTransaction")
    /\ verdict' = DebugTraceTransaction(input.q, input.tx, input.u, input.w, input.trace)

\* The gateway's decision and what the two oracles foretell of it.
DecideSubmission ==
    /\ Asked("submission")
    /\ LET s == input.s
       IN  verdict' = [gateway |-> Gateway(s), dry |-> [o \in DOMAIN s.u.perms |-> DryRun(s, o)],
                       oracle |-> PolicyCheck(s, input.allow, input.requested)]

\* What every JSON-RPC method shows of one transaction.
View(t, v, w, resolved) ==
    [lookup |-> FilterTransactionByHash(t, v, w),
     receipt |-> FilterReceiptLogs(t, v, w),
     logs |-> FilterLogs(t, v, w, resolved),
     block |-> FilterBlockTransactions({t}, v, w),
     receipts |-> FilterBlockReceipts({t}, v, w),
     count |-> FilterBlockTransactionCount({t}, v, w)]

DecideView ==
    /\ Asked("view")
    /\ verdict' = View(input.t, input.v, input.w, input.resolved)

\* What every page of the explorer shows of a chain.
Pages(chain, v, w, audit) ==
    [feed |-> GetExplorerTransactions(v, w, chain, audit),
     block |-> GetExplorerBlockTransactions(chain, v, w, chain, audit),
     transfers |-> GetExplorerAllTransfers(v, w, chain, audit),
     internals |-> UNION {GetExplorerTransactionInternal(t, v, w, chain, audit) : t \in chain},
     unparented |-> GetExplorerBlockInternalTxs(chain, v, w, chain, audit),
     logs |-> [t \in chain |-> GetExplorerTransactionLogs(t, v, w, chain)],
     search |-> [t \in chain |-> GetExplorerLogs(t, v, w)],
     ofAddress |-> UNION {GetExplorerAddressTransactions(a, v, w, chain, audit) : a \in DOMAIN w.links},
     transfersOf |-> UNION {GetExplorerAddressTransfers(a, v, w, chain, audit)
                            \cup GetExplorerTokenTransfers(a, v, w, chain, audit) : a \in DOMAIN w.links},
     internalsOf |-> UNION {GetExplorerAddressInternal(a, v, w, chain, audit) : a \in DOMAIN w.links},
     accounts |-> GetExplorerAccounts(DOMAIN w.links, v, w),
     tokens |-> GetExplorerTokens(DOMAIN w.contracts, v, w),
     count |-> GetBlockTransactionCountFiltered(chain, v, w, chain),
     suggested |-> {t.hash : t \in {s \in chain : SearchSuggestions(s, v, w, chain)}}]

DecidePages ==
    /\ Asked("explorer")
    /\ verdict' = Pages(input.chain, input.v, input.w, input.audit)

\* An approver narrows a request: refused, or the scope of the grant.
DecideNarrowing ==
    /\ Asked("narrowing")
    /\ LET s == Normalize(MergeNarrowed(input.base, input.override))
       IN  verdict' = [granted |-> IsSubsetOf(s, Normalize(input.base)), scope |-> s]

\* The consent bounds of an activity query, in the unit of the column.
DisclosureActivityDateBounds(start, end, unit) ==
    [start |-> IF (start \div unit) * unit < start THEN start \div unit + 1 ELSE start \div unit,
     end |-> end \div unit]

\* A row of the activity log, at a whole number of units.
NanosecondsPerUnit == 3
DecideBounds ==
    /\ Asked("bounds")
    /\ LET b == DisclosureActivityDateBounds(input.start, input.end, NanosecondsPerUnit)
       IN  verdict' = [served |-> b.start <= input.row /\ input.row <= b.end]

Done == verdict # NoVerdict /\ UNCHANGED vars

Next ==
    \/ DecideAccess \/ DecideTraceCall \/ DecideTraceTransaction
    \/ DecideSubmission \/ DecideView \/ DecidePages \/ DecideNarrowing \/ DecideBounds
    \/ Done

Spec == Init /\ [][Next]_vars

Answered(kind) == input.kind = kind /\ verdict # NoVerdict
----------------------------------------------------------------------------
(* -------------------------------- access ----------------------------------- *)

\* Tenants are isolated: a call of a signed-in user is allowed only if every
\* address it names belongs to nobody or to an organization the user acts in
\* (CheckAccess), log filters with several addresses included.
TenantsIsolated ==
    Answered("access") /\ verdict.allowed /\ ~input.u.anonymous =>
        \A a \in {TargetAddress(input.q)} \cup
                 (IF Effective(input.q) = "eth_getLogs" THEN input.q.logs ELSE {}) :
            input.w.owner[a] \in {"none"} \cup UserOrgIDs(input.q, input.u)

\* Private storage is only read with an admin claim on the contract, under
\* whatever name the method is called (validateStorageReadAccess).
PrivateStorageNeedsAdmin ==
    /\ Answered("access") /\ verdict.allowed
    /\ Effective(input.q) \in StorageReads /\ input.q.keys = "private"
    => /\ Registered(input.u.perms[verdict.org], input.q.to)
       /\ "admin" \in input.u.perms[verdict.org].access[input.q.to].claims

\* A grant limited to functions is never stepped over: the call selects a listed
\* function, with an address of the caller where a rule asks for one.
FunctionListHolds ==
    /\ Answered("access") /\ verdict.allowed /\ verdict.org # "none"
    /\ Effective(input.q) \in SelectorMethods /\ input.q.shape = "targeted"
    /\ Registered(input.u.perms[verdict.org], input.q.to)
    => LET acc == input.u.perms[verdict.org].access[input.q.to]
       IN  \/ acc.all
           \/ input.q.data \in acc.functions /\ (input.q.data \in acc.own => input.q.mine)

\* Another name for a method opens nothing: what is allowed under an alias is
\* allowed under the built-in name to a user who may call that
\* (Process sets AccessMethod from the alias).
AliasNoWeaker ==
    Answered("access") /\ verdict.allowed /\ input.q.method \in DOMAIN Aliases =>
        LET target == Aliases[input.q.method]
            u == [input.u EXCEPT !.perms = [o \in DOMAIN @ |->
                    [@[o] EXCEPT !.methods = @ \cup {target}]]]
            w == [input.w EXCEPT !.anonymous = @ \cup {target}]
        IN  CheckAccess([input.q EXCEPT !.method = target, !.access = "none"], u, w).allowed

\* A denial is put down to an organization of the caller or to none, so that it
\* never shows up in another tenant's audit log (callerOrgForDenial).
DenialNamesOwnOrg ==
    Answered("access") /\ ~verdict.allowed => verdict.org \in {"none"} \cup input.u.orgs

\* A pinned view opens nothing: what it allows, it allows for its organization,
\* and the user could do it there without the pin.
PinnedCallNarrows ==
    /\ Answered("access") /\ verdict.allowed /\ ~input.u.anonymous
    /\ input.q.scope # "none" /\ input.q.method \notin OrgFree
    => /\ verdict.org = input.q.scope
       /\ CheckAccess([input.q EXCEPT !.scope = "none", !.org = verdict.org],
                      input.u, input.w).allowed
(* -------------------------------- traces ----------------------------------- *)

TraceShown == input.kind \in {"traceCall", "traceTransaction"} /\ verdict # NoVerdict /\ verdict.allowed

\* A trace that is shown runs through the caller's organization only, apart from
\* shared infrastructure, precompiles and what the transaction itself creates.
NoForeignFrame ==
    TraceShown =>
        \A i \in 1..Len(verdict.shown) :
            LET f == input.trace[i]
            IN  \/ input.w.owner[f.to] = verdict.org
                \/ f.to \in input.w.shared \cup input.w.precompiles \cup {"none", "zero"}
                \/ f.type \in Creates /\ input.w.owner[f.to] = "none"

\* A trace shows no call the caller could not make: every frame into a contract
\* of the organization is an eth_call the caller is allowed, except what a
\* deployer reaches of an address reserved for its own deployment.
TraceNoWiderThanCalls ==
    TraceShown /\ ~input.w.strict =>
        \A i \in 1..Len(input.trace) :
            LET f == input.trace[i]
                a == Storage(input.trace)[i]
            IN  \/ f.type \in Creates \/ input.w.owner[f.to] # verdict.org
                \/ f.to \in input.w.shared \cup input.w.precompiles
                \/ a \in input.w.preregistered /\ UserHasDeploy(input.u, verdict.org)
                \/ CheckAccess(FrameCall(input.q.method, verdict.org, a, f.input, f.mine),
                               input.u, input.w).allowed

\* The values of a nested frame are shown to an administrator of the contract
\* that produced them: its caller for what it was given, itself for the rest.
ValuesAreTheOwners ==
    TraceShown =>
        \A i \in 2..Len(verdict.shown) :
            LET at == Storage(input.trace)
                admin(a) == /\ Registered(input.u.perms[verdict.org], a)
                            /\ "admin" \in input.u.perms[verdict.org].access[a].claims
            IN  /\ verdict.shown[i].given => admin(at[Parent(input.trace, i)])
                /\ verdict.shown[i].back => admin(at[i])
(* ----------------------- submissions and simulations ----------------------- *)

\* An accepted transaction that was traced runs through the sender's own
\* organizations only, apart from attested shared infrastructure called the
\* ordinary way, precompiles, what it creates, and accounts without code
\* (validateWithTracing, validateRawTxWithPreparedTrace).
SubmissionStaysHome ==
    /\ Answered("submission") /\ verdict.gateway.allowed
    /\ input.s.via = "raw" \/ (input.s.via = "send" /\ input.s.q.to # "none")
    => \A i \in 1..Len(input.s.trace) :
          LET f == input.s.trace[i]
              w == input.s.w
          IN  \/ w.owner[f.to] \in input.s.u.orgs
              \/ f.to \in w.shared /\ f.type \notin ContextSharing /\ w.attested[f.to] \in {"none", w.code[f.to]}
              \/ f.to \in w.precompiles \cup input.s.prepared.fresh
              \/ w.owner[f.to] = "none" /\ (f.type \in Creates \/ w.code[f.to] = "empty")

\* The two ways to submit agree: a call from a linked address is accepted as a
\* raw transaction exactly if it is accepted unsigned, and registers the same
\* creations, of which a signed preflight keeps those that survive.
SendAndRawAgree ==
    /\ Answered("submission") /\ input.s.via = "raw" /\ input.s.q.to # "none"
    /\ input.s.from \in input.s.u.linked /\ input.s.prepared.fresh = {} /\ input.s.prepared.noCode = {}
    => \A send \in {Gateway([input.s EXCEPT !.via = "send"])} :
          LET kept == IF input.s.prepared.some THEN input.s.prepared.surviving ELSE send.created
          IN  /\ verdict.gateway.allowed = send.allowed
              /\ send.allowed => verdict.gateway.created = send.created \cap kept

\* The send paths look for the deploy claim in the rows of any group of the
\* user, the simulations in the effective permissions in one organization.
ClaimsAgree(u) == \A o \in u.orgs : UserHasDeploy(u, o) <=> AnyGroupDeploys(u)

\* What a dry run allows, the gateway allows when the user asks it for that
\* organization ("what would this user see if they made this RPC call").
DryRunNeverOverpromises ==
    Answered("submission") /\ ClaimsAgree(input.s.u) =>
        \A o \in DOMAIN verdict.dry :
            verdict.dry[o] = "allow" => Gateway([input.s EXCEPT !.q.org = o]).allowed

Evaluated == ResolveOracleOrg(input.s.u, input.s.w, input.allow, input.requested, TargetAddress(input.s.q)).org

\* The policy oracle and the gateway agree on the organization evaluated: what
\* the one allows the other allows, and what it denies is denied, unless the
\* gateway leaves the call untraced or has a signed preflight of it.
OracleTruthful ==
    Answered("submission") /\ ClaimsAgree(input.s.u) =>
        \A gateway \in {Gateway([input.s EXCEPT !.q.org = Evaluated])} :
            /\ verdict.oracle = "allow" => gateway.allowed
            /\ /\ verdict.oracle = "deny" /\ ~input.s.prepared.some
               /\ input.s.via = "call" => input.s.w.callTracing
               /\ input.s.via = "send" => input.s.q.to # "none"
               => ~gateway.allowed

\* The oracle tells nothing of organizations outside its allowlist: its answer is
\* the same for a user who is a member of allowlisted organizations only.
OracleBlindOutside ==
    Answered("submission") =>
        LET s == [input.s EXCEPT !.u.orgs = @ \cap input.allow]
        IN  verdict.oracle = PolicyCheck(s, input.allow, input.requested)
(* ---------------------------- JSON-RPC answers ----------------------------- *)

LogsOf(logs) == {[emitter |-> logs[i].emitter, event |-> logs[i].event] : i \in DOMAIN logs}

\* The two queries that compute levels, with and without their reasons, agree.
LevelsAgree ==
    Answered("view") =>
        \A a \in DOMAIN input.w.links \cup {"stranger"} :
            GetBatchVisibility(a, input.v, input.w) = Level(a, input.v, input.w)

\* No method shows what a more specific one hides: a transaction listed in its
\* block is found by its hash, what is found has a receipt, and the logs of a
\* search are those of the receipt.
SurfacesNest ==
    Answered("view") /\ input.v.scope = "all" =>
        /\ verdict.block # {} => verdict.lookup
        /\ verdict.lookup => verdict.receipt.shown
        /\ ~input.w.strict /\ input.t.to # "none" =>
              LogsOf(verdict.logs) \subseteq LogsOf(verdict.receipt.logs)

\* The block, its receipts and its transaction count tell the same transactions.
BlockAgrees ==
    Answered("view") =>
        verdict.block = verdict.receipts /\ verdict.count = Cardinality(verdict.block)

\* An address is left readable in a log only if the viewer sees it in full, if
\* the sender shared the transaction and the contract allows that, or if nobody
\* can tell the log's data apart for want of an ABI.
MaskedHidesAddresses ==
    Answered("view") =>
        \A l \in {verdict.receipt.logs[i] : i \in DOMAIN verdict.receipt.logs}
                 \cup {verdict.logs[i] : i \in DOMAIN verdict.logs} :
            \A j \in DOMAIN l.args :
                \/ l.args[j] = "masked" \/ Level(l.args[j], input.v, input.w) = "full"
                \/ /\ ~input.w.strict /\ TxVisibilityForViewer(input.t, input.v)
                   /\ l.emitter \in input.w.unlock
                \/ l.emitter \notin input.w.abi
                \/ l.event = "none"

\* The strict profile only takes away: what it shows, the standard profile shows.
StrictNarrows ==
    Answered("view") /\ input.w.strict =>
        \A std \in {View(input.t, input.v, [input.w EXCEPT !.strict = FALSE], input.resolved)} :
            /\ verdict.lookup => std.lookup
            /\ verdict.receipt.shown => std.receipt.shown
            /\ LogsOf(verdict.receipt.logs) \subseteq LogsOf(std.receipt.logs)
            /\ LogsOf(verdict.logs) \subseteq LogsOf(std.logs)
            /\ verdict.block \subseteq std.block

\* A pinned view only takes away, and its logs come from its organization.
PinnedViewNarrows ==
    Answered("view") /\ input.v.scope # "all" =>
        \A all \in {View(input.t, [input.v EXCEPT !.scope = "all"], input.w, input.resolved)} :
            /\ verdict.lookup => all.lookup
            /\ verdict.receipt.shown => all.receipt.shown
            /\ LogsOf(verdict.logs) \subseteq LogsOf(all.logs)
            /\ \A l \in LogsOf(verdict.logs) \cup LogsOf(verdict.receipt.logs) :
                  input.w.contracts[l.emitter] = input.v.scope
(* -------------------------------- explorer --------------------------------- *)

Tx(h) == CHOOSE t \in input.chain : t.hash = h
Shared(t) == input.v.did \in t.visibleTo
Full(a) == a \in {"none", "private", "zero"} \/ Level(a, input.v, input.w) = "full"
Own(a) == a \in GetLinkedAddresses(input.v, input.w)

\* No page names an address the viewer does not see in full, unless the viewer
\* took part in the row (or, for an internal call, in the transaction around it)
\* or the sender shared the transaction with the viewer.
NoHiddenNamed ==
    Answered("explorer") =>
        /\ \A r \in verdict.feed \cup verdict.block \cup verdict.ofAddress :
              \/ Full(r.from) /\ Full(r.to) /\ Full(r.created)
              \/ TxParticipant(Tx(r.hash), input.v, input.w)
              \/ ~input.w.strict /\ Shared(Tx(r.hash))
        /\ \A r \in verdict.transfers \cup verdict.transfersOf :
              \/ Full(r.from) /\ Full(r.to)
              \/ Own(r.from) \/ Own(r.to)
              \/ ~input.w.strict /\ Shared(Tx(r.hash))
        /\ \A r \in verdict.internals \cup verdict.unparented \cup verdict.internalsOf :
              \/ Full(r.from) /\ Full(r.to)
              \/ Own(r.from) \/ Own(r.to)
              \/ ~input.w.strict /\ Shared(Tx(r.hash))
              \/ IsTxParticipant(Tx(r.hash), input.v, input.w)
        /\ \A a \in verdict.accounts \cup {x.address : x \in verdict.tokens} : Full(a)

\* "/transactions is a superset of /transfers": the transaction of a transfer on
\* the viewer's page is on the viewer's transaction page (FindTransferParticipantTxs,
\* FindTransferTxsBetween).  Not claimed: past the bound of the union, for pinned
\* views, and for an administrator who sees a transfer only because one side is
\* the zero address or a precompile.
TransferParentShown ==
    /\ Answered("explorer") /\ ~input.w.strict /\ input.v.scope = "all"
    /\ Cardinality(input.chain) <= UnionLimit
    => \A r \in verdict.transfers :
          \/ r.hash \in {s.hash : s \in verdict.feed}
          \/ /\ IsViewerAdmin(input.v)
             /\ \A a \in {r.from, r.to} : a \in {"private", "zero"} \cup input.w.precompiles

\* A transaction kept with a private side is one of which the viewer is shown a
\* transfer: the union reveals no other.  Administrators see every transaction of
\* the contracts they see.
KeptRowJustified ==
    Answered("explorer") /\ ~input.w.strict /\ ~IsViewerAdmin(input.v) =>
        \A r \in verdict.feed :
            "private" \in {r.from, r.to} => \E x \in verdict.transfers : x.hash = r.hash

\* The explorer and the JSON-RPC gateway decide logs from different queries, and
\* agree: the logs of a transaction page are those of the receipt, with the same
\* addresses masked.
LogSurfacesAgree ==
    Answered("explorer") /\ input.v.scope = "all" =>
        \A t \in input.chain :
            \A receipt \in {FilterReceiptLogs(t, input.v, input.w)} :
                receipt.shown => {x[2] : x \in verdict.logs[t]} = {receipt.logs[i] : i \in DOMAIN receipt.logs}

\* Every row that an administrator sees only thanks to the audit view is counted
\* for the audit log, and the page that shows it writes an audit entry.
AuditViewCounted ==
    Answered("explorer") /\ input.audit =>
        \A plain \in {Pages(input.chain, input.v, input.w, FALSE)} :
        LET extra(shown, without) == {r \in shown : r.hash \notin {s.hash : s \in without}}
            new(shown, without) == {r \in shown : \A s \in without :
                                        <<r.hash, r.index>> # <<s.hash, s.index>>}
        IN  /\ \A r \in extra(verdict.feed, plain.feed) \cup extra(verdict.block, plain.block)
                        \cup new(verdict.transfers, plain.transfers)
                        \cup new(verdict.internals, plain.internals) : r.revealed
            /\ extra(verdict.ofAddress, plain.ofAddress) # {} => AuditAdminUserTxView(verdict.ofAddress)
            /\ new(verdict.transfersOf, plain.transfersOf) # {} => AuditAdminUserTxView(verdict.transfersOf)

\* Under the strict profile everything shown is the viewer's own: transactions
\* and internal calls of transactions it took part in, and logs and transfers
\* that name it in an indexed place.
StrictOwnOnly ==
    Answered("explorer") /\ input.w.strict =>
        /\ \A r \in verdict.feed \cup verdict.block \cup verdict.internals \cup verdict.unparented :
              {Tx(r.hash).from, Tx(r.hash).to} \cap GetLinkedAddresses(input.v, input.w) # {}
        /\ \A r \in verdict.transfers : IndexedSelf(Tx(r.hash).logs[r.index],
                                                    GetLinkedAddresses(input.v, input.w))
        /\ \A t \in input.chain : \A x \in verdict.logs[t] \cup verdict.search[t] :
              IndexedSelf(t.logs[x[1]], GetLinkedAddresses(input.v, input.w))
        /\ verdict.count = Cardinality({t \in input.chain :
              {t.from, t.to} \cap GetLinkedAddresses(input.v, input.w) # {}})
        /\ \A h \in verdict.suggested :
              {Tx(h).from, Tx(h).to} \cap GetLinkedAddresses(input.v, input.w) # {}
(* ------------------------------- disclosure -------------------------------- *)

\* A narrowed grant covers no transaction, no activity and no level that the
\* request did not (mergeNarrowedScope, then isSubsetOf).
NarrowingNeverWidens ==
    Answered("narrowing") /\ verdict.granted =>
        LET s == verdict.scope IN
        /\ CoversTransaction(s, input.parties, input.time)
              => CoversTransaction(input.base, input.parties, input.time)
        /\ ServesActivity(s) => ServesActivity(input.base)
        /\ DisclosureRank(s.level) <= DisclosureRank(input.base.level)

\* The activity query serves exactly the rows of the consented range, though the
\* column is coarser than the range.
BoundsExact ==
    Answered("bounds") =>
        (verdict.served <=> /\ input.start <= input.row * NanosecondsPerUnit
                            /\ input.row * NanosecondsPerUnit <= input.end)

\* A call is allowed only within the caller's rights: inside the caller's tenants, with
\* the admin claim for private storage, on listed functions, no more under an alias or a
\* pinned view; and a denial shows up in no other tenant's log.
RightsRespected ==
    /\ TenantsIsolated /\ PrivateStorageNeedsAdmin /\ FunctionListHolds
    /\ AliasNoWeaker /\ DenialNamesOwnOrg /\ PinnedCallNarrows

\* The code paths that judge one call agree: traced and direct, signed and unsigned,
\* simulated by a dry run, asked of the oracle and submitted.
PathsAgree ==
    /\ NoForeignFrame /\ TraceNoWiderThanCalls /\ ValuesAreTheOwners
    /\ SubmissionStaysHome /\ SendAndRawAgree
    /\ DryRunNeverOverpromises /\ OracleTruthful /\ OracleBlindOutside

\* The pages and methods that show one transaction agree on what is shown of it.
SurfacesAgree ==
    /\ LevelsAgree /\ SurfacesNest /\ BlockAgrees
    /\ TransferParentShown /\ KeptRowJustified /\ LogSurfacesAgree

\* Nothing hidden is shown: no page names an address the viewer may not see, the strict
\* profile and pinned views only take away, and an administrator's view is accounted for.
HiddenStaysHidden ==
    /\ MaskedHidesAddresses /\ NoHiddenNamed /\ StrictNarrows /\ StrictOwnOnly
    /\ PinnedViewNarrows /\ AuditViewCounted

\* A consent is served exactly: narrowing never widens it, and rows are compared with its
\* bounds without loss.
ConsentExact == NarrowingNeverWidens /\ BoundsExact
=============================================================================
