--------------------------- MODULE ExplorerRedaction ---------------------------
(* The explorer: the filter that selects the rows of the transaction feed, the  *)
(* redaction of every kind of row, and the pages built from them.               *)
(*                                                                              *)
(* The chain is a set of transactions as in Visibility; the token transfers of  *)
(* a transaction are its Transfer logs and its internal calls are pairs         *)
(* [from, to] in the field "internals".  Hashes are numbers.  Options o are     *)
(* [kept, listed, admin, audit]: the rows that survive, the ones shared with    *)
(* the viewer, whether it is an administrator, and whether administrators are   *)
(* shown user transactions (which is counted for the audit log).  The zero      *)
(* address is "zero".  A redactor yields the empty set for a dropped row.       *)
EXTENDS Visibility

CONSTANT
    UnionLimit      \* transferParticipantUnionLimit

ParticipantEvents == {"Transfer"}

Transfers(t) ==
    {[hash |-> t.hash, index |-> i, token |-> t.logs[i].emitter,
      from |-> t.logs[i].args[1], to |-> t.logs[i].args[2]] :
        i \in {j \in DOMAIN t.logs : t.logs[j].event = "Transfer"}}

\* The rows a LIMIT query ordered by hash returns.
FirstByHash(hashes, n) ==
    {h \in hashes : n > 0 /\ Cardinality({g \in hashes : g < h}) < n}

FindLogParticipantTxs(t, own) ==
    \E i \in DOMAIN t.logs :
        /\ t.logs[i].event \in ParticipantEvents
        /\ \E j \in 1..t.logs[i].indexed : t.logs[i].args[j] \in own

FindTransferParticipantTxs(chain, addrs, n) ==
    FirstByHash({t.hash : t \in {s \in chain : \E x \in Transfers(s) :
                                    {x.from, x.to} \cap addrs # {}}}, n)

FindTransferTxsBetween(chain, sides, tokens, n) ==
    FirstByHash({t.hash : t \in {s \in chain : \E x \in Transfers(s) :
                                    {x.from, x.to} \subseteq sides /\ x.token \in tokens}}, n)

(* ------------------------------ the row filter ----------------------------- *)

StrictAllowlist(addrs, v, w) ==
    {a \in addrs : GetBatchVisibilityDetailed(a, v, w).reason = "own_address"}

\* The addresses and transactions whose rows survive: what the viewer sees in
\* full, what was shared with the viewer, and the parents of the transfers the
\* viewer is shown.
BuildVisibilityFilter(v, w, chain) ==
    LET known == {a \in DOMAIN w.links : w.links[a] # "none" \/ OwnerOf(a, w) # "none"}
        full == {a \in known : GetBatchVisibility(a, v, w) = "full"}
        listed == {t.hash : t \in {s \in chain : v.did # "none" /\ v.did \in s.visibleTo}}
        drivers == IF IsViewerAdmin(v) THEN full ELSE StrictAllowlist(known, v, w)
        parents == FindTransferParticipantTxs(chain, drivers, UnionLimit)
        room == UnionLimit - Cardinality(parents \ listed)
        tokens == {a \in full : GetBatchEventAccess(a, v, w)}
        between == IF IsViewerAdmin(v) THEN {}
                   ELSE FindTransferTxsBetween(chain, full \cup {"zero"} \cup w.precompiles,
                                               tokens, room)
    IN  IF w.strict
        THEN [addresses |-> StrictAllowlist(known, v, w), listed |-> {}, hashes |-> {}]
        ELSE [addresses |-> full, listed |-> listed,
              hashes |-> listed \cup parents \cup between]

\* The WHERE clause of the filtered queries.
VisibilityWhereClause(t, filter) ==
    {t.from, t.to} \cap filter.addresses # {} \/ t.hash \in filter.hashes

\* The options of the redactors, from the filter.
BuildRedactOptsForViewer(v, w, chain, audit) ==
    LET f == BuildVisibilityFilter(v, w, chain)
    IN  IF v.did = "none"
        THEN [kept |-> {}, listed |-> {}, admin |-> FALSE, audit |-> FALSE]
        ELSE [kept |-> f.hashes, listed |-> f.listed, admin |-> IsViewerAdmin(v),
              audit |-> audit /\ ~w.strict]

AdminAuditView(o, w) == ~w.strict /\ o.admin /\ o.audit

(* ------------------------------- transactions ------------------------------ *)

TxParticipant(t, v, w) ==
    LET own == GetLinkedAddresses(v, w)
    IN  \/ IsTxParticipant(t, v, w)
        \/ ~w.strict /\ (t.named \cap own # {} \/ FindLogParticipantTxs(t, own))

ApplyRedaction(a, level) == IF IsNonIdentifiable(level) THEN "private" ELSE a

\* mutant: a row kept for its transfers is revealed like a shared one
ListedOrKept(t, o, w) == ~w.strict /\ t.hash \in o.listed \cup o.kept

\* The transaction was shared with the viewer.
ListedFor(t, o, w) == ~w.strict /\ t.hash \in o.listed

\* Rows an administrator is shown only because of the audit view are counted.
RecordAdminReveal(t, from, to) == from /\ (to \/ t.to = "none")

\* One transaction row; from and to are "private" where the viewer may not know
\* them, and then the value, the input and the nonce go with them.
RedactTransaction(t, v, w, o) ==
    LET part == TxParticipant(t, v, w)
        listed == ListedFor(t, o, w)
        kept == ~w.strict /\ t.hash \in o.kept /\ ~listed
        admin == ~w.strict /\ o.admin
        audit == AdminAuditView(o, w)
        base(a) == IF a = "none" THEN "full" ELSE Level(a, v, w)
        level(a) == IF part \/ listed THEN "full" ELSE base(a)
        from == IsNonIdentifiable(level(t.from))
        to == IsNonIdentifiable(level(t.to))
        dropped == \/ w.strict /\ ~part
                   \/ from /\ (to \/ t.to = "none") /\ ~audit /\ ~kept
                   \/ (from \/ to) /\ ~part /\ ~listed /\ ~admin /\ ~kept
        shownTo == ApplyRedaction(t.to, level(t.to))
    IN  IF dropped THEN {}
        ELSE {[hash |-> t.hash,
               from |-> ApplyRedaction(t.from, level(t.from)),
               to |-> shownTo,
               created |-> ApplyRedaction(t.created, level(t.created)),
               value |-> (~from /\ ~to) \/ audit,
               input |-> ~from /\ ~to,
               nonce |-> /\ ~from
                         /\ w.strict \/ ~part \/ ~IsNonIdentifiable(base(t.from)),
               transfers |-> /\ ~w.strict
                             /\ admin \/ shownTo = "none" \/ GetBatchEventAccess(shownTo, v, w),
               revealed |-> audit /\ RecordAdminReveal(t, from, to)]}

(* -------------------------------- event logs ------------------------------- *)

\* The grant of the contract's own organization, whatever the view is pinned to.
OwnGrant(a, v, w) ==
    IF v.did = "none" \/ OwnerOf(a, w) = "none" THEN NoGrant
    ELSE IF OwnerOf(a, w) \in v.admins THEN AdminGrant ELSE v.grants[a]

AdminContracts(a, v, w) == OwnGrant(a, v, w).admin

GetEventRulesForContract(a, v, w) ==
    LET g == OwnGrant(a, v, w)
    IN  IF v.did = "none" \/ g.admin THEN AllRules ELSE g.rules

\* The decision on one log; "parties" are the parent's addresses where the page
\* knows the parent.
ExplorerLogDecision(l, t, v, w, o, parties) ==
    LET listed == t.hash \in o.listed
        own == GetLinkedAddresses(v, w)
    IN  IF Level(l.emitter, v, w) = "hidden" THEN "drop"
        ELSE DecideLogEmitter(w.strict,
                LogFacts(l, own, AdminContracts(l.emitter, v, w),
                         listed /\ UnlockableContracts(l.emitter, v, w),
                         Level(l.emitter, v, w) = "full",
                         parties \cap own # {}, listed,
                         GetEventRulesForContract(l.emitter, v, w), w))

RedactLog(l, t, v, w, o, parties) ==
    LET d == ExplorerLogDecision(l, t, v, w, o, parties)
        blank == Level(l.emitter, v, w) = "redacted"
    IN  CASE d = "drop" -> {}
          [] d = "full" -> {[emitter |-> l.emitter, event |-> l.event, args |-> l.args]}
          [] d = "masked" ->
                {[emitter |-> ApplyRedaction(l.emitter, Level(l.emitter, v, w)),
                  event |-> IF blank THEN "none" ELSE l.event,
                  args |-> IF blank THEN <<>> ELSE RedactLogAddressFields(l, v, w)]}

NoOpts == [kept |-> {}, listed |-> {}, admin |-> FALSE, audit |-> FALSE]

(* ------------------------------ token transfers ---------------------------- *)

SideLevel(a, v, w) == IF a = "zero" THEN "full" ELSE Level(a, v, w)

TransferDropped(part, listed, admin, audit, from, to) ==
    \/ from /\ to /\ ~audit
    \/ (from \/ to) /\ ~part /\ ~listed /\ ~admin

\* One token transfer row x of transaction t.  Under the strict profile a
\* transfer is shown exactly when the log behind it is.
RedactTransfer(x, t, v, w, o) ==
    LET part == {x.from, x.to} \cap GetLinkedAddresses(v, w) # {}
        listed == t.hash \in o.listed
        audit == AdminAuditView(o, w)
        level(a) == IF ~w.strict /\ (part \/ listed) THEN "full" ELSE SideLevel(a, v, w)
        from == IsNonIdentifiable(level(x.from))
        to == IsNonIdentifiable(level(x.to))
        row(value, revealed) ==
            [hash |-> x.hash, index |-> x.index, token |-> x.token,
             from |-> ApplyRedaction(x.from, level(x.from)),
             to |-> ApplyRedaction(x.to, level(x.to)),
             value |-> value, revealed |-> revealed]
    IN  IF w.strict
        THEN IF RedactLog(t.logs[x.index], t, v, w, NoOpts, {}) = {} THEN {}
             ELSE {row(TRUE, FALSE)}
        ELSE IF \/ TransferDropped(part, listed, o.admin, audit, from, to)
                \/ ~o.admin /\ ~GetBatchEventAccess(x.token, v, w)
             THEN {}
             ELSE {row((~from /\ ~to) \/ audit, audit /\ from /\ to)}

(* ------------------------------ internal calls ----------------------------- *)

\* One internal call, number i of transaction t; "known" says that the page supplied the
\* parent's parties (the strict profile always looks them up).
RedactInternalTransaction(i, t, v, w, o, known) ==
    LET x == t.internals[i]
        own == GetLinkedAddresses(v, w)
        parties == IF known \/ w.strict THEN {t.from, t.to} \ {"none"} ELSE {}
        parentParty == parties \cap own # {}
        part == {x.from, x.to} \cap own # {} /\ (w.strict => parentParty)
        listed == ListedFor(t, o, w)
        audit == AdminAuditView(o, w)
        level(a) == IF part \/ listed \/ (parentParty /\ a \in parties) \/ a = "none"
                    THEN "full" ELSE Level(a, v, w)
        from == IsNonIdentifiable(level(x.from))
        to == IsNonIdentifiable(level(x.to))
    IN  IF (w.strict /\ ~parentParty) \/ (from /\ to /\ ~audit) THEN {}
        ELSE {[hash |-> t.hash, index |-> i,
               from |-> ApplyRedaction(x.from, level(x.from)),
               to |-> ApplyRedaction(x.to, level(x.to)),
               value |-> (~from /\ ~to) \/ audit \/ w.strict,
               input |-> ~from /\ ~to,
               revealed |-> audit /\ from /\ to]}

RedactTokenHolder(a, v, w) ==
    LET level == GetBatchVisibility(a, v, w)
    IN  IF level = "hidden" THEN {}
        ELSE {[address |-> ApplyRedaction(a, level), balance |-> level = "full"]}

(* ---------------------------------- pages ---------------------------------- *)

\* An address is served at all when the viewer sees it.
AddressVisible(a, v, w) == ~IsNonIdentifiable(Level(a, v, w))

FilteredTransactions(v, w, chain) ==
    LET f == BuildVisibilityFilter(v, w, chain)
    IN  {t \in chain : VisibilityWhereClause(t, f)}

\* The transaction feed: filtered by the database, then redacted.
GetExplorerTransactions(v, w, chain, audit) ==
    LET o == BuildRedactOptsForViewer(v, w, chain, audit)
    IN  UNION {RedactTransaction(t, v, w, o) : t \in FilteredTransactions(v, w, chain)}

\* One transaction, or the transactions of a block: redacted only.
GetExplorerBlockTransactions(block, v, w, chain, audit) ==
    LET o == BuildRedactOptsForViewer(v, w, chain, audit)
    IN  UNION {RedactTransaction(t, v, w, o) : t \in block}

\* The chain statistics, the block list and the block page count filtered rows.
GetBlockTransactionCountFiltered(block, v, w, chain) ==
    Cardinality(block \cap FilteredTransactions(v, w, chain))

GetExplorerAddressTransactions(a, v, w, chain, audit) ==
    IF ~AddressVisible(a, v, w) THEN {}
    ELSE GetExplorerBlockTransactions({t \in chain : a \in {t.from, t.to}}, v, w, chain, audit)

GetExplorerAllTransfers(v, w, chain, audit) ==
    LET o == BuildRedactOptsForViewer(v, w, chain, audit)
    IN  UNION {UNION {RedactTransfer(x, t, v, w, o) : x \in Transfers(t)} : t \in chain}

GetExplorerTokenTransfers(a, v, w, chain, audit) ==
    IF ~AddressVisible(a, v, w) THEN {}
    ELSE {x \in GetExplorerAllTransfers(v, w, chain, audit) : x.token = a}

GetExplorerAddressTransfers(a, v, w, chain, audit) ==
    LET o == BuildRedactOptsForViewer(v, w, chain, audit)
    IN  IF ~AddressVisible(a, v, w) THEN {}
        ELSE UNION {UNION {RedactTransfer(x, t, v, w, o) :
                              x \in {y \in Transfers(t) : a \in {y.from, y.to}}} : t \in chain}

\* The internal calls of a transaction, whose parties this page looks up.
GetExplorerTransactionInternal(t, v, w, chain, audit) ==
    LET o == BuildRedactOptsForViewer(v, w, chain, audit)
    IN  UNION {RedactInternalTransaction(i, t, v, w, o, TRUE) : i \in DOMAIN t.internals}

\* The internal calls of a block or of an address: the parents are not looked up.
GetExplorerBlockInternalTxs(block, v, w, chain, audit) ==
    LET o == BuildRedactOptsForViewer(v, w, chain, audit)
    IN  UNION {UNION {RedactInternalTransaction(i, t, v, w, o, FALSE) :
                         i \in DOMAIN t.internals} : t \in block}

GetExplorerAddressInternal(a, v, w, chain, audit) ==
    LET o == BuildRedactOptsForViewer(v, w, chain, audit)
    IN  IF ~AddressVisible(a, v, w) THEN {}
        ELSE UNION {UNION {RedactInternalTransaction(i, t, v, w, o, FALSE) :
                              i \in {j \in DOMAIN t.internals :
                                        a \in {t.internals[j].from, t.internals[j].to}}} :
                        t \in chain}

\* The logs of a transaction: with its visibleTo list and its parties.
GetExplorerTransactionLogs(t, v, w, chain) ==
    LET o == BuildRedactOptsForViewer(v, w, chain, FALSE)
    IN  UNION {{i} \X RedactLog(t.logs[i], t, v, w, o, {t.from, t.to} \ {"none"}) :
                  i \in DOMAIN t.logs}

\* The log search: neither of them.
GetExplorerLogs(t, v, w) ==
    UNION {{i} \X RedactLog(t.logs[i], t, v, w, NoOpts, {}) : i \in DOMAIN t.logs}

\* The tokens a page lists: hidden ones are left out, the others lose their name.
GetExplorerTokens(tokens, v, w) ==
    UNION {RedactTokenHolder(a, v, w) : a \in tokens}

\* The accounts, the token balances and the search only list what is seen in full.
GetExplorerAccounts(accounts, v, w) ==
    {a \in accounts : GetBatchVisibility(a, v, w) = "full"}

\* The search suggests a transaction only if its page would show it, under the
\* strict profile; otherwise every hash is suggested.
SearchSuggestions(t, v, w, chain) ==
    w.strict => GetExplorerBlockTransactions({t}, v, w, chain, FALSE) # {}

\* A page writes one audit entry when the audit view revealed something.
AuditAdminUserTxView(rows) == \E r \in rows : r.revealed

=============================================================================
