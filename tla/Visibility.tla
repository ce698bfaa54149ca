------------------------------ MODULE Visibility ------------------------------
(* What a viewer may see of the chain: the visibility level of an address, the  *)
(* decision on one event log, the decision on one transaction, and the filters  *)
(* the JSON-RPC gateway applies to the node's answers.                          *)
(*                                                                              *)
(* A viewer v is [did, admins, claim, grants, scope]: the user ("none" for an   *)
(* anonymous one), the organizations it administers, whether a group of it      *)
(* carries the admin claim, its grant on each address, and the organization its *)
(* view is pinned to ("all" when it is not pinned, "none" when it is pinned to  *)
(* nothing).  A grant is [some, admin, rules] and rules are [kind, list] with   *)
(* kind in {"deny", "wildcard", "list"}; a rule is [event, params] and a param  *)
(* rule [index, must], must being "self" or an address.                         *)
(*                                                                              *)
(* A world w is [links, contracts, pending, precompiles, abi, dynamic, unlock,  *)
(* strict]: the user every address is linked to, the organization it is a       *)
(* contract of, the organization it is preregistered for, the contracts with an *)
(* ABI, those that may emit dynamic payloads, those whose events visibleTo      *)
(* unlocks, and the read profile.                                               *)
(*                                                                              *)
(* A transaction is [hash, from, to, created, named, visibleTo, org, logs]: "to"*)
(* is "none" for a creation, "named" are the addresses its calldata names,      *)
(* "visibleTo" the users it was shared with under "org".  A log is [emitter,    *)
(* event, args, indexed, dynamic, fits]: the first "indexed" of its address     *)
(* arguments are topics, the others data; "fits" says that exactly one event    *)
(* layout of the ABI decodes it.                                                *)
EXTENDS Naturals, Sequences, FiniteSets

NoRules == [kind |-> "deny", list |-> {}]
AllRules == [kind |-> "wildcard", list |-> {}]
NoGrant == [some |-> FALSE, admin |-> FALSE, rules |-> NoRules]
AdminGrant == [some |-> TRUE, admin |-> TRUE, rules |-> AllRules]

\* The addresses linked to the viewer.
GetLinkedAddresses(v, w) ==
    {a \in DOMAIN w.links : v.did # "none" /\ w.links[a] = v.did}

\* The organization that owns an address, as a contract or by preregistration.
OwnerOf(a, w) ==
    IF a \notin DOMAIN w.contracts THEN "none"
    ELSE IF w.contracts[a] # "none" THEN w.contracts[a] ELSE w.pending[a]

\* A pinned view reaches the contracts of its own organization only.
InViewScope(org, v) == v.scope \in {"all", org} /\ org # "none"

\* The viewer belongs to a group of the contract's organization that administers
\* the organization or holds a grant on the contract.
GrantedGroup(a, v, w) ==
    /\ v.did # "none"
    /\ w.contracts[a] \in v.admins \/ v.grants[a].some

\* The visibility level of an address.
GetBatchVisibility(a, v, w) ==
    IF a \notin DOMAIN w.links THEN "hidden"
    ELSE IF w.links[a] # "none" THEN (IF w.links[a] = v.did THEN "full" ELSE "hidden")
    ELSE IF a \in w.precompiles THEN "full"
    ELSE IF w.contracts[a] = "none" THEN "hidden"
    ELSE IF InViewScope(w.contracts[a], v) /\ GrantedGroup(a, v, w) THEN "full" ELSE "redacted"

\* The same level with its reason.
GetBatchVisibilityDetailed(a, v, w) ==
    LET is(level, reason) == [level |-> level, reason |-> reason]
        linked == a \in DOMAIN w.links /\ w.links[a] # "none"
    IN  CASE linked /\ w.links[a] = v.did -> is("full", "own_address")
          [] linked /\ w.links[a] # v.did -> is("hidden", "no_access")
          [] ~linked /\ a \in w.precompiles -> is("full", "public_address")
          [] ~linked /\ a \notin w.precompiles ->
                IF a \notin DOMAIN w.contracts \/ w.contracts[a] = "none"
                THEN is("hidden", "no_access")
                ELSE IF InViewScope(w.contracts[a], v) /\ GrantedGroup(a, v, w)
                     THEN is("full", "rbac_group_member")
                     ELSE is("redacted", "no_access")

Level(a, v, w) == GetBatchVisibilityDetailed(a, v, w).level
IsNonIdentifiable(level) == level \in {"hidden", "redacted"}

\* The viewer may see the token transfers of a contract: it administers the
\* contract's organization or a grant carries event rules.
GetBatchEventAccess(a, v, w) ==
    /\ v.did # "none" /\ a \in DOMAIN w.contracts /\ w.contracts[a] # "none"
    /\ \/ w.contracts[a] \in v.admins
       \/ v.grants[a].some /\ v.grants[a].rules # NoRules

\* The viewer is an administrator of something.
IsViewerAdmin(v) == v.did # "none" /\ (v.claim \/ v.admins # {})

(* ------------------------------- event logs -------------------------------- *)

\* A parameter rule holds of the argument it indexes.
MatchesEventParamRules(l, params, own) ==
    \/ params = {}
    \/ \E p \in params :
          /\ p.index \in DOMAIN l.args
          /\ IF p.must = "self" THEN l.args[p.index] \in own
                                ELSE l.args[p.index] = p.must

EventTopic0Matches(l, rules) == \E r \in rules.list : r.event = l.event

EventAllowed(l, rules, own) ==
    \E r \in rules.list : /\ r.event = l.event
                          /\ MatchesEventParamRules(l, r.params, own)

\* The log is of one event layout and one of its indexed addresses is the viewer's.
IndexedSelf(l, own) == l.fits /\ \E i \in 1..l.indexed : l.args[i] \in own

DecideLogEmitterStrict(f) ==
    IF ~f.self \/ ~f.abi \/ f.dropped \/ ~f.grant THEN "drop"
    ELSE IF \/ f.admin \/ f.rules = "wildcard"
            \/ f.rules = "list" /\ f.topic0 /\ f.allowed
         THEN "masked" ELSE "drop"

\* The decision on one log: dropped, shown with its addresses masked, or in full.
DecideLogEmitter(strict, f) ==
    CASE strict -> DecideLogEmitterStrict(f)
      [] ~strict /\ f.unlocked -> "full"
      [] ~strict /\ ~f.unlocked /\ f.admin -> "masked"
      [] OTHER ->
            IF /\ f.abi /\ ~f.dropped /\ f.grant
               /\ \/ f.participant
                  \/ f.rules = "wildcard"
                  \/ /\ f.rules = "list" /\ f.topic0
                     /\ f.allowed \/ (f.listed0 /\ f.visible)
            THEN "masked" ELSE "drop"

\* The facts both surfaces share; they differ in who is admin, what counts as a
\* grant and which rules apply.
LogFacts(l, own, admin, unlocked, grant, participant, visible, rules, w) ==
    [admin |-> admin, unlocked |-> unlocked, grant |-> grant,
     participant |-> participant, visible |-> visible,
     topic0 |-> l.event # "none",
     abi |-> l.emitter \in w.abi,
     dropped |-> /\ l.emitter \in w.abi /\ l.event # "none"
                 /\ l.dynamic /\ l.emitter \notin w.dynamic,
     self |-> l.emitter \in w.abi /\ l.event # "none" /\ IndexedSelf(l, own),
     rules |-> rules.kind,
     allowed |-> l.event # "none" /\ EventAllowed(l, rules, own),
     listed0 |-> l.event # "none" /\ EventTopic0Matches(l, rules)]

\* The effective grant on a contract, from the organizations the view reaches.
ResolvePermsForFilter(a, v, w) ==
    IF v.did = "none" \/ a \notin DOMAIN w.contracts THEN NoGrant
    ELSE IF ~InViewScope(w.contracts[a], v) THEN NoGrant
    ELSE IF w.contracts[a] \in v.admins THEN AdminGrant ELSE v.grants[a]

\* A contract whose events the visibleTo list of a transaction unlocks.
UnlockableContracts(a, v, w) ==
    /\ a \in w.unlock /\ InViewScope(w.contracts[a], v)
    /\ GrantedGroup(a, v, w)

\* The visibleTo list of a transaction names the viewer; a pinned view only reads
\* the lists written under its organization.
TxVisibilityForViewer(t, v) ==
    /\ v.did # "none" /\ v.did \in t.visibleTo
    /\ v.scope = "all" \/ (v.scope # "none" /\ v.scope = t.org)

FilterEventLogsDetailed(l, v, w, visible, participant) ==
    LET g == ResolvePermsForFilter(l.emitter, v, w)
    IN  DecideLogEmitter(w.strict,
            LogFacts(l, GetLinkedAddresses(v, w), g.admin,
                     visible /\ UnlockableContracts(l.emitter, v, w),
                     g.some, participant, visible, g.rules, w))

\* The addresses of a log that are not fully visible are zeroed: in the topics
\* always, in the data when the ABI says where they are.
RedactLogAddressFields(l, v, w) ==
    [i \in DOMAIN l.args |->
        IF \/ Level(l.args[i], v, w) = "full"
           \/ i > l.indexed /\ (l.emitter \notin w.abi \/ l.event = "none")
        THEN l.args[i] ELSE "masked"]

RedactAdmittedLog(l, payload, v, w) ==
    [emitter |-> l.emitter, event |-> l.event,
     args |-> IF payload = "full" THEN l.args ELSE RedactLogAddressFields(l, v, w)]

\* The logs of a transaction the viewer is shown, rendered.
AdmittedLogs(t, v, w, visible, participant) ==
    LET verdict(l) == FilterEventLogsDetailed(l, v, w, visible, participant)
        kept == SelectSeq(t.logs, LAMBDA l : verdict(l) # "drop")
    IN  [i \in DOMAIN kept |-> RedactAdmittedLog(kept[i], verdict(kept[i]), v, w)]

(* --------------------- transactions, receipts and blocks ------------------- *)

\* mutant: entitled logs do not open the receipt
DecideTxEnvelopeParties(strict, surface, f) ==
    \/ f.participant
    \/ ~strict /\ surface \in {"transaction", "receipt"} /\ (f.adminOnTo \/ f.visible)

\* The decision on one transaction as a whole.
DecideTxEnvelope(strict, surface, f) ==
    \/ f.participant
    \/ /\ ~strict
       /\ \/ surface \in {"transaction", "receipt"} /\ (f.adminOnTo \/ f.visible)
          \/ surface = "receipt" /\ ~f.deployment /\ f.logs > 0

IsTxParticipant(t, v, w) == {t.from, t.to} \cap GetLinkedAddresses(v, w) # {}

\* The viewer administers a contract, in an organization its view reaches.
ViewerAdminContract(a, v, w) == ResolvePermsForFilter(a, v, w).admin

\* A pinned view answers null for a transaction whose target, or the contract it
\* created, belongs to another organization.
ApplyViewerOrgScopeEnvelope(t, v, w) ==
    \/ v.scope = "all"
    \/ \A a \in {t.to, t.created} \ {"none"} :
          OwnerOf(a, w) = "none" \/ OwnerOf(a, w) = v.scope

FilterTransactionByHash(t, v, w) ==
    /\ DecideTxEnvelope(w.strict, "transaction",
          [participant |-> IsTxParticipant(t, v, w),
           adminOnTo |-> ~w.strict /\ ViewerAdminContract(t.to, v, w),
           visible |-> ~w.strict /\ TxVisibilityForViewer(t, v),
           deployment |-> t.to = "none", logs |-> 0])
    /\ ApplyViewerOrgScopeEnvelope(t, v, w)

\* A receipt: first whether any entitlement could show it, then its logs, then
\* whether it is shown.
DecideReceipt(t, surface, v, w) ==
    LET part == IsTxParticipant(t, v, w)
        visible == ~w.strict /\ TxVisibilityForViewer(t, v)
        facts(n) == [participant |-> part, visible |-> visible,
                     adminOnTo |-> ViewerAdminContract(t.to, v, w),
                     deployment |-> t.to = "none", logs |-> n]
        opened(n) == DecideTxEnvelope(w.strict, surface, facts(n))
        receipt(logs) == IF opened(Len(logs)) THEN [shown |-> TRUE, logs |-> logs]
                         ELSE [shown |-> FALSE, logs |-> <<>>]
    IN  IF opened(Len(t.logs) + 1) THEN receipt(AdmittedLogs(t, v, w, visible, part))
        ELSE [shown |-> FALSE, logs |-> <<>>]

FilterReceiptLogs(t, v, w) ==
    LET r == DecideReceipt(t, "receipt", v, w)
    IN  IF ApplyViewerOrgScopeEnvelope(t, v, w) THEN r
        ELSE [shown |-> FALSE, logs |-> <<>>]

\* eth_getLogs: the senders of the transactions are looked up in one batch; when
\* there are too many of them, or the lookup fails, nobody counts as participant.
FilterLogs(t, v, w, resolved) ==
    AdmittedLogs(t, v, w, ~w.strict /\ TxVisibilityForViewer(t, v),
                 ~w.strict /\ resolved /\ IsTxParticipant(t, v, w))

\* The transactions of a block the viewer is shown.
FilterBlockTransactions(block, v, w) ==
    {t \in block : DecideTxEnvelope(w.strict, "block",
                      [participant |-> IsTxParticipant(t, v, w),
                       adminOnTo |-> FALSE, visible |-> FALSE,
                       deployment |-> FALSE, logs |-> 0])}

FilterBlockReceipts(block, v, w) ==
    {t \in block : DecideReceipt(t, "block", v, w).shown}

FilterBlockTransactionCount(block, v, w) ==
    Cardinality({t \in block : IsTxParticipant(t, v, w)})

=============================================================================
