--------------------------- MODULE AccessDecision ---------------------------
(***************************************************************************)
(* AccessController.CheckAccess (internal/rbac/access.go) with the method  *)
(* registries (method_claim.go), the override, storage and upgrade guards  *)
(* and OrgContext: whether a JSON-RPC call of a user is allowed, and on    *)
(* behalf of which organization.                                           *)
(*                                                                         *)
(* A call q has the method asked for and the method whose layout and rules *)
(* it follows (AccessMethod: an alias target, or eth_call for a trace),    *)
(* the organization of its path, the one a view is pinned to, and of its   *)
(* params: the shape of the call object, the address it names, the         *)
(* addresses of a log filter, the function its data calls and whether the  *)
(* constrained argument is one of the caller's own addresses, the block,   *)
(* the storage keys, and whether it overrides state.  A user u has what    *)
(* the tables say of the user and the effective permissions in each        *)
(* organization.  A world w says who owns each address, which addresses    *)
(* are preregistered, and which organization owns the new implementation   *)
(* an upgrade names.                                                       *)
(***************************************************************************)
EXTENDS Naturals, FiniteSets

CONSTANTS
    Aliases,       \* MethodAliases: names of extra namespaces to built-in methods
    Passthrough    \* PassthroughMethods

OrgFree == {"eth_chainId", "eth_blockNumber"}
SelectorMethods == {"eth_call", "eth_estimateGas", "eth_sendTransaction"}
CallMethods == SelectorMethods \cup {"eth_createAccessList"}
StorageReads == {"eth_getStorageAt", "eth_getProof"}
AddressMethods == StorageReads \cup {"eth_getCode", "eth_getBalance", "eth_getTransactionCount"}
TraceMethods == {"debug_traceCall", "debug_traceTransaction"}

\* Of the code's tables, the names that the decision tells apart.
ReadMethods == OrgFree \cup {"eth_getBalance", "eth_getCode", "eth_getStorageAt",
                             "eth_getTransactionCount", "eth_call", "eth_estimateGas",
                             "eth_getLogs", "eth_getTransactionByHash", "eth_newFilter"}
WriteMethods == {"eth_sendTransaction", "eth_sendRawTransaction", "personal_sign"}
ExtraCanonical == {"eth_getProof", "eth_createAccessList", "eth_getBlockReceipts"}
SpecialDispatch == {"eth_sendTransaction", "eth_sendRawTransaction"} \cup TraceMethods

\* GlobalBlockedMethods and the blocked prefixes; the two trace methods are exempt.
IsMethodBlocked(m) == m \in {"eth_newFilter", "personal_sign", "debug_storageRangeAt"}

IsCatalogMethod(m) ==
    /\ m \in ReadMethods \cup WriteMethods \cup TraceMethods \cup ExtraCanonical
    /\ ~IsMethodBlocked(m)

ValidateAliasTarget(target) == IsCatalogMethod(target) /\ target \notin SpecialDispatch

IsForwardableMethod(m) ==
    \/ IsCatalogMethod(m) \/ m \in Passthrough
    \/ m \in DOMAIN Aliases /\ ValidateAliasTarget(Aliases[m])

InBuiltinWildcardSet(m) == m \in ReadMethods \cup WriteMethods \cup TraceMethods

InWildcardExpansion(m) ==
    /\ ~IsMethodBlocked(m) /\ m \notin Passthrough
    /\ \/ InBuiltinWildcardSet(m)
       \/ /\ m \in DOMAIN Aliases /\ IsForwardableMethod(m)
          /\ InBuiltinWildcardSet(Aliases[m])

HasMethod(perms, m) ==
    /\ IsForwardableMethod(m)
    /\ m \in perms.methods \/ ("*" \in perms.methods /\ InWildcardExpansion(m))

Effective(q) == IF q.access = "none" THEN q.method ELSE q.access
Judged(q) == {q.method, Effective(q)}
----------------------------------------------------------------------------
\* GetTargetAddress and GetFunctionSelector, by the layout of the effective method.
TargetAddress(q) ==
    IF Effective(q) \in CallMethods
    THEN IF q.shape \in {"targeted", "malformed"} THEN q.to ELSE "none"
    ELSE IF Effective(q) \in AddressMethods THEN q.to
    ELSE IF Effective(q) = "eth_getLogs" THEN q.to
    ELSE "none"

\* Less than four bytes of data are no selector.
Selector(q) == IF Effective(q) \in SelectorMethods /\ q.data # "short" THEN q.data ELSE "none"

IsContractDeployment(m, q) == m \in CallMethods /\ q.shape \in {"creation", "malformed"}
DetectMulticall(m, q) == m \in SelectorMethods /\ q.to = "multicall" /\ q.data = "aggregate"
DetectStateOverride(m, q) ==
    m \in {"eth_call", "eth_estimateGas", "eth_createAccessList", "debug_traceCall"} /\ q.override
IsHistorical(m, q) ==
    m \in {"eth_call", "debug_traceCall"} \cup AddressMethods /\ q.block = "number"

Deny == [allowed |-> FALSE, auth |-> FALSE, org |-> "none"]
DenyFor(org) == [allowed |-> FALSE, auth |-> FALSE, org |-> org]
AuthRequired == [allowed |-> FALSE, auth |-> TRUE, org |-> "none"]
AllowFor(org) == [allowed |-> TRUE, auth |-> FALSE, org |-> org]

CheckGlobalBlocks(q) ==
    \/ IsMethodBlocked(q.method) \/ ~IsForwardableMethod(q.method)
    \/ \E m \in Judged(q) : DetectMulticall(m, q)
CheckStateOverrides(q) == \E m \in Judged(q) : DetectStateOverride(m, q)

HistoricalStateQuery(q) == \E m \in Judged(q) : IsHistorical(m, q)

CheckAnonymousAccess(q, w) ==
    IF HistoricalStateQuery(q) THEN Deny
    ELSE IF ~IsCatalogMethod(q.method) \/ q.method \notin w.anonymous THEN AuthRequired
    ELSE IF \E m \in Judged(q) : IsContractDeployment(m, q) \/ m \in StorageReads THEN AuthRequired
    ELSE AllowFor("none")
----------------------------------------------------------------------------
\* NewOrgContext: the organizations of active memberships, in a pinned view only that one.
UserOrgIDs(q, u) == IF q.scope = "none" THEN u.orgs ELSE u.orgs \cap {q.scope}

CallerOrgForDenial(q, u) ==
    IF q.org \in u.orgs THEN q.org
    ELSE IF Cardinality(u.orgs) = 1 THEN CHOOSE o \in u.orgs : TRUE ELSE "none"

\* The organization the call is made for; "none" when it cannot be told.
ResolveOrg(q, u, w) ==
    LET mine == UserOrgIDs(q, u)
        owner == w.owner[TargetAddress(q)]
    IN  IF q.org # "none" THEN IF q.org \in mine THEN q.org ELSE "none"
        ELSE IF owner # "none" THEN owner
        ELSE IF Cardinality(mine) = 1 THEN CHOOSE o \in mine : TRUE ELSE "none"

Registered(perms, a) == a \in DOMAIN perms.access

\* mutant: the first address of the filter stands for the others
ValidateFirstLog(q, u, w, perms) ==
    q.logs # {} /\ w.owner[q.to] \in UserOrgIDs(q, u) /\ Registered(perms, q.to)

ValidateGetLogs(q, u, w, perms) ==
    /\ q.logs # {}
    /\ \A a \in q.logs :
          IF w.owner[a] = "none" THEN a \in w.precompiles
          ELSE w.owner[a] \in UserOrgIDs(q, u) /\ Registered(perms, a)

Grant(some, explicit, claims) ==
    [some |-> some, explicit |-> explicit, claims |-> claims, all |-> TRUE, functions |-> {}, own |-> {}]

\* The grant on the target; for want of one a precompile's, a preregistered address's, the deployer's.
ContractAccess(q, u, w, perms) ==
    LET a == TargetAddress(q)
        mine == UserOrgIDs(q, u)
    IN  IF Registered(perms, a) THEN perms.access[a]
        ELSE IF a \in w.precompiles /\ (w.owner[a] = "none" \/ w.owner[a] \in mine)
             THEN Grant(TRUE, FALSE, {})
        ELSE IF /\ w.owner[a] \in mine /\ a \in w.preregistered
                /\ perms.claims \cap {"deploy", "admin"} # {} THEN Grant(TRUE, TRUE, {"deploy"})
        ELSE Grant(a \in u.deployed, a \in u.deployed, {})

ValidateStorageReadAccess(q, acc) ==
    Judged(q) \cap StorageReads # {} /\ "admin" \notin acc.claims => q.keys = "wellknown"

\* A rule on a parameter asks for one of the caller's linked addresses.
ValidateFunctionSelector(q, acc) ==
    IF Selector(q) = "none" THEN Effective(q) \in SelectorMethods => acc.all
    ELSE \/ acc.all
         \/ Selector(q) \in acc.functions /\ (Selector(q) \in acc.own => q.mine)

ValidateProxyUpgrade(q, acc, w, org) ==
    Effective(q) = "eth_sendTransaction" /\ q.data = "upgrade"
        => "upgrade" \in acc.claims /\ w.implementation = org

ValidateContractAccess(q, u, w, perms, org) ==
    LET acc == ContractAccess(q, u, w, perms)
        a == TargetAddress(q)
    IN  /\ acc.some
        /\ acc.explicit \/ (w.owner[a] = "none" /\ a \in w.precompiles)
        /\ ValidateStorageReadAccess(q, acc)
        /\ ValidateFunctionSelector(q, acc)
        /\ ValidateProxyUpgrade(q, acc, w, org)

\* A plain value transfer to, and the balance and nonce of, an address nobody registered.
CarvedOut(q, w, perms) ==
    /\ TargetAddress(q) # "none" /\ ~Registered(perms, TargetAddress(q))
    /\ w.owner[TargetAddress(q)] = "none"
    /\ \/ Effective(q) \in {"eth_sendTransaction", "eth_estimateGas"} /\ q.data = "none"
       \/ /\ Effective(q) \in {"eth_getBalance", "eth_getTransactionCount"}
          /\ Judged(q) \cap StorageReads = {}

ValidateDeployment(q, perms) ==
    "deploy" \in perms.claims /\ q.shape = "creation" /\ q.data # "none"

CheckWithResolvedOrg(q, u, w, org) ==
    LET perms == u.perms[org]
        ok == IF Effective(q) = "eth_getLogs" THEN ValidateGetLogs(q, u, w, perms)
              ELSE IF TargetAddress(q) = "none" /\ Judged(q) \cap StorageReads # {} THEN FALSE
              ELSE IF IsContractDeployment(Effective(q), q) THEN ValidateDeployment(q, perms)
              ELSE \/ CarvedOut(q, w, perms)
                   \/ TargetAddress(q) = "none"
                   \/ ValidateContractAccess(q, u, w, perms, org)
    IN  IF HasMethod(perms, q.method) /\ ok THEN AllowFor(org) ELSE DenyFor(org)

CheckAccess(q, u, w) ==
    LET owner == w.owner[TargetAddress(q)]
        org == ResolveOrg(q, u, w)
    IN  IF CheckGlobalBlocks(q) \/ CheckStateOverrides(q) THEN Deny
        ELSE IF u.anonymous THEN CheckAnonymousAccess(q, w)
        ELSE IF ~u.exists \/ u.banned \/ (~u.kyc /\ q.method \notin OrgFree) THEN Deny
        ELSE IF HistoricalStateQuery(q) /\ ~u.orgAdmin THEN Deny
        ELSE IF q.method \in OrgFree THEN AllowFor("none")
        ELSE IF owner # "none" /\ owner \notin UserOrgIDs(q, u)
             THEN DenyFor(CallerOrgForDenial(q, u))
        ELSE IF org = "none" THEN Deny
        ELSE CheckWithResolvedOrg(q, u, w, org)

\* CanReadPrivateStorage asks about a slot that is never well known.
CanReadPrivateStorage(u, w, org, a) ==
    LET q == [method |-> "eth_getStorageAt", access |-> "none", org |-> org, scope |-> "none",
              shape |-> "absent", to |-> a, logs |-> {}, data |-> "none", mine |-> FALSE,
              block |-> "latest", keys |-> "private", override |-> FALSE]
        granted(d) == d.allowed /\ d.org = org
    IN  granted(CheckAccess(q, u, w))
=============================================================================
