-------------------------- MODULE MCAdministration --------------------------
(***************************************************************************)
(* Two organizations with their admins and a member of both, the default   *)
(* and the anonymous organization, one Azure tenant; every request of the  *)
(* API paired with each of the requests that change what it relies on.     *)
(***************************************************************************)
EXTENDS AdminIdentity

CONSTANTS
    o1, o2, oAnon,                       \* organizations
    gAdm1, gRo1, gReg1, gAuto1, gAdm2, gReg2,   \* groups
    uA, uR, uM, uB, uZ,                  \* users
    k1, k2,                              \* contracts
    x1, x2, x3,                          \* their addresses, and a free one
    a1,                                  \* a linked account
    c1, c2                               \* calls

Group(org, slug) ==
    [org |-> org, slug |-> slug, admin |-> FALSE, readonly |-> FALSE, system |-> FALSE, auto |-> FALSE]

User(did, tenant) == [did |-> did, kyc |-> FALSE, banned |-> FALSE, tenant |-> tenant]

Member(u, g, until) == [user |-> u, group |-> g, until |-> until]

Deny == [kind |-> "deny", rules |-> <<>>]

Rules(r) == [kind |-> "rules", rules |-> r]

Base ==
    [orgs |-> o1 :> [slug |-> "one", system |-> FALSE] @@ o2 :> [slug |-> "two", system |-> FALSE]
              @@ DefaultOrg :> [slug |-> "default", system |-> FALSE]
              @@ oAnon :> [slug |-> "anonymous", system |-> TRUE],
     groups |-> gAdm1 :> [Group(o1, "admins") EXCEPT !.admin = TRUE]
                @@ gRo1 :> [Group(o1, "auditors") EXCEPT !.readonly = TRUE]
                @@ gReg1 :> Group(o1, "traders")
                @@ gAuto1 :> [Group(o1, "auto") EXCEPT !.auto = TRUE]
                @@ gAdm2 :> [Group(o2, "admins") EXCEPT !.admin = TRUE]
                @@ gReg2 :> Group(o2, "traders")
                @@ DefaultGroup :> Group(DefaultOrg, "users")
                @@ AnonymousGroup :> [Group(oAnon, "anonymous") EXCEPT !.system = TRUE],
     access |-> gReg1 :> [methods |-> {"eth_call", "eth_send"}, claims |-> {"deploy"}]
                @@ gAdm1 :> [methods |-> {"eth_call"}, claims |-> {}],
     users |-> uA :> User("dA", Nil) @@ uR :> User("dR", Nil) @@ uM :> User("dM", Nil)
               @@ uB :> User("dB", Nil) @@ uZ :> User("dZ", "T1"),
     members |-> <<uA, gAdm1>> :> Member(uA, gAdm1, 0) @@ <<uR, gRo1>> :> Member(uR, gRo1, 0) @@ <<uM, gReg1>> :> Member(uM, gReg1, 3)
                 @@ <<uM, gReg2>> :> Member(uM, gReg2, 0) @@ <<uB, gAdm2>> :> Member(uB, gAdm2, 0) @@ <<uZ, gReg1>> :> Member(uZ, gReg1, 0),
     contracts |-> k1 :> [addr |-> x1, org |-> o1, name |-> "one", abi |-> ("t1" :> "address"),
                          unlock |-> FALSE, dynamic |-> FALSE]
                   @@ k2 :> [addr |-> x2, org |-> o2, name |-> "two", abi |-> Nil,
                             unlock |-> FALSE, dynamic |-> FALSE],
     grants |-> <<k1, gReg1>> :> [contract |-> k1, group |-> gReg1, functions |-> Nil, events |-> Rules("t1" :> Nil)]
                @@ <<k1, gAuto1>> :> [contract |-> k1, group |-> gAuto1, functions |-> Nil, events |-> Deny],
     tenants |-> "tz" :> [tenant |-> "T1", org |-> o1, group |-> gReg1, auto |-> TRUE],
     infra |-> x2 :> [name |-> "router", codehash |-> "code"],
     links |-> <<"dM", a1>> :> [revoked |-> FALSE, kind |-> "user", ens |-> Nil, at |-> 0]
               @@ <<"dB", a1>> :> [revoked |-> TRUE, kind |-> "system", ens |-> Nil, at |-> 0],
     tokens |-> {"dM", "dZ"},
     cached |-> <<>>, audit |-> {}, now |-> 1]

Warm == ResolvePermissions(Base, uM, o1)

\* A request with every field, as an org admin of o1 would send it.
Req == [by |-> "jwt_admin", did |-> "dA", op |-> "none", org |-> o1, get |-> FALSE, slug |-> "new",
        g |-> gReg1, admin |-> Nil, readonly |-> Nil, groups |-> {gReg1}, system |-> FALSE,
        methods |-> {"eth_call"}, claims |-> {}, addr |-> x1, name |-> "renamed", hash |-> "h1",
        abi |-> ("t1" :> "word"), flag |-> TRUE, contracts |-> {k1}, functions |-> Nil, events |-> Deny,
        fields |-> {"events"}, filter |-> Nil, role |-> "", u |-> uM, kyc |-> Nil, banned |-> Nil,
        target |-> "dM", until |-> 0, m |-> <<uM, gReg1>>, t |-> "tz", nonce |-> "nM", proved |-> TRUE,
        tid |-> "T1", reason |-> TRUE,
        tenant |-> [tenant |-> "T2", org |-> o2, group |-> gReg2, auto |-> FALSE]]

Jwt(op) == [Req EXCEPT !.op = op]
Get(op) == [Req EXCEPT !.op = op, !.get = TRUE]
Super(op) == [Req EXCEPT !.op = op, !.by = "admin_token", !.did = Nil]
Operator(op) == [Req EXCEPT !.op = op, !.by = "operator_token", !.did = Nil]
Subject(op, did) == [Req EXCEPT !.op = op, !.by = "subject", !.did = did]
Azure(op, did) == [Req EXCEPT !.op = op, !.by = "azure", !.did = did]
NoOrg(r) == [r EXCEPT !.org = Nil]

Rule(addr) == Rules("t1" :> addr)

Writes ==
    {Super("createOrganization"), [Operator("createOrganization") EXCEPT !.slug = "two"],
     Jwt("createOrganization"), Jwt("updateOrganization"), Super("deleteOrganization"),
     [Jwt("createGroup") EXCEPT !.admin = FALSE, !.readonly = FALSE],
     [Operator("createGroup") EXCEPT !.admin = TRUE, !.readonly = FALSE],
     [Jwt("updateGroup") EXCEPT !.readonly = TRUE], [Jwt("updateGroup") EXCEPT !.g = gReg2, !.readonly = TRUE],
     [Super("updateGroup") EXCEPT !.admin = TRUE], [Super("updateGroup") EXCEPT !.g = gAdm1, !.admin = FALSE],
     [Operator("updateGroup") EXCEPT !.readonly = TRUE],
     Jwt("deleteGroup"), [Jwt("deleteGroup") EXCEPT !.g = gAdm1], Operator("deleteGroup"),
     [Jwt("batchDeleteGroups") EXCEPT !.groups = {gReg1, gAuto1}],
     [Jwt("batchDeleteGroups") EXCEPT !.groups = {gReg1, gReg2}],
     Jwt("setGroupAccess"), [Jwt("setGroupAccess") EXCEPT !.g = gRo1, !.methods = {"*"}],
     [Super("setGroupAccess") EXCEPT !.org = oAnon, !.g = AnonymousGroup],
     [Jwt("setGroupAccess") EXCEPT !.methods = {"admin_peers"}],
     [Jwt("createContract") EXCEPT !.addr = x3], Jwt("createContract"),
     [Jwt("claimUnregisteredContract") EXCEPT !.addr = x3],
     Jwt("updateContract"), Jwt("updateContractABI"), Jwt("updateContractAllowVisibleToUnlock"),
     Super("updateContractEventsAllowDynamicPayload"), Jwt("deleteContract"), Jwt("deleteStaleContracts"),
     [Jwt("createContractGrant") EXCEPT !.g = gRo1, !.events = Rule(Self)],
     [Jwt("createContractGrant") EXCEPT !.g = gRo1, !.events = Rule(x2)],
     [Jwt("createContractGrant") EXCEPT !.g = gRo1, !.events = Rule(a1)],
     [Jwt("createContractGrant") EXCEPT !.g = gReg2],
     [Jwt("updateContractGrant") EXCEPT !.events = Rule(Self)],
     [Jwt("updateContractGrant") EXCEPT !.functions = ("s1" :> TRUE), !.fields = {"functions"}],
     Jwt("deleteContractGrant"),
     [Jwt("batchMoveContracts") EXCEPT !.g = gRo1], [Jwt("batchMoveContracts") EXCEPT !.g = Nil],
     [Jwt("batchMoveContracts") EXCEPT !.g = gReg2]}

UserWrites ==
    {NoOrg([Jwt("updateRBACUser") EXCEPT !.banned = TRUE]), NoOrg([Jwt("updateRBACUser") EXCEPT !.kyc = TRUE]),
     NoOrg([Jwt("updateRBACUser") EXCEPT !.u = uB, !.banned = TRUE]),
     NoOrg([Super("updateRBACUser") EXCEPT !.u = uA, !.banned = TRUE]),
     NoOrg(Jwt("deleteRBACUser")), NoOrg([Jwt("createUserMembership") EXCEPT !.g = gRo1, !.until = 2]),
     NoOrg([Jwt("createUserMembership") EXCEPT !.g = gAdm1]), NoOrg([Jwt("createUserMembership") EXCEPT !.g = gReg2]),
     NoOrg([Operator("createUserMembership") EXCEPT !.g = gAdm1]), NoOrg(Operator("createUserMembership")),
     NoOrg([Operator("deleteUserMembership") EXCEPT !.m = <<uA, gAdm1>>, !.u = uA]),
     [Jwt("createMembershipByDID") EXCEPT !.target = "dN"], [Jwt("createMembershipByDID") EXCEPT !.g = gAuto1],
     Jwt("deleteMembershipByDID"), NoOrg(Jwt("deleteUserMembership")),
     NoOrg([Jwt("deleteUserMembership") EXCEPT !.m = <<uM, gReg2>>])}

SystemWrites ==
    {NoOrg(Super("createAzureTenant")), NoOrg([Super("updateAzureTenant") EXCEPT !.fields = {"auto"}]),
     NoOrg(Super("deleteAzureTenant")), NoOrg(Jwt("createAzureTenant")),
     NoOrg([Super("createSharedInfrastructure") EXCEPT !.addr = x3]),
     NoOrg([Super("updateSharedInfrastructure") EXCEPT !.addr = x2]),
     NoOrg([Super("deleteSharedInfrastructure") EXCEPT !.addr = x2]),
     NoOrg([Super("refreshSharedInfraCodehash") EXCEPT !.addr = x2]),
     NoOrg(Super("handlePostEthCallTracing")), NoOrg(Jwt("handlePostEthCallTracing")),
     NoOrg(Super("handlePostIntraOrgGrantTracing"))}

Identities ==
    {[Jwt("createMembershipByDID") EXCEPT !.target = "dN"],
     Azure("handleAzureAuthURL", Nil), [Azure("handleAzureCallback", "dZ") EXCEPT !.nonce = "nS"],
     Azure("handleAzureServicePrincipal", "dN"), Azure("handleAzureServicePrincipal", "dZ"),
     Subject("handleEthLinkChallenge", "dM"), [Subject("handleEthLinkVerify", "dM") EXCEPT !.addr = x3],
     [Subject("handleEthLinkVerify", "dB") EXCEPT !.nonce = "nB", !.addr = a1],
     [Subject("handleEthLinkVerify", "dB") EXCEPT !.addr = x3],
     [Subject("handleDeleteEthAddress", "dM") EXCEPT !.addr = a1],
     [Subject("handleRefreshENS", "dM") EXCEPT !.addr = a1],
     Subject("handleGetEthAddresses", "dM"), Subject("getMyAdminStatus", "dA"),
     Subject("getMyOrganizations", "dM"),
     Get("impersonate"), [Get("impersonate") EXCEPT !.target = "dB"], [Get("impersonate") EXCEPT !.did = "dR"]}

Reads ==
    {Get(op) : op \in {"listOrganizations", "getOrganization", "listGroups", "getGroup", "getGroupAccess",
                       "listContracts", "getContract", "listContractEvents", "getContractGrantSummary",
                       "listContractGrants", "lookupContractByAddress"}}
    \cup {[Get("lookupContractByAddress") EXCEPT !.addr = x2], [Get("getGroup") EXCEPT !.g = gReg2],
          Jwt("batchDeletePreview"), Jwt("checkContractsOnChain"), [Get("getContract") EXCEPT !.did = "dR"],
          [Operator("listGroups") EXCEPT !.get = TRUE]}
    \cup {NoOrg(Get(op)) : op \in {"listRBACUsers", "getRBACUser", "getUserLinkedAddresses",
                                   "listUserMemberships", "getEthAddressCollisions"}}
    \cup {NoOrg([Get("listRBACUsers") EXCEPT !.filter = o2]), NoOrg([Get("listRBACUsers") EXCEPT !.role = "member"]),
          NoOrg([Get("getRBACUser") EXCEPT !.u = uB]),
          NoOrg([Get("getEffectivePermissions") EXCEPT !.slug = "one"]),
          NoOrg([Get("getEffectivePermissions") EXCEPT !.slug = "two"]),
          NoOrg([Jwt("checkAccessAPI") EXCEPT !.slug = "one"]),
          NoOrg(Get("listAzureTenants")), NoOrg([Super("getAzureTenant") EXCEPT !.get = TRUE]),
          NoOrg(Super("listSharedInfrastructure")), NoOrg([Super("getSharedInfrastructure") EXCEPT !.addr = x2]),
          NoOrg(Get("handleGetEthCallTracing")), NoOrg(Get("handleGetIntraOrgGrantTracing"))}

\* The requests that change what others have just read.
Disturbing ==
    {[Super("updateGroup") EXCEPT !.admin = TRUE], Jwt("deleteGroup"), Jwt("setGroupAccess"),
     Jwt("deleteContract"), NoOrg(Jwt("deleteRBACUser")),
     [Jwt("createContractGrant") EXCEPT !.g = gRo1, !.events = Rule(Self)],
     NoOrg(Jwt("deleteUserMembership"))}

IdentityDisturbing ==
    {NoOrg(Super("deleteAzureTenant")), Azure("handleAzureServicePrincipal", "dN"),
     [Subject("handleEthLinkVerify", "dM") EXCEPT !.addr = x3],
     [Subject("handleDeleteEthAddress", "dM") EXCEPT !.addr = a1], NoOrg(Jwt("deleteUserMembership"))}

Load(p, q, resolves, horizon) ==
    [calls |-> (c1 :> p @@ c2 :> q), db |-> Warm, open |-> FALSE, strict |-> FALSE, autoKYC |-> TRUE,
     resolves |-> resolves, horizon |-> horizon, ens |-> "name",
     receipts |-> ("h1" :> [address |-> x3, from |-> a1]), code |-> {x2, x3},
     tickets |-> "nM" :> [did |-> "dM", at |-> 1] @@ "nB" :> [did |-> "dB", at |-> 1]
                 @@ "nS" :> [did |-> Nil, at |-> 1]]

\* Workloads about rights, identities, reads, and time passing.
Workloads ==
    {Load(p, q, {<<uM, o1>>}, 1) : p \in Writes \cup UserWrites, q \in Disturbing}
    \cup {Load(p, q, {}, 1) : p \in SystemWrites \cup Identities, q \in IdentityDisturbing}
    \cup {Load(p, q, {}, 1) : p \in Reads, q \in Disturbing}
    \cup {[Load(p, q, {<<uM, o1>>}, 4) EXCEPT !.strict = TRUE] :
             p \in {NoOrg([Jwt("createUserMembership") EXCEPT !.g = gRo1, !.until = 2]),
                    [Subject("handleEthLinkVerify", "dM") EXCEPT !.addr = x3], Get("impersonate")},
             q \in {Jwt("setGroupAccess")}}

Catalog == {"eth_call", "eth_send"}

Claims == "eth_call" :> "none" @@ "eth_send" :> "deploy" @@ "admin_peers" :> "none"

=============================================================================
