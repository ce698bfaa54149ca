----------------------------- MODULE Directory -----------------------------
(***************************************************************************)
(* The tables of role-based access (organizations, groups and their        *)
(* access, users, memberships, contracts, grants, Azure tenants, shared    *)
(* infrastructure, linked addresses, refresh tokens, the published         *)
(* permission rows and the administrative audit log) and the store         *)
(* functions over them.  A store function that writes is an operator from  *)
(* one database to the next, one that reads an operator on a database; a   *)
(* handler combines them in RbacAdmin and AdminIdentity.                   *)
(*                                                                         *)
(* A table is a function from the identifiers of its rows to the rows.     *)
(* Identifiers are fresh (UUIDs), so a row that is deleted and made again  *)
(* is another row; a missing row reads as Nil.                             *)
(***************************************************************************)
EXTENDS Integers, FiniteSets, FiniteSetsExt, Functions, TLC

CONSTANTS
    Nil,            \* no row, no value (NULL)
    Self,           \* the parameter rule must_be = "self"
    DefaultOrg,     \* rbac.DefaultOrgID
    DefaultGroup,   \* rbac.DefaultGroupID
    AnonymousGroup, \* rbac.AnonymousGroupID
    CacheTTL        \* how long a published permission row may be used

ASSUME DirectoryAssumption == CacheTTL \in Nat \ {0}

----------------------------------------------------------------------------
(* Tables                                                                  *)

\* A table without the rows of S.
Without(t, S) == Restrict(t, DOMAIN t \ S)

\* The row id of table t, or Nil.
Row(t, id) == IF id \in DOMAIN t THEN t[id] ELSE Nil

\* The foreign keys of the schema are ON DELETE CASCADE: what a removed
\* group, contract or user takes along.
CascadeGroups(d, gs) ==
    [d EXCEPT !.groups  = Without(@, gs),
              !.access  = Without(@, gs),
              !.members = Without(@, {m \in DOMAIN @ : @[m].group \in gs}),
              !.grants  = Without(@, {k \in DOMAIN @ : @[k].group \in gs}),
              !.tenants = [t \in DOMAIN @ |->
                  IF @[t].group \in gs THEN [@[t] EXCEPT !.group = Nil] ELSE @[t]]]

CascadeContracts(d, ks) ==
    [d EXCEPT !.contracts = Without(@, ks),
              !.grants    = Without(@, {k \in DOMAIN @ : @[k].contract \in ks})]

----------------------------------------------------------------------------
(* Organizations                                                           *)

GetOrganization(d, o) == Row(d.orgs, o)

GetOrganizationBySlug(d, slug) ==
    LET found == {o \in DOMAIN d.orgs : d.orgs[o].slug = slug} IN
    IF found = {} THEN Nil ELSE CHOOSE o \in found : TRUE

OrgSlugTaken(d, o, slug) == GetOrganizationBySlug(d, slug) \notin {Nil, o}

CreateOrganization(d, o, row) == [d EXCEPT !.orgs = (o :> row) @@ @]

UpdateOrganization(d, o, row) ==
    IF o \in DOMAIN d.orgs THEN [d EXCEPT !.orgs[o].slug = row.slug] ELSE d

ListOrganizationsPaginated(d) == DOMAIN d.orgs

\* An empty list of identifiers lists nothing, not everything.
ListOrganizationsByIDs(d, ids) == DOMAIN d.orgs \cap ids

DeleteOrganization(d, o) ==
    LET d1 == CascadeGroups(d, {g \in DOMAIN d.groups : d.groups[g].org = o})
        d2 == CascadeContracts(d1, {k \in DOMAIN d.contracts : d.contracts[k].org = o})
    IN  [d2 EXCEPT !.orgs    = Without(@, {o}),
                   !.cached  = Without(@, {p \in DOMAIN @ : p[2] = o}),
                   !.tenants = [t \in DOMAIN @ |->
                       IF @[t].org = o THEN [@[t] EXCEPT !.org = Nil] ELSE @[t]]]

----------------------------------------------------------------------------
(* Groups and their access rows                                            *)

GetGroup(d, g) == Row(d.groups, g)

\* groups_org_id_slug_key (and the unique name, which goes with the slug).
GroupSlugTaken(d, g, org, slug) ==
    \E h \in DOMAIN d.groups \ {g} : d.groups[h].org = org /\ d.groups[h].slug = slug

CreateGroup(d, g, row) == [d EXCEPT !.groups = (g :> row) @@ @]

\* The whole row read before is written back.
UpdateGroup(d, g, row) ==
    IF g \in DOMAIN d.groups THEN [d EXCEPT !.groups[g] = row] ELSE d

ListGroupsWithAccessFiltered(d, org) == {g \in DOMAIN d.groups : d.groups[g].org = org}

GetGroupAccess(d, g) == Row(d.access, g)

CreateGroupAccess(d, g, row) == [d EXCEPT !.access = (g :> row) @@ @]

\* An upsert: INSERT ... ON CONFLICT (group_id) DO UPDATE.
UpdateGroupAccess(d, g, row) == [d EXCEPT !.access = (g :> row) @@ @]

DeleteGroup(d, g) == CascadeGroups(d, {g})

\* tx.GetGroupsByIDs: those of the identifiers that are groups of org.
GetGroupsByIDs(d, org, ids) == {g \in ids \cap DOMAIN d.groups : d.groups[g].org = org}

----------------------------------------------------------------------------
(* Users                                                                   *)

GetUser(d, u) == Row(d.users, u)

\* The identifier of the user with an external identifier (DID), or Nil.
GetUserByExternalID(d, did) ==
    LET found == {u \in DOMAIN d.users : d.users[u].did = did} IN
    IF found = {} THEN Nil ELSE CHOOSE u \in found : TRUE

CreateUser(d, u, row) == [d EXCEPT !.users = (u :> row) @@ @]

\* Writes kyc, banned, note and metadata, not the tenant.
UpdateUser(d, u, row) ==
    IF u \in DOMAIN d.users
    THEN [d EXCEPT !.users[u].kyc = row.kyc, !.users[u].banned = row.banned]
    ELSE d

\* Binds a tenant once: only WHERE auth_tenant_id IS NULL.
SetAuthTenantID(d, u, tenant) ==
    IF u \in DOMAIN d.users /\ d.users[u].tenant = Nil
    THEN [d EXCEPT !.users[u].tenant = tenant]
    ELSE d

BanUsersByTenantID(d, tenant) ==
    [d EXCEPT !.users = [u \in DOMAIN @ |->
        IF @[u].tenant = tenant THEN [@[u] EXCEPT !.banned = TRUE] ELSE @[u]]]

RevokeRefreshTokensBySubject(d, did) == [d EXCEPT !.tokens = @ \ {did}]

RevokeRefreshTokensByTenantID(d, tenant) ==
    [d EXCEPT !.tokens = @ \ {d.users[u].did : u \in {v \in DOMAIN d.users : d.users[v].tenant = tenant}}]

DeleteUser(d, u) ==
    [d EXCEPT !.users   = Without(@, {u}),
              !.members = Without(@, {m \in DOMAIN @ : @[m].user = u}),
              !.cached  = Without(@, {p \in DOMAIN @ : p[1] = u})]

----------------------------------------------------------------------------
(* Memberships.  until = 0 is a membership without an end.                 *)

\* m.expires_at IS NULL OR m.expires_at > NOW()
Active(d, m) == d.members[m].until = 0 \/ d.members[m].until > d.now

GetMembership(d, m) == Row(d.members, m)

GetMembershipByUserAndGroup(d, u, g) ==
    LET found == {m \in DOMAIN d.members : d.members[m].user = u /\ d.members[m].group = g} IN
    IF found = {} THEN Nil ELSE CHOOSE m \in found : TRUE

\* The insert is refused: the pair exists, or one of its ends does not.
MembershipRefused(d, u, g) ==
    \/ GetMembershipByUserAndGroup(d, u, g) # Nil
    \/ u \notin DOMAIN d.users
    \/ g \notin DOMAIN d.groups

CreateMembership(d, m, row) == [d EXCEPT !.members = (m :> row) @@ @]

CreateMembershipIfNotExists(d, m, row) ==
    IF MembershipRefused(d, row.user, row.group) THEN d ELSE CreateMembership(d, m, row)

DeleteMembership(d, m) == [d EXCEPT !.members = Without(@, {m})]

ListUserMemberships(d, u) == {m \in DOMAIN d.members : d.members[m].user = u}

ListUserMembershipsWithDetails(d, u) == ListUserMemberships(d, u)

ListActiveUserMemberships(d, u) == {m \in ListUserMemberships(d, u) : Active(d, m)}

ListUserMembershipsInOrg(d, u, o) ==
    {m \in ListActiveUserMemberships(d, u) : d.groups[d.members[m].group].org = o}

ListGroupMembers(d, g) == {m \in DOMAIN d.members : d.members[m].group = g}

\* A scope is every organization or the ones it names.
InScope(s, o) == s.all \/ o \in s.orgs

ListGroupMembershipsForUsers(d, us, s) ==
    {m \in DOMAIN d.members :
        d.members[m].user \in us /\ InScope(s, d.groups[d.members[m].group].org)}

IsUserInOrg(d, u, o) == ListUserMembershipsInOrg(d, u, o) # {}

\* The organizations a user is an active member of.
GetUserOrgIDs(d, u) ==
    {d.groups[d.members[m].group].org : m \in ListActiveUserMemberships(d, u)}

\* The organizations whose org-admin groups a user is an active member of.
IsOrgAdmin(d, u) ==
    {d.groups[d.members[m].group].org :
        m \in {n \in ListActiveUserMemberships(d, u) : d.groups[d.members[n].group].admin}}

IsOrgReadonlyAdmin(d, u) ==
    {d.groups[d.members[m].group].org :
        m \in {n \in ListActiveUserMemberships(d, u) : d.groups[d.members[n].group].readonly}}

DeleteExpiredMemberships(d) ==
    [d EXCEPT !.members = Without(@, {m \in DOMAIN @ : @[m].until # 0 /\ @[m].until < d.now})]

\* The users a filtered list shows: in the organization asked for, holding the
\* role asked for, and with a membership in one of the caller's organizations.
\* Nothing writes the claims of a grant, so nobody has the role "admin"; the
\* search text and the groups asked for, which only narrow, are left out.
ListUsersFilteredPaginated(d, filter, s) ==
    LET orgs(u)  == {d.groups[d.members[m].group].org : m \in ListUserMemberships(d, u)}
        admin(u) == \E m \in ListUserMemberships(d, u) :
                        LET g == d.groups[d.members[m].group] IN g.admin /\ InScope(s, g.org)
    IN  {u \in DOMAIN d.users :
            /\ filter.org = Nil \/ filter.org \in orgs(u)
            /\ s.all \/ orgs(u) \cap s.orgs # {}
            /\ filter.role = "org_admin" => admin(u)
            /\ filter.role # "admin"
            /\ filter.role = "member" => orgs(u) # {} /\ ~admin(u)}

----------------------------------------------------------------------------
(* Contracts and grants                                                    *)

GetContract(d, k) == Row(d.contracts, k)

\* LOWER(address) is unique over all organizations.
ContractAt(d, addr) ==
    LET found == {k \in DOMAIN d.contracts : d.contracts[k].addr = addr} IN
    IF found = {} THEN Nil ELSE CHOOSE k \in found : TRUE

GetContractByAddress(d, org, addr) ==
    LET k == ContractAt(d, addr) IN
    IF k # Nil /\ d.contracts[k].org = org THEN k ELSE Nil

GetContractOwnerOrgID(d, addr) ==
    LET k == ContractAt(d, addr) IN IF k = Nil THEN Nil ELSE d.contracts[k].org

ContractRefused(d, org, addr) == ContractAt(d, addr) # Nil \/ org \notin DOMAIN d.orgs

CreateContract(d, k, row) == [d EXCEPT !.contracts = (k :> row) @@ @]

\* Writes the name, the ABI and the metadata of the row read before.
UpdateContract(d, k, row) ==
    IF k \in DOMAIN d.contracts
    THEN [d EXCEPT !.contracts[k].name = row.name, !.contracts[k].abi = row.abi]
    ELSE d

UpdateContractABI(d, k, abi) ==
    IF k \in DOMAIN d.contracts THEN [d EXCEPT !.contracts[k].abi = abi] ELSE d

UpdateContractAllowVisibleToUnlock(d, k, flag) ==
    IF k \in DOMAIN d.contracts THEN [d EXCEPT !.contracts[k].unlock = flag] ELSE d

UpdateContractEventsAllowDynamicPayload(d, k, flag) ==
    IF k \in DOMAIN d.contracts THEN [d EXCEPT !.contracts[k].dynamic = flag] ELSE d

DeleteContract(d, k) == CascadeContracts(d, {k})

ListContracts(d, org) == {k \in DOMAIN d.contracts : d.contracts[k].org = org}

GetContractsByIDs(d, ks) == ks \cap DOMAIN d.contracts

GetContractGrantByContractAndGroup(d, k, g) ==
    LET found == {n \in DOMAIN d.grants : d.grants[n].contract = k /\ d.grants[n].group = g} IN
    IF found = {} THEN Nil ELSE CHOOSE n \in found : TRUE

\* mutant: the pair is not unique
GrantTwice(d, k, g) == k \notin DOMAIN d.contracts \/ g \notin DOMAIN d.groups

GrantRefused(d, k, g) ==
    \/ GetContractGrantByContractAndGroup(d, k, g) # Nil
    \/ k \notin DOMAIN d.contracts
    \/ g \notin DOMAIN d.groups

CreateContractGrant(d, n, row) == [d EXCEPT !.grants = (n :> row) @@ @]

UpdateContractGrant(d, n, row) ==
    IF n \in DOMAIN d.grants
    THEN [d EXCEPT !.grants[n].functions = row.functions, !.grants[n].events = row.events]
    ELSE d

DeleteContractGrant(d, n) == [d EXCEPT !.grants = Without(@, {n})]

ListContractGrantsByContract(d, k) == {n \in DOMAIN d.grants : d.grants[n].contract = k}

ListContractGrantsByGroup(d, g) == {n \in DOMAIN d.grants : d.grants[n].group = g}

CountContractGrantsByGroup(d, g) == Cardinality(ListContractGrantsByGroup(d, g))

GetAutoCreatedGroupIDsForContracts(d, ks) ==
    {g \in {d.grants[n].group : n \in {m \in DOMAIN d.grants : d.grants[m].contract \in ks}} :
        d.groups[g].auto}

\* ON CONFLICT DO NOTHING; a missing end aborts the transaction, which the
\* caller has excluded.
CreateContractGrantIfNotExists(d, n, row) ==
    IF GetContractGrantByContractAndGroup(d, row.contract, row.group) # Nil
    THEN d ELSE CreateContractGrant(d, n, row)

DeleteContractGrantsByContractAndGroups(d, k, gs) ==
    [d EXCEPT !.grants = Without(@, {n \in DOMAIN @ : @[n].contract = k /\ @[n].group \in gs})]

----------------------------------------------------------------------------
(* Published permission rows: [<<user, org>> -> permissions]               *)

InvalidateCacheForUser(d, u) == [d EXCEPT !.cached = Without(@, {p \in DOMAIN @ : p[1] = u})]

InvalidateCacheForOrg(d, o) == [d EXCEPT !.cached = Without(@, {p \in DOMAIN @ : p[2] = o})]

\* The rows of the users who are members of the group when it runs.
InvalidateCacheForGroup(d, g) ==
    LET us == {d.members[m].user : m \in ListGroupMembers(d, g)} IN
    [d EXCEPT !.cached = Without(@, {p \in DOMAIN @ : p[1] \in us})]

\* One transaction: the rows of the members go before the memberships.
DeleteGroupWithDependenciesTx(d, g) == DeleteGroup(InvalidateCacheForGroup(d, g), g)

DeleteGroupAndInvalidate(d, g) == DeleteGroup(InvalidateCacheForGroup(d, g), g)

DeleteContractAndInvalidate(d, k, org) == InvalidateCacheForOrg(DeleteContract(d, k), org)

DeleteContractGrantAndInvalidate(d, n, g) == DeleteContractGrant(InvalidateCacheForGroup(d, g), n)

----------------------------------------------------------------------------
(* Linked addresses: [<<did, address>> -> [revoked, kind, ens, at]]        *)

\* Inserts or refreshes the pair unless it is revoked.
LinkRevoked(d, did, addr) == <<did, addr>> \in DOMAIN d.links /\ d.links[<<did, addr>>].revoked

LinkEthAddress(d, did, addr) ==
    [d EXCEPT !.links = (<<did, addr>> :> [revoked |-> FALSE, kind |-> "user", ens |-> Nil, at |-> d.now]) @@ @]

GetEthAddressesByDID(d, did) ==
    {p[2] : p \in {q \in DOMAIN d.links : q[1] = did /\ ~d.links[q].revoked}}

GetDIDsByEthAddress(d, addr) ==
    {p[1] : p \in {q \in DOMAIN d.links : q[2] = addr /\ ~d.links[q].revoked}}

\* One of them: links made by users first, the latest first.
GetDIDByEthAddress(d, addr) ==
    LET dids == GetDIDsByEthAddress(d, addr)
        link(did) == d.links[<<did, addr>>]
        users == {e \in dids : link(e).kind = "user"}
        best == IF users = {} THEN dids ELSE users
    IN  IF dids = {} THEN Nil
        ELSE CHOOSE e \in best : \A f \in best : link(e).at >= link(f).at

GetEthAddressLinkForDID(d, did, addr) ==
    IF addr \in GetEthAddressesByDID(d, did) THEN d.links[<<did, addr>>] ELSE Nil

RevokeEthAddressLink(d, did, addr) == [d EXCEPT !.links[<<did, addr>>].revoked = TRUE]

\* Every pair of the address that is not revoked.
UpdateENSName(d, addr, name) ==
    [d EXCEPT !.links = [p \in DOMAIN @ |->
        IF p[2] = addr /\ ~@[p].revoked THEN [@[p] EXCEPT !.ens = name] ELSE @[p]]]

\* Addresses that more than one DID has linked.
GetAddressLinkCollisions(d) ==
    {a \in {p[2] : p \in DOMAIN d.links} : Cardinality(GetDIDsByEthAddress(d, a)) > 1}

\* The organizations of the users who have linked an address.
GetOrgIDsForEthAddress(d, addr) ==
    UNION {GetUserOrgIDs(d, GetUserByExternalID(d, did)) :
              did \in {e \in GetDIDsByEthAddress(d, addr) : GetUserByExternalID(d, e) # Nil}}

----------------------------------------------------------------------------
(* Azure tenants, shared infrastructure, tokens, audit log                 *)

GetAllowedAzureTenant(d, t) == Row(d.tenants, t)

GetAllowedAzureTenantByTenantID(d, tenant) ==
    LET found == {t \in DOMAIN d.tenants : d.tenants[t].tenant = tenant} IN
    IF found = {} THEN Nil ELSE d.tenants[CHOOSE t \in found : TRUE]

\* tenant_id is unique; the default organization and group are references.
TenantRefused(d, t, row) ==
    \/ \E s \in DOMAIN d.tenants \ {t} : d.tenants[s].tenant = row.tenant
    \/ row.org \notin DOMAIN d.orgs \cup {Nil}
    \/ row.group \notin DOMAIN d.groups \cup {Nil}

CreateAllowedAzureTenant(d, t, row) == [d EXCEPT !.tenants = (t :> row) @@ @]

UpdateAllowedAzureTenant(d, t, row) == [d EXCEPT !.tenants[t] = row]

DeleteAllowedAzureTenant(d, t) == [d EXCEPT !.tenants = Without(@, {t})]

GetSharedInfrastructure(d, addr) == Row(d.infra, addr)

CreateSharedInfrastructure(d, addr, row) == [d EXCEPT !.infra = (addr :> row) @@ @]

UpdateSharedInfrastructure(d, addr, row) == [d EXCEPT !.infra[addr] = row]

DeleteSharedInfrastructure(d, addr) == [d EXCEPT !.infra = Without(@, {addr})]

SaveRefreshToken(d, did) == [d EXCEPT !.tokens = @ \cup {did}]

\* What the entry says beyond who did what is left to RbacAuditChain.
CreateAuditLog(d, entry) == [d EXCEPT !.audit = @ \cup {entry}]

----------------------------------------------------------------------------
(* Effective permissions (rbac.Resolver).  A function rule or an event     *)
(* rule is its selector or topic with whether parameters restrict it.      *)

\* nil functions allow every function.  A selector both sides restrict
\* stays restricted (to the first side's parameters).
unionFunctions(a, b) ==
    IF a = Nil \/ b = Nil THEN Nil
    ELSE [s \in DOMAIN a \cup DOMAIN b |->
            (s \in DOMAIN a => a[s]) /\ (s \in DOMAIN b => b[s])]

\* Events are denied unless a rule allows them.
unionEventRules(a, b) ==
    IF a.kind = "wildcard" \/ b.kind = "wildcard" THEN [kind |-> "wildcard", rules |-> <<>>]
    ELSE IF a.kind = "deny" THEN b
    ELSE IF b.kind = "deny" THEN a
    ELSE [kind |-> "rules",
          rules |-> [t \in DOMAIN a.rules \cup DOMAIN b.rules |->
                       IF t \in DOMAIN a.rules /\ t \in DOMAIN b.rules
                       THEN IF a.rules[t] = Nil \/ b.rules[t] = Nil THEN Nil ELSE a.rules[t]
                       ELSE IF t \in DOMAIN a.rules THEN a.rules[t] ELSE b.rules[t]]]

unionContractAccess(a, b) ==
    [x \in DOMAIN a \cup DOMAIN b |->
        IF x \notin DOMAIN b THEN a[x]
        ELSE IF x \notin DOMAIN a THEN b[x]
        ELSE [claims    |-> a[x].claims \cup b[x].claims,
              functions |-> unionFunctions(a[x].functions, b[x].functions),
              events    |-> unionEventRules(a[x].events, b[x].events)]]

\* admin implies deploy and upgrade.
ExpandClaims(cs) == cs \cup (IF "admin" \in cs THEN {"deploy", "upgrade"} ELSE {})

AllClaims == {"admin", "deploy", "upgrade"}

\* membershipGroupIDs: the groups of a set of memberships.
membershipGroupIDs(d, ms) == {d.members[m].group : m \in ms}

\* What one group gives: its access row, and a contract for every grant.
groupPerms(d, g, withGrants) ==
    LET a == GetGroupAccess(d, g)
        granted == IF withGrants THEN ListContractGrantsByGroup(d, g) ELSE {}
        addrOf(n) == d.contracts[d.grants[n].contract].addr
        claims == IF a = Nil THEN {} ELSE a.claims
    IN  [methods   |-> IF a = Nil THEN {} ELSE a.methods,
         claims    |-> claims,
         contracts |-> [x \in {addrOf(n) : n \in granted} |->
             LET n == CHOOSE n \in granted : addrOf(n) = x IN
             [claims |-> claims, functions |-> d.grants[n].functions, events |-> d.grants[n].events]]]

\* mutant: the ends of the memberships are ignored
ExpiryIgnoresEnds(d, ms) == d.now + CacheTTL

\* The row is used until the cache's lifetime or the first membership ends.
cacheExpiry(d, ms) ==
    Min({d.now + CacheTTL} \cup ({d.members[m].until : m \in ms} \ {0}))

\* An org admin holds every claim on every contract of the organization; the
\* methods are those of the groups.
computeOrgAdminPermissions(d, org, ms) ==
    [methods   |-> UNION {groupPerms(d, g, FALSE).methods : g \in membershipGroupIDs(d, ms)},
     claims    |-> AllClaims,
     contracts |-> [x \in {d.contracts[k].addr : k \in ListContracts(d, org)} |->
                       [claims |-> AllClaims, functions |-> Nil, events |-> [kind |-> "deny", rules |-> <<>>]]],
     expires   |-> cacheExpiry(d, ms)]

computePermissions(d, u, org) ==
    LET ms == ListUserMembershipsInOrg(d, u, org)
        gs == membershipGroupIDs(d, ms)
        join(g, acc) == unionContractAccess(acc, groupPerms(d, g, TRUE).contracts)
    IN  IF \E g \in gs : d.groups[g].admin
        THEN computeOrgAdminPermissions(d, org, ms)
        ELSE [methods   |-> UNION {groupPerms(d, g, TRUE).methods : g \in gs},
              claims    |-> ExpandClaims(UNION {groupPerms(d, g, TRUE).claims : g \in gs}),
              contracts |-> FoldSet(join, <<>>, gs),
              expires   |-> cacheExpiry(d, ms)]

\* A published row is served while it lasts, else computed and published.
\* That no row computed before an invalidation is published after it is the
\* subject of PermissionCache.
ResolvePermissions(d, u, org) ==
    IF <<u, org>> \in DOMAIN d.cached /\ d.cached[<<u, org>>].expires > d.now
    THEN d
    ELSE [d EXCEPT !.cached = (<<u, org>> :> computePermissions(d, u, org)) @@ @]

============================================================================
