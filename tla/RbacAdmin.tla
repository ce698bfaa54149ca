----------------------------- MODULE RbacAdmin -----------------------------
(***************************************************************************)
(* The administration API of role-based access: organizations, groups and  *)
(* their access, users and memberships, contracts and grants, served to    *)
(* three kinds of callers (a user with an admin JWT, the super admin's     *)
(* token, the operator's token).                                           *)
(*                                                                         *)
(* A call is a process.  The middleware authenticates it and reads, once,  *)
(* which organizations the caller administers (pc "admitted").  A handler  *)
(* then reads rows and decides (pc "checked", seen = the database it       *)
(* read), writes (pc "written") and finishes with the invalidation and the *)
(* audit row (pc "done"); each of these is one step, as each is one        *)
(* statement or one transaction, and calls interleave between them.  The   *)
(* reads before the first write are one step: rows are read by identifiers *)
(* that are never reused and no row ever changes organization.             *)
(*                                                                         *)
(* load is the workload: the database the run begins with, the request of  *)
(* every call, the permissions that requests resolve meanwhile, the code   *)
(* on chain, and how far the clock goes.  It never changes.                *)
(***************************************************************************)
EXTENDS Directory

CONSTANTS
    Calls,         \* identifiers of calls, and of the rows they create
    Loads,         \* the workloads
    BadSlug,       \* a slug validateSlug refuses
    BadTopic,      \* a topic that is not a 32-byte hash
    CatalogMethods,\* the built-in RPC methods
    Passthrough,   \* further methods, which only the super tier may hand out
    MethodClaim,   \* the claim a method requires, or "none"
    MaxCustomRules \* maxCustomAddressParamRules

VARIABLES
    load,    \* the workload
    db,      \* the tables
    pc,      \* where each call is
    scope,   \* [full, read]: the organizations the middleware found
    seen,    \* the database as the handler read it
    shown    \* [orgs, users]: whose rows a reading call was answered with

adminVars == <<load, db, pc, scope, seen, shown>>

----------------------------------------------------------------------------
(* Callers                                                                 *)

In(c) == load.calls[c]

jwt(c) == In(c).by = "jwt_admin"

operator(c) == In(c).by = "operator_token"

\* The super admin's token, or no token configured at all.
requireSuperAdmin(c) == In(c).by \in {"admin_token", ""}

Scoped(c) == scope[c].full \cup scope[c].read

\* requireTargetInScope and inScope: any admin of the organization, for reads.
inScope(c, org) == jwt(c) => org \in Scoped(c)

\* requireFullAdminInScope: a full admin of the organization, for writes.
requireFullAdminInScope(c, org) == jwt(c) => org \in scope[c].full

denyOperatorOrgScoped(c) == operator(c) /\ In(c).org # DefaultOrg

denyOperatorTenantRead(c) == operator(c) /\ In(c).org # DefaultOrg

denyOperatorRegularGroup(c, g, row) ==
    /\ operator(c)
    /\ ~(row.admin \/ row.readonly \/ row.system \/ g = DefaultGroup)

denyJWTAdminTouchOrgAdminGroup(c, row) == jwt(c) /\ row.admin

\* A user is in scope through an active membership in an organization of it.
requireUserInCallerScope(c, u) == jwt(c) => GetUserOrgIDs(db, u) \cap Scoped(c) # {}

requireUserInFullAdminScope(c, u) == jwt(c) => GetUserOrgIDs(db, u) \cap scope[c].full # {}

isSelfBanAttempt(c, u) == jwt(c) /\ db.users[u].did = In(c).did

\* mutant: a group is taken from any organization
AnyPathOrg(c, row) == row # Nil

verifyGroupBelongsToPathOrg(c, row) == row # Nil /\ In(c).org # Nil /\ row.org = In(c).org

validateSlug(slug) == slug # BadSlug

----------------------------------------------------------------------------
(* Steps of a call                                                         *)

At(c, op, label) == In(c).op = op /\ pc[c] = label

Go(c, label, d) ==
    /\ pc' = [pc EXCEPT ![c] = label]
    /\ db' = d
    /\ UNCHANGED <<load, scope, shown>>

\* The handler reads and decides.
Begin(c, op, ok) ==
    /\ At(c, op, "admitted")
    /\ Go(c, IF ok THEN "checked" ELSE "refused", db)
    /\ seen' = [seen EXCEPT ![c] = db]

\* It writes, unless the database refuses (isUniqueViolation, a lost
\* reference).
Commit(c, op, refused, d) ==
    /\ At(c, op, "checked")
    /\ Go(c, IF refused THEN "refused" ELSE "written", IF refused THEN db ELSE d)
    /\ UNCHANGED seen

\* A write that nothing follows.
CommitLast(c, op, refused, d) ==
    /\ At(c, op, "checked")
    /\ Go(c, IF refused THEN "refused" ELSE "done", IF refused THEN db ELSE d)
    /\ UNCHANGED seen

\* It invalidates and records, and answers.
Finish(c, op, d) ==
    /\ At(c, op, "written")
    /\ Go(c, "done", d)
    /\ UNCHANGED seen

\* A handler that only reads answers in one step.
Answer(c, op, ok, rows) ==
    /\ At(c, op, "admitted")
    /\ pc' = [pc EXCEPT ![c] = IF ok THEN "done" ELSE "refused"]
    /\ shown' = [shown EXCEPT ![c] = IF ok THEN rows ELSE @]
    /\ seen' = [seen EXCEPT ![c] = db]
    /\ UNCHANGED <<load, db, scope>>

Rows(orgs, users) == [orgs |-> orgs, users |-> users]

recordAuditAction(d, c) == CreateAuditLog(d, c)

----------------------------------------------------------------------------
(* Middleware                                                              *)

\* The credential: a configured token, none where none is configured, or the
\* JWT of an unbanned user who administers some organization.
adminAuthMiddleware(d, c) ==
    \/ In(c).by \in {"admin_token", "operator_token"}
    \/ In(c).by = "" /\ load.open
    \/ /\ jwt(c)
       /\ LET u == GetUserByExternalID(d, In(c).did) IN
          /\ u # Nil
          /\ ~d.users[u].banned
          /\ IsOrgAdmin(d, u) \cup IsOrgReadonlyAdmin(d, u) # {}

\* The organization of the path must be one the caller administers, and a
\* request that is not a GET needs full administration (of some organization,
\* when the path names none).
orgScopingMiddleware(c, full, read) ==
    jwt(c) => /\ In(c).org # Nil => In(c).org \in full \cup read
              /\ ~In(c).get => full # {} /\ (In(c).org # Nil => In(c).org \in full)

Admit(c) ==
    LET u == IF jwt(c) THEN GetUserByExternalID(db, In(c).did) ELSE Nil
        full == IF u = Nil THEN {} ELSE IsOrgAdmin(db, u)
        read == IF u = Nil THEN {} ELSE IsOrgReadonlyAdmin(db, u)
    IN  /\ pc[c] = "new"
        /\ pc' = [pc EXCEPT ![c] =
             IF adminAuthMiddleware(db, c) /\ orgScopingMiddleware(c, full, read)
             THEN "admitted" ELSE "refused"]
        /\ scope' = [scope EXCEPT ![c] = [full |-> full, read |-> read]]
        /\ UNCHANGED <<load, db, seen, shown>>

----------------------------------------------------------------------------
(* Organizations                                                           *)

createOrganization(c) ==
    LET q == In(c)
        row == [slug |-> q.slug, system |-> FALSE] IN
    \/ Begin(c, "createOrganization", ~jwt(c) /\ validateSlug(q.slug))
    \/ Commit(c, "createOrganization", OrgSlugTaken(db, c, q.slug), CreateOrganization(db, c, row))
    \/ Finish(c, "createOrganization", recordAuditAction(db, c))

updateOrganization(c) ==
    LET q == In(c)
        org == GetOrganization(db, q.org) IN
    \/ Begin(c, "updateOrganization", org # Nil /\ ~org.system /\ validateSlug(q.slug))
    \/ Commit(c, "updateOrganization", OrgSlugTaken(db, q.org, q.slug),
              UpdateOrganization(db, q.org, [seen[c].orgs[q.org] EXCEPT !.slug = q.slug]))
    \/ Finish(c, "updateOrganization", recordAuditAction(db, c))

deleteOrganization(c) ==
    LET q == In(c)
        org == GetOrganization(db, q.org) IN
    \/ Begin(c, "deleteOrganization", ~jwt(c) /\ q.org # DefaultOrg /\ org # Nil /\ ~org.system)
    \/ Commit(c, "deleteOrganization", FALSE, DeleteOrganization(db, q.org))
    \/ Finish(c, "deleteOrganization", recordAuditAction(InvalidateCacheForOrg(db, q.org), c))

listOrganizations(c) ==
    LET orgs == IF jwt(c) THEN ListOrganizationsByIDs(db, Scoped(c)) ELSE ListOrganizationsPaginated(db)
        shownOrgs == {o \in orgs : In(c).system \/ ~db.orgs[o].system} IN
    Answer(c, "listOrganizations", TRUE, Rows(shownOrgs, {}))

getOrganization(c) ==
    Answer(c, "getOrganization", GetOrganization(db, In(c).org) # Nil, Rows({In(c).org}, {}))

----------------------------------------------------------------------------
(* Groups                                                                  *)

createGroup(c) ==
    LET q == In(c)
        row == [org |-> q.org, slug |-> q.slug, admin |-> q.admin, readonly |-> q.readonly,
                system |-> FALSE, auto |-> FALSE] IN
    \/ Begin(c, "createGroup",
             /\ validateSlug(q.slug)
             /\ ~(jwt(c) /\ q.admin)
             /\ ~(operator(c) /\ ~q.admin /\ ~q.readonly /\ q.org # DefaultOrg)
             /\ ~(q.admin /\ q.readonly))
    \/ Commit(c, "createGroup", GroupSlugTaken(db, c, q.org, q.slug) \/ q.org \notin DOMAIN db.orgs,
              CreateGroup(db, c, row))
    \/ Finish(c, "createGroup", recordAuditAction(db, c))

\* q.admin and q.readonly are Nil when the request leaves them out.
updateGroup(c) ==
    LET q == In(c)
        with(old) == [old EXCEPT !.admin = IF q.admin = Nil THEN @ ELSE q.admin,
                                 !.readonly = IF q.readonly = Nil THEN @ ELSE q.readonly]
        group == GetGroup(db, q.g) IN
    \/ Begin(c, "updateGroup",
             /\ verifyGroupBelongsToPathOrg(c, group)
             /\ ~group.system
             /\ jwt(c) => q.admin = Nil
             /\ operator(c) => group.admin \/ group.readonly \/ TRUE \in {q.admin, q.readonly}
             /\ ~(with(group).admin /\ with(group).readonly))
    \/ Commit(c, "updateGroup", FALSE, UpdateGroup(db, q.g, with(seen[c].groups[q.g])))
    \/ Finish(c, "updateGroup", InvalidateCacheForGroup(recordAuditAction(db, c), q.g))

deleteGroup(c) ==
    LET group == GetGroup(db, In(c).g) IN
    \/ Begin(c, "deleteGroup",
             /\ verifyGroupBelongsToPathOrg(c, group)
             /\ ~group.system
             /\ ~(group.admin /\ jwt(c))
             /\ ~denyOperatorRegularGroup(c, In(c).g, group))
    \/ Commit(c, "deleteGroup", FALSE, DeleteGroupAndInvalidate(db, In(c).g))
    \/ Finish(c, "deleteGroup", recordAuditAction(db, c))

\* The reads and the deletions are one transaction, at READ COMMITTED.
batchDeleteGroups(c) ==
    LET q == In(c)
        groups == GetGroupsByIDs(db, q.org, q.groups)
        remove(g, d) == DeleteGroupWithDependenciesTx(d, g) IN
    \/ Begin(c, "batchDeleteGroups",
             /\ q.groups # {} /\ groups = q.groups
             /\ jwt(c) => \A g \in groups : ~db.groups[g].admin
             /\ operator(c) => \A g \in groups :
                    db.groups[g].admin \/ db.groups[g].readonly \/ db.groups[g].system)
    \/ Commit(c, "batchDeleteGroups", FALSE,
              InvalidateCacheForOrg(FoldSet(remove, db, q.groups), q.org))
    \/ Finish(c, "batchDeleteGroups", InvalidateCacheForOrg(db, q.org))

listGroups(c) ==
    Answer(c, "listGroups", ~denyOperatorTenantRead(c),
           Rows({db.groups[g].org : g \in ListGroupsWithAccessFiltered(db, In(c).org)}, {}))

getGroup(c) ==
    LET group == GetGroup(db, In(c).g) IN
    Answer(c, "getGroup", ~denyOperatorTenantRead(c) /\ verifyGroupBelongsToPathOrg(c, group),
           Rows({group.org}, {}))

\* Only rows from before groups became flat have a parent to narrow claims.
getGroupAccess(c) ==
    LET group == GetGroup(db, In(c).g) IN
    Answer(c, "getGroupAccess", ~denyOperatorTenantRead(c) /\ verifyGroupBelongsToPathOrg(c, group),
           Rows({group.org}, {}))

batchDeletePreview(c) ==
    LET q == In(c)
        grants == UNION {ListContractGrantsByGroup(db, g) : g \in q.groups}
        users == {db.members[m].user : m \in UNION {ListGroupMembers(db, g) : g \in q.groups}} IN
    Answer(c, "batchDeletePreview",
           /\ ~denyOperatorTenantRead(c) /\ q.groups # {}
           /\ \A g \in q.groups : GetGroup(db, g) # Nil /\ db.groups[g].org = q.org,
           Rows({db.contracts[k].org : k \in GetContractsByIDs(db, {db.grants[n].contract : n \in grants})},
                users))

----------------------------------------------------------------------------
(* What a group may do                                                     *)

\* "*" stands for the built-in methods, never for passthrough.
ExpandWildcardMethods(ms) == IF "*" \in ms THEN (ms \ {"*"}) \cup CatalogMethods ELSE ms

IsAssignableMethod(m) == m \in CatalogMethods \cup Passthrough

ValidateMethodsMatchClaims(ms, cs) == \A m \in ms : MethodClaim[m] \in cs \cup {"none"}

setGroupAccess(c) ==
    LET q == In(c)
        group == GetGroup(db, q.g)
        existing == GetGroupAccess(db, q.g)
        anonymous == group.system /\ q.g = AnonymousGroup
        methods == ExpandWildcardMethods(q.methods)
        row == [methods |-> methods, claims |-> ExpandClaims(q.claims)]
        write(d) == IF GetGroupAccess(seen[c], q.g) # Nil THEN UpdateGroupAccess(d, q.g, row)
                    ELSE CreateGroupAccess(d, q.g, row) IN
    \/ Begin(c, "setGroupAccess",
             /\ verifyGroupBelongsToPathOrg(c, group)
             /\ group.system => In(c).by = "admin_token"
             /\ ~denyJWTAdminTouchOrgAdminGroup(c, group)
             /\ ~denyOperatorRegularGroup(c, q.g, group)
             /\ ~(anonymous /\ "*" \in q.methods)
             /\ \A m \in methods : IF anonymous THEN m \in CatalogMethods ELSE IsAssignableMethod(m)
             /\ jwt(c) => \A m \in methods \cap Passthrough : existing # Nil /\ m \in existing.methods
             /\ IF group.admin THEN q.claims = {} /\ methods # {}
                ELSE ValidateMethodsMatchClaims(methods, row.claims))
    \/ Commit(c, "setGroupAccess",
              \/ q.g \notin DOMAIN db.groups
              \/ GetGroupAccess(seen[c], q.g) = Nil /\ GetGroupAccess(db, q.g) # Nil,
              write(db))
    \/ Finish(c, "setGroupAccess", InvalidateCacheForGroup(recordAuditAction(db, c), q.g))

----------------------------------------------------------------------------
(* Contracts                                                               *)

NewContract(c, addr) ==
    [addr |-> addr, org |-> In(c).org, name |-> In(c).name, abi |-> Nil, unlock |-> FALSE, dynamic |-> FALSE]

createContract(c) ==
    LET q == In(c) IN
    \/ Begin(c, "createContract", ~denyOperatorOrgScoped(c))
    \/ CommitLast(c, "createContract", ContractRefused(db, q.org, q.addr),
                  CreateContract(db, c, NewContract(c, q.addr)))

\* Registration on the proof of the deployment's receipt (load.receipts: from
\* the hash to [address, from]) by somebody the organization has as a member.
claimUnregisteredContract(c) ==
    LET q == In(c)
        receipt == Row(load.receipts, q.hash)
        member(did) == LET u == GetUserByExternalID(db, did) IN u # Nil /\ IsUserInOrg(db, u, q.org) IN
    \/ Begin(c, "claimUnregisteredContract",
             /\ ~denyOperatorOrgScoped(c)
             /\ GetContractOwnerOrgID(db, q.addr) = Nil
             /\ receipt # Nil /\ receipt.address = q.addr
             /\ member(GetDIDByEthAddress(db, receipt.from))
             /\ q.addr \in load.code)
    \/ CommitLast(c, "claimUnregisteredContract", ContractRefused(db, q.org, q.addr),
                  CreateContract(db, c, NewContract(c, q.addr)))

\* The name is written together with the ABI that was read.
updateContract(c) ==
    LET q == In(c)
        k == GetContractByAddress(seen[c], q.org, q.addr) IN
    \/ Begin(c, "updateContract",
             ~denyOperatorOrgScoped(c) /\ GetContractByAddress(db, q.org, q.addr) # Nil)
    \/ CommitLast(c, "updateContract", FALSE,
                  UpdateContract(db, k, [seen[c].contracts[k] EXCEPT !.name = q.name]))

updateContractABI(c) ==
    LET q == In(c) IN
    \/ Begin(c, "updateContractABI",
             ~denyOperatorOrgScoped(c) /\ GetContractByAddress(db, q.org, q.addr) # Nil)
    \/ CommitLast(c, "updateContractABI", FALSE,
                  UpdateContractABI(db, GetContractByAddress(seen[c], q.org, q.addr), q.abi))

updateContractAllowVisibleToUnlock(c) ==
    LET q == In(c) IN
    \/ Begin(c, "updateContractAllowVisibleToUnlock",
             ~denyOperatorOrgScoped(c) /\ GetContractByAddress(db, q.org, q.addr) # Nil)
    \/ Commit(c, "updateContractAllowVisibleToUnlock", FALSE,
              UpdateContractAllowVisibleToUnlock(db, GetContractByAddress(seen[c], q.org, q.addr), q.flag))
    \/ Finish(c, "updateContractAllowVisibleToUnlock", InvalidateCacheForOrg(db, q.org))

updateContractEventsAllowDynamicPayload(c) ==
    LET q == In(c) IN
    \/ Begin(c, "updateContractEventsAllowDynamicPayload",
             requireSuperAdmin(c) /\ GetContractByAddress(db, q.org, q.addr) # Nil)
    \/ Commit(c, "updateContractEventsAllowDynamicPayload", FALSE,
              UpdateContractEventsAllowDynamicPayload(db, GetContractByAddress(seen[c], q.org, q.addr), q.flag))
    \/ Finish(c, "updateContractEventsAllowDynamicPayload",
              recordAuditAction(InvalidateCacheForOrg(db, q.org), c))

deleteContract(c) ==
    LET q == In(c) IN
    \/ Begin(c, "deleteContract",
             ~denyOperatorOrgScoped(c) /\ GetContractByAddress(db, q.org, q.addr) # Nil)
    \/ CommitLast(c, "deleteContract", FALSE,
                  DeleteContractAndInvalidate(db, GetContractByAddress(seen[c], q.org, q.addr), q.org))

\* One contract after the other: those of the organization without code on
\* chain go, and the invalidation comes after the last.
deleteStaleContracts(c) ==
    LET q == In(c)
        stale == {k \in q.contracts : /\ GetContract(db, k) # Nil
                                      /\ db.contracts[k].org = q.org
                                      /\ db.contracts[k].addr \notin load.code} IN
    \/ Begin(c, "deleteStaleContracts", ~denyOperatorOrgScoped(c) /\ q.contracts # {})
    \/ /\ At(c, "deleteStaleContracts", "checked")
       /\ \/ \E k \in stale : Go(c, "checked", DeleteContract(db, k))
          \/ stale = {} /\ Go(c, "written", db)
       /\ UNCHANGED seen
    \/ Finish(c, "deleteStaleContracts", InvalidateCacheForOrg(db, q.org))

listContracts(c) ==
    Answer(c, "listContracts", ~denyOperatorTenantRead(c),
           Rows({db.contracts[k].org : k \in ListContracts(db, In(c).org)}, {}))

getContract(c) ==
    LET k == GetContractByAddress(db, In(c).org, In(c).addr) IN
    Answer(c, "getContract", ~denyOperatorTenantRead(c) /\ k # Nil, Rows({db.contracts[k].org}, {}))

listContractEvents(c) ==
    LET k == GetContractByAddress(db, In(c).org, In(c).addr) IN
    Answer(c, "listContractEvents", ~denyOperatorTenantRead(c) /\ k # Nil, Rows({db.contracts[k].org}, {}))

getContractGrantSummary(c) ==
    Answer(c, "getContractGrantSummary", ~denyOperatorTenantRead(c),
           Rows(UNION {{db.groups[db.grants[n].group].org : n \in ListContractGrantsByContract(db, k)} :
                          k \in ListContracts(db, In(c).org)}, {}))

listContractGrants(c) ==
    LET k == GetContractByAddress(db, In(c).org, In(c).addr) IN
    Answer(c, "listContractGrants", ~denyOperatorTenantRead(c) /\ k # Nil,
           Rows({db.groups[db.grants[n].group].org : n \in ListContractGrantsByContract(db, k)}, {}))

checkContractsOnChain(c) ==
    Answer(c, "checkContractsOnChain", ~denyOperatorTenantRead(c),
           Rows({db.contracts[k].org : k \in ListContracts(db, In(c).org)}, {}))

\* Of another organization's contract an admin learns only that it is
\* registered.
lookupContractByAddress(c) ==
    LET k == ContractAt(db, In(c).addr)
        org == db.contracts[k].org IN
    Answer(c, "lookupContractByAddress", ~denyOperatorTenantRead(c) /\ k # Nil,
           Rows(IF inScope(c, org)
                THEN {org} \cup {db.groups[db.grants[n].group].org : n \in ListContractGrantsByContract(db, k)}
                ELSE {}, {}))

----------------------------------------------------------------------------
(* Grants.  An ABI maps the topics of a contract's events to the type of   *)
(* the parameter that a rule may constrain ("address" or "word"); a rule   *)
(* constrains nothing (Nil), or to the viewer (Self) or to an address.     *)

CustomRules(rules) == {t \in DOMAIN rules : rules[t] \notin {Nil, Self}}

capCustomAddressParamRules(rules) == Cardinality(CustomRules(rules)) <= MaxCustomRules

validateEventRules(rules) == BadTopic \notin DOMAIN rules

validateEventRulesWithABI(rules, abi) ==
    abi # Nil => \A t \in DOMAIN rules : t \in DOMAIN abi /\ (rules[t] # Nil => abi[t] = "address")

rejectCustomParamRulesWithoutABI(rules, abi) == abi = Nil => CustomRules(rules) = {}

\* An address named by a rule is a contract of the organization, or linked by
\* one of its members.
validateCrossOrgParamRules(d, org, rules, abi) ==
    abi # Nil => \A t \in CustomRules(rules) :
        LET owner == GetContractOwnerOrgID(d, rules[t]) IN
        IF owner # Nil THEN owner = org ELSE org \in GetOrgIDsForEthAddress(d, rules[t])

EventRulesAccepted(d, org, k, events) ==
    LET abi == d.contracts[k].abi IN
    /\ events.kind # "deny" => abi # Nil
    /\ events.kind = "rules" =>
          /\ capCustomAddressParamRules(events.rules)
          /\ validateEventRules(events.rules)
          /\ validateEventRulesWithABI(events.rules, abi)
          /\ rejectCustomParamRulesWithoutABI(events.rules, abi)
          /\ validateCrossOrgParamRules(d, org, events.rules, abi)

createContractGrant(c) ==
    LET q == In(c)
        k == GetContractByAddress(db, q.org, q.addr)
        kept == GetContractByAddress(seen[c], q.org, q.addr)
        row == [contract |-> kept, group |-> q.g, functions |-> q.functions, events |-> q.events] IN
    \/ Begin(c, "createContractGrant",
             /\ ~denyOperatorOrgScoped(c)
             /\ k # Nil
             /\ EventRulesAccepted(db, q.org, k, q.events)
             /\ GetGroup(db, q.g) # Nil /\ db.groups[q.g].org = q.org)
    \/ Commit(c, "createContractGrant", GrantRefused(db, kept, q.g), CreateContractGrant(db, c, row))
    \/ Finish(c, "createContractGrant", InvalidateCacheForGroup(db, q.g))

\* q.fields: which of "functions" and "events" the request supplies.
updateContractGrant(c) ==
    LET q == In(c)
        k == GetContractByAddress(db, q.org, q.addr)
        n == GetContractGrantByContractAndGroup(seen[c], GetContractByAddress(seen[c], q.org, q.addr), q.g)
        row == [seen[c].grants[n] EXCEPT !.functions = IF "functions" \in q.fields THEN q.functions ELSE @,
                                         !.events = IF "events" \in q.fields THEN q.events ELSE @] IN
    \/ Begin(c, "updateContractGrant",
             /\ ~denyOperatorOrgScoped(c)
             /\ k # Nil
             /\ GetContractGrantByContractAndGroup(db, k, q.g) # Nil
             /\ "events" \in q.fields => EventRulesAccepted(db, q.org, k, q.events))
    \/ Commit(c, "updateContractGrant", FALSE, UpdateContractGrant(db, n, row))
    \/ Finish(c, "updateContractGrant", InvalidateCacheForGroup(db, q.g))

deleteContractGrant(c) ==
    LET q == In(c)
        grant(d) == LET k == GetContractByAddress(d, q.org, q.addr) IN
                    IF k = Nil THEN Nil ELSE GetContractGrantByContractAndGroup(d, k, q.g) IN
    \/ Begin(c, "deleteContractGrant", ~denyOperatorOrgScoped(c) /\ grant(db) # Nil)
    \/ CommitLast(c, "deleteContractGrant", FALSE,
                  DeleteContractGrantAndInvalidate(db, grant(seen[c]), q.g))

\* One transaction.  q.g is the target, or Nil for a new group with q.slug; the
\* grants are identified by the call and the contract.
batchMoveContracts(c) ==
    LET q == In(c)
        target == IF q.g = Nil THEN c ELSE q.g
        newGroup == [org |-> q.org, slug |-> q.slug, admin |-> FALSE, readonly |-> FALSE,
                     system |-> FALSE, auto |-> FALSE]
        made(d) == IF q.g # Nil THEN d
                   ELSE CreateGroupAccess(CreateGroup(d, c, newGroup), c,
                          [methods |-> CatalogMethods, claims |-> ExpandClaims({"deploy"})])
        autoGroups == GetAutoCreatedGroupIDsForContracts(db, q.contracts)
        move(k, d) == DeleteContractGrantsByContractAndGroups(
                        CreateContractGrantIfNotExists(d, <<c, k>>,
                          [contract |-> k, group |-> target, functions |-> Nil,
                           events |-> [kind |-> "deny", rules |-> <<>>]]), k, autoGroups)
        moved(d) == FoldSet(move, d, q.contracts)
        tidy(g, d) == IF CountContractGrantsByGroup(d, g) = 0 THEN DeleteGroupWithDependenciesTx(d, g) ELSE d
        tidied(d) == IF q.flag THEN FoldSet(tidy, d, autoGroups) ELSE d IN
    \/ Begin(c, "batchMoveContracts", ~denyOperatorOrgScoped(c) /\ q.contracts # {})
    \/ Commit(c, "batchMoveContracts",
              \/ q.g = Nil /\ (GroupSlugTaken(db, c, q.org, q.slug) \/ q.org \notin DOMAIN db.orgs)
              \/ q.g # Nil /\ (GetGroup(db, q.g) = Nil \/ db.groups[q.g].org # q.org)
              \/ \E k \in q.contracts : GetContract(db, k) = Nil \/ db.contracts[k].org # q.org,
              InvalidateCacheForOrg(tidied(moved(made(db))), q.org))
    \/ Finish(c, "batchMoveContracts", InvalidateCacheForOrg(db, q.org))

----------------------------------------------------------------------------
(* Users                                                                   *)

\* Everyone for the super admin, the organizations of the caller otherwise.
resolveListUsersScope(c) == [all |-> ~jwt(c), orgs |-> Scoped(c)]

\* mutant: the organization asked for replaces the caller's
AskedScope(s, org) == IF org = Nil THEN s ELSE [all |-> FALSE, orgs |-> {org}]

\* The memberships shown are further narrowed to the organization asked for.
narrowMembershipScope(s, org) ==
    IF org = Nil THEN s
    ELSE IF s.all \/ org \in s.orgs THEN [all |-> FALSE, orgs |-> {org}]
    ELSE [all |-> FALSE, orgs |-> {}]

\* The filter's organization is q.filter, its role q.role.
listRBACUsers(c) ==
    LET q == In(c)
        s == resolveListUsersScope(c)
        users == ListUsersFilteredPaginated(db, [org |-> q.filter, role |-> q.role], s)
        shownMembers == ListGroupMembershipsForUsers(db, users, narrowMembershipScope(s, q.filter)) IN
    Answer(c, "listRBACUsers",
           ~denyOperatorTenantRead(c) /\ ~operator(c) /\ q.role \in {"", "org_admin", "admin", "member"},
           Rows({db.groups[db.members[m].group].org : m \in shownMembers}, users))

getRBACUser(c) ==
    Answer(c, "getRBACUser",
           ~denyOperatorTenantRead(c) /\ requireUserInCallerScope(c, In(c).u) /\ GetUser(db, In(c).u) # Nil,
           Rows({}, {In(c).u}))

\* q.kyc and q.banned are Nil when left out; the row read is written back.
updateRBACUser(c) ==
    LET q == In(c)
        with(old) == [old EXCEPT !.kyc = IF q.kyc = Nil THEN @ ELSE q.kyc,
                                 !.banned = IF q.banned = Nil THEN @ ELSE q.banned]
        ended == IF q.banned = TRUE THEN RevokeRefreshTokensBySubject(db, seen[c].users[q.u].did) ELSE db IN
    \/ Begin(c, "updateRBACUser",
             /\ ~denyOperatorOrgScoped(c)
             /\ requireUserInFullAdminScope(c, q.u)
             /\ GetUser(db, q.u) # Nil
             /\ ~(q.banned = TRUE /\ isSelfBanAttempt(c, q.u)))
    \/ Commit(c, "updateRBACUser", FALSE, UpdateUser(db, q.u, with(seen[c].users[q.u])))
    \/ Finish(c, "updateRBACUser", recordAuditAction(InvalidateCacheForUser(ended, q.u), c))

getUserLinkedAddresses(c) ==
    Answer(c, "getUserLinkedAddresses",
           ~denyOperatorTenantRead(c) /\ requireUserInCallerScope(c, In(c).u) /\ GetUser(db, In(c).u) # Nil,
           Rows({}, {In(c).u}))

\* The memberships listed go one statement each, in some order, then the user.
deleteRBACUser(c) ==
    LET u == In(c).u
        listed == ListUserMemberships(seen[c], u) \cap DOMAIN db.members IN
    \/ Begin(c, "deleteRBACUser",
             ~denyOperatorOrgScoped(c) /\ requireUserInFullAdminScope(c, u) /\ GetUser(db, u) # Nil)
    \/ /\ At(c, "deleteRBACUser", "checked")
       /\ \E m \in listed : Go(c, "checked", DeleteMembership(db, m))
       /\ UNCHANGED seen
    \/ listed = {} /\ Commit(c, "deleteRBACUser", FALSE, DeleteUser(db, u))
    \/ Finish(c, "deleteRBACUser", recordAuditAction(InvalidateCacheForUser(db, u), c))

listUserMemberships(c) ==
    LET all == ListUserMembershipsWithDetails(db, In(c).u)
        kept == {m \in all : jwt(c) => db.groups[db.members[m].group].org \in Scoped(c)} IN
    Answer(c, "listUserMemberships", ~denyOperatorTenantRead(c) /\ requireUserInCallerScope(c, In(c).u),
           Rows({db.groups[db.members[m].group].org : m \in kept}, {In(c).u}))

\* The organization asked for (q.slug) must be in scope as well as the user.
getEffectivePermissions(c) ==
    LET org == GetOrganizationBySlug(db, In(c).slug) IN
    Answer(c, "getEffectivePermissions",
           /\ ~denyOperatorTenantRead(c)
           /\ requireUserInCallerScope(c, In(c).u)
           /\ GetUser(db, In(c).u) # Nil
           /\ org # Nil /\ inScope(c, org),
           Rows({org}, {In(c).u}))

\* Asked for an organization in scope and, when the DID is a user, a user in
\* scope.  What it answers is CheckAccess of AccessDecision.
checkAccessAPI(c) ==
    LET q == In(c)
        org == GetOrganizationBySlug(db, q.slug)
        u == GetUserByExternalID(db, q.target) IN
    Answer(c, "checkAccessAPI",
           /\ ~denyOperatorTenantRead(c)
           /\ jwt(c) => org # Nil /\ inScope(c, org) /\ (u # Nil => requireUserInCallerScope(c, u)),
           Rows({org} \ {Nil}, {u} \ {Nil}))

\* A collision is kept when one of its DIDs is a user in scope, and is then
\* shown with all its DIDs.
getEthAddressCollisions(c) ==
    LET user(did) == GetUserByExternalID(db, did)
        kept == {a \in GetAddressLinkCollisions(db) :
                    jwt(c) => \E did \in GetDIDsByEthAddress(db, a) :
                        user(did) # Nil /\ GetUserOrgIDs(db, user(did)) \cap Scoped(c) # {}} IN
    Answer(c, "getEthAddressCollisions", ~denyOperatorTenantRead(c),
           Rows({}, {user(did) : did \in UNION {GetDIDsByEthAddress(db, a) : a \in kept}} \ {Nil}))

----------------------------------------------------------------------------
(* Memberships                                                             *)

\* An expiry must be in the future; 0 is none.
parseMembershipExpiry(d, until) == until = 0 \/ until > d.now

Membership(u, c) == [user |-> u, group |-> In(c).g, until |-> In(c).until]

\* The group must exist in an organization the caller fully administers, and
\* neither an org admin nor the operator may fill what is not theirs to fill.
GroupOpenTo(c, g, group) ==
    /\ group # Nil
    /\ requireFullAdminInScope(c, group.org)
    /\ ~denyJWTAdminTouchOrgAdminGroup(c, group)
    /\ ~denyOperatorRegularGroup(c, g, group)

createUserMembership(c) ==
    LET q == In(c) IN
    \/ Begin(c, "createUserMembership",
             /\ requireUserInFullAdminScope(c, q.u)
             /\ GroupOpenTo(c, q.g, GetGroup(db, q.g))
             /\ parseMembershipExpiry(db, q.until))
    \/ Commit(c, "createUserMembership", MembershipRefused(db, q.u, q.g),
              CreateMembership(db, c, Membership(q.u, c)))
    \/ Finish(c, "createUserMembership", recordAuditAction(InvalidateCacheForUser(db, q.u), c))

\* A user who signs in or is onboarded for the first time, with a membership
\* of the default group unless the caller assigns a group.
NewUser(d, u, did, kyc, skipDefaultGroup) ==
    LET d1 == CreateAuditLog(CreateUser(d, u, [did |-> did, kyc |-> kyc, banned |-> FALSE, tenant |-> Nil]),
                             <<"user", u>>) IN
    IF skipDefaultGroup THEN d1
    ELSE CreateMembershipIfNotExists(d1, <<u, "default">>, [user |-> u, group |-> DefaultGroup, until |-> 0])

\* The user found, or u, the one about to be made.
EnsuredUser(d, did, u) == IF GetUserByExternalID(d, did) = Nil THEN u ELSE GetUserByExternalID(d, did)

\* Two calls that both found no user: the second insert is refused.
EnsureRefused(found, d, did) == GetUserByExternalID(found, did) = Nil /\ GetUserByExternalID(d, did) # Nil

EnsureUserExists(found, d, did, u, kyc, skipDefaultGroup) ==
    IF GetUserByExternalID(found, did) # Nil THEN d ELSE NewUser(d, u, did, kyc, skipDefaultGroup)

\* The user is made first, in a statement of its own.
createMembershipByDID(c) ==
    LET q == In(c)
        u == EnsuredUser(seen[c], q.target, c) IN
    \/ Begin(c, "createMembershipByDID",
             /\ requireFullAdminInScope(c, q.org)
             /\ GetGroup(db, q.g) # Nil /\ db.groups[q.g].org = q.org
             /\ GroupOpenTo(c, q.g, GetGroup(db, q.g))
             /\ parseMembershipExpiry(db, q.until))
    \/ /\ At(c, "createMembershipByDID", "checked")
       /\ IF EnsureRefused(seen[c], db, q.target) THEN Go(c, "refused", db)
          ELSE Go(c, "ensured", EnsureUserExists(seen[c], db, q.target, c, FALSE, TRUE))
       /\ UNCHANGED seen
    \/ /\ At(c, "createMembershipByDID", "ensured")
       /\ IF MembershipRefused(db, u, q.g) THEN Go(c, "refused", db)
          ELSE Go(c, "written", CreateMembership(db, c, Membership(u, c)))
       /\ UNCHANGED seen
    \/ Finish(c, "createMembershipByDID", recordAuditAction(InvalidateCacheForUser(db, u), c))

deleteMembershipByDID(c) ==
    LET q == In(c)
        member(d) == LET u == GetUserByExternalID(d, q.target) IN
                     IF u = Nil THEN Nil ELSE GetMembershipByUserAndGroup(d, u, q.g) IN
    \/ Begin(c, "deleteMembershipByDID",
             /\ requireFullAdminInScope(c, q.org)
             /\ GetGroup(db, q.g) # Nil /\ db.groups[q.g].org = q.org
             /\ GroupOpenTo(c, q.g, GetGroup(db, q.g))
             /\ member(db) # Nil)
    \/ Commit(c, "deleteMembershipByDID", FALSE, DeleteMembership(db, member(seen[c])))
    \/ Finish(c, "deleteMembershipByDID",
              recordAuditAction(InvalidateCacheForUser(db, GetUserByExternalID(seen[c], q.target)), c))

deleteUserMembership(c) ==
    LET q == In(c)
        m == GetMembership(db, q.m) IN
    \/ Begin(c, "deleteUserMembership",
             /\ m # Nil
             /\ GroupOpenTo(c, m.group, GetGroup(db, m.group))
             /\ m.user = q.u)
    \/ Commit(c, "deleteUserMembership", FALSE, DeleteMembership(db, q.m))
    \/ Finish(c, "deleteUserMembership", recordAuditAction(InvalidateCacheForUser(db, q.u), c))

============================================================================
