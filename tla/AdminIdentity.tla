--------------------------- MODULE AdminIdentity ---------------------------
(***************************************************************************)
(* Who a caller is, and the rest of the administration API: Azure tenants  *)
(* and logins, addresses linked to a user by signature, viewing the system *)
(* as a user (impersonation), shared infrastructure and the system         *)
(* switches; together with RbacAdmin's handlers, the loops and the         *)
(* requests that resolve permissions meanwhile, the whole specification.   *)
(*                                                                         *)
(* A login is a call like any other, but of a stranger: it does not pass   *)
(* the admin middleware.  What Azure and the wallet assert (the identity   *)
(* behind a code, a signature) is part of the request.                     *)
(***************************************************************************)
EXTENDS RbacAdmin

CONSTANTS
    TicketTTL   \* lifetime of an Azure state and of a link challenge

ASSUME TicketAssumption == TicketTTL \in Nat

VARIABLES
    tickets,  \* AzureStateStore and ChallengeStore: [nonce -> [did, at]]
    switches  \* the runtime override of each system switch

vars == <<load, db, pc, scope, seen, shown, tickets, switches>>

Same == UNCHANGED <<tickets, switches>>

----------------------------------------------------------------------------
(* Azure tenants (super admin only)                                        *)

\* The default group of a tenant lies in its default organization and
\* confers no administration.
TenantDefaultsValid(d, row) ==
    row.org # Nil /\ row.group # Nil =>
        LET g == GetGroup(d, row.group) IN g # Nil /\ g.org = row.org /\ ~g.admin /\ ~g.readonly

listAzureTenants(c) == Answer(c, "listAzureTenants", requireSuperAdmin(c), Rows({}, {}))

getAzureTenant(c) ==
    Answer(c, "getAzureTenant", requireSuperAdmin(c) /\ GetAllowedAzureTenant(db, In(c).t) # Nil, Rows({}, {}))

createAzureTenant(c) ==
    \/ Begin(c, "createAzureTenant", requireSuperAdmin(c) /\ TenantDefaultsValid(db, In(c).tenant))
    \/ Commit(c, "createAzureTenant", TenantRefused(db, c, In(c).tenant),
              CreateAllowedAzureTenant(db, c, In(c).tenant))
    \/ Finish(c, "createAzureTenant", recordAuditAction(db, c))

\* Fields of the request that are left out keep what was read.
updateAzureTenant(c) ==
    LET q == In(c)
        with(old) == [f \in DOMAIN old |-> IF f \in q.fields THEN q.tenant[f] ELSE old[f]] IN
    \/ Begin(c, "updateAzureTenant",
             /\ requireSuperAdmin(c)
             /\ GetAllowedAzureTenant(db, q.t) # Nil
             /\ TenantDefaultsValid(db, with(db.tenants[q.t])))
    \/ Commit(c, "updateAzureTenant",
              q.t \notin DOMAIN db.tenants \/ TenantRefused(db, q.t, with(seen[c].tenants[q.t])),
              UpdateAllowedAzureTenant(db, q.t, with(seen[c].tenants[q.t])))
    \/ Finish(c, "updateAzureTenant", recordAuditAction(db, c))

\* The row goes first, then its users are banned, then their tokens end.
deleteAzureTenant(c) ==
    LET q == In(c)
        name == seen[c].tenants[q.t].tenant IN
    \/ Begin(c, "deleteAzureTenant", requireSuperAdmin(c) /\ GetAllowedAzureTenant(db, q.t) # Nil)
    \/ Commit(c, "deleteAzureTenant", q.t \notin DOMAIN db.tenants, DeleteAllowedAzureTenant(db, q.t))
    \/ /\ At(c, "deleteAzureTenant", "written")
       /\ Go(c, "banned", BanUsersByTenantID(db, name))
       /\ UNCHANGED seen
    \/ /\ At(c, "deleteAzureTenant", "banned")
       /\ Go(c, "done", recordAuditAction(RevokeRefreshTokensByTenantID(db, name), c))
       /\ UNCHANGED seen

----------------------------------------------------------------------------
(* Tickets: an Azure state or a link challenge, used once and in time.     *)

\* mutant: a ticket is read but not removed
ConsumeKept(ts, n) == ts

Consume(ts, n) == Without(ts, {n})

Valid(ts, n) == n \in DOMAIN ts /\ db.now - ts[n].at <= TicketTTL

\* AzureStateStore.cleanup and ChallengeStore.cleanup.
cleanup ==
    /\ \E n \in DOMAIN tickets : ~Valid(tickets, n)
    /\ tickets' = Without(tickets, {n \in DOMAIN tickets : ~Valid(tickets, n)})
    /\ UNCHANGED <<load, db, pc, scope, seen, shown, switches>>

Issue(c, op, did) ==
    /\ At(c, op, "new")
    /\ tickets' = (c :> [did |-> did, at |-> db.now]) @@ tickets
    /\ Go(c, "done", db)
    /\ UNCHANGED <<seen, switches>>

handleAzureAuthURL(c) == Issue(c, "handleAzureAuthURL", Nil)

CreateChallenge(c) == Issue(c, "handleEthLinkChallenge", In(c).did)

\* A ticket is used up whether or not what follows succeeds.
UseTicket(c, op, ok, next) ==
    /\ At(c, op, "new")
    /\ tickets' = Consume(tickets, In(c).nonce)
    /\ Go(c, IF Valid(tickets, In(c).nonce) /\ ok THEN next ELSE "refused", db)
    /\ UNCHANGED <<seen, switches>>

----------------------------------------------------------------------------
(* Azure logins                                                            *)

LoginOps == {"handleAzureCallback", "handleAzureServicePrincipal"}

\* q.proved: Azure vouches for the identity (q.tid, q.did).
handleAzureCallback(c) == UseTicket(c, "handleAzureCallback", In(c).proved, "identified")

handleAzureServicePrincipal(c) ==
    /\ At(c, "handleAzureServicePrincipal", "new")
    /\ Go(c, IF In(c).proved THEN "identified" ELSE "refused", db)
    /\ UNCHANGED <<seen, tickets, switches>>

Login(c, label) == In(c).op \in LoginOps /\ pc[c] = label

\* The tenant's row is read.
TenantAllowed(c) ==
    /\ Login(c, "identified")
    /\ Go(c, IF GetAllowedAzureTenantByTenantID(db, In(c).tid) # Nil THEN "allowed" ELSE "refused", db)
    /\ seen' = [seen EXCEPT ![c] = db]
    /\ Same

\* The user is looked up.  Only an auto-provisioned tenant admits new users; a
\* banned user, or one bound to another tenant, is turned away.
UserFound(c) ==
    LET q == In(c)
        tenant == GetAllowedAzureTenantByTenantID(seen[c], q.tid)
        u == GetUserByExternalID(db, q.did)
        admitted == IF u = Nil THEN tenant.auto ELSE ~db.users[u].banned /\ db.users[u].tenant \in {Nil, q.tid} IN
    /\ Login(c, "allowed")
    /\ Go(c, IF admitted THEN "found" ELSE "refused", db)
    /\ seen' = [seen EXCEPT ![c] = [db EXCEPT !.tenants = seen[c].tenants]]
    /\ Same

LoginUser(c) == EnsuredUser(seen[c], In(c).did, c)

UserEnsured(c) ==
    LET q == In(c)
        tenant == GetAllowedAzureTenantByTenantID(seen[c], q.tid) IN
    /\ Login(c, "found")
    /\ IF EnsureRefused(seen[c], db, q.did) THEN Go(c, "refused", db)
       ELSE Go(c, "ensured",
               EnsureUserExists(seen[c], db, q.did, c, load.autoKYC, tenant.org # Nil /\ tenant.group # Nil))
    /\ UNCHANGED seen /\ Same

TenantBound(c) ==
    /\ Login(c, "ensured")
    /\ Go(c, "bound", SetAuthTenantID(db, LoginUser(c), In(c).tid))
    /\ UNCHANGED seen /\ Same

\* Every login of an auto-provisioned tenant renews the membership of the
\* tenant's group, or of the default group if that fails.
MembershipProvisioned(c) ==
    LET tenant == GetAllowedAzureTenantByTenantID(seen[c], In(c).tid)
        row(g) == [user |-> LoginUser(c), group |-> g, until |-> 0]
        g == IF tenant.group \in DOMAIN db.groups THEN tenant.group ELSE DefaultGroup IN
    /\ Login(c, "bound")
    /\ Go(c, "provisioned",
          IF tenant.auto /\ tenant.org # Nil /\ tenant.group # Nil
          THEN CreateMembershipIfNotExists(db, c, row(g)) ELSE db)
    /\ UNCHANGED seen /\ Same

TokensIssued(c) ==
    /\ Login(c, "provisioned")
    /\ Go(c, "done", SaveRefreshToken(db, In(c).did))
    /\ UNCHANGED seen /\ Same

completeAzureLogin(c) ==
    TenantAllowed(c) \/ UserFound(c) \/ UserEnsured(c) \/ TenantBound(c) \/ MembershipProvisioned(c) \/ TokensIssued(c)

----------------------------------------------------------------------------
(* Linked addresses, by the user themself                                  *)

\* q.proved: the signature is the address's, over the challenge's message.
\* Answered at "resolving", where the goroutine that asks ENS remains.
handleEthLinkVerify(c) ==
    LET q == In(c)
        revoked == LinkRevoked(db, q.did, q.addr) IN
    \/ UseTicket(c, "handleEthLinkVerify", tickets[q.nonce].did = q.did /\ q.proved, "checked")
    \/ Commit(c, "handleEthLinkVerify", revoked, LinkEthAddress(db, q.did, q.addr)) /\ Same
    \/ /\ At(c, "handleEthLinkVerify", "written")
       /\ Go(c, "resolving", InvalidateCacheForUser(db, GetUserByExternalID(db, q.did)))
       /\ UNCHANGED seen /\ Same

resolveAndStoreENS(c) ==
    /\ At(c, "handleEthLinkVerify", "resolving")
    /\ \E name \in {Nil, load.ens} : Go(c, "done", UpdateENSName(db, In(c).addr, name))
    /\ UNCHANGED seen /\ Same

\* A reading call of a user about themself.
AnswerSubject(c, op, ok, rows) ==
    /\ At(c, op, "new")
    /\ pc' = [pc EXCEPT ![c] = IF ok THEN "done" ELSE "refused"]
    /\ shown' = [shown EXCEPT ![c] = IF ok THEN rows ELSE @]
    /\ UNCHANGED <<load, db, scope, seen>> /\ Same

handleGetEthAddresses(c) ==
    AnswerSubject(c, "handleGetEthAddresses", TRUE, Rows({}, {GetUserByExternalID(db, In(c).did)} \ {Nil}))

handleDeleteEthAddress(c) ==
    LET q == In(c)
        linked == <<q.did, q.addr>> \in DOMAIN db.links IN
    \/ /\ At(c, "handleDeleteEthAddress", "new")
       /\ Go(c, IF linked THEN "written" ELSE "refused",
             IF linked THEN RevokeEthAddressLink(db, q.did, q.addr) ELSE db)
       /\ UNCHANGED seen /\ Same
    \/ Finish(c, "handleDeleteEthAddress", InvalidateCacheForUser(db, GetUserByExternalID(db, q.did))) /\ Same

\* ENS is asked between the check and the write.
handleRefreshENS(c) ==
    LET q == In(c) IN
    \/ /\ At(c, "handleRefreshENS", "new")
       /\ Go(c, IF GetEthAddressLinkForDID(db, q.did, q.addr) # Nil THEN "checked" ELSE "refused", db)
       /\ UNCHANGED seen /\ Same
    \/ CommitLast(c, "handleRefreshENS", FALSE, UpdateENSName(db, q.addr, load.ens)) /\ Same

getMyAdminStatus(c) ==
    LET u == GetUserByExternalID(db, In(c).did) IN
    AnswerSubject(c, "getMyAdminStatus", TRUE,
                  Rows(IF u = Nil THEN {} ELSE IsOrgAdmin(db, u) \cup IsOrgReadonlyAdmin(db, u), {}))

\* Memberships that have ended but are not yet removed count.
getMyOrganizations(c) ==
    LET u == GetUserByExternalID(db, In(c).did) IN
    AnswerSubject(c, "getMyOrganizations", u # Nil,
                  Rows({db.groups[db.members[m].group].org : m \in ListUserMembershipsWithDetails(db, u)}, {}))

----------------------------------------------------------------------------
(* Viewing as a user                                                       *)

verifyImpersonationTargetInOrg(d, did, org) ==
    LET u == GetUserByExternalID(d, did) IN u # Nil /\ org \in GetUserOrgIDs(d, u)

\* A full admin of the organization, reading only, and not themself.
impersonationGateMiddleware(c) ==
    LET q == In(c) IN
    Begin(c, "impersonate",
          /\ jwt(c) /\ scope[c].full # {}
          /\ q.get
          /\ q.target # q.did
          /\ q.org \in scope[c].full
          /\ verifyImpersonationTargetInOrg(db, q.target, q.org))

\* The viewed page is answered (or refused, under the strict read profile:
\* strictReadProfileRefusesViewAs) and then recorded either way.
recordImpersonationRequest(c) ==
    LET q == In(c)
        decision == IF load.strict THEN "deny" ELSE "allow" IN
    /\ At(c, "impersonate", "checked")
    /\ pc' = [pc EXCEPT ![c] = IF load.strict THEN "refused" ELSE "done"]
    /\ shown' = [shown EXCEPT ![c] = IF load.strict THEN @ ELSE Rows({q.org}, {GetUserByExternalID(seen[c], q.target)})]
    /\ db' = CreateAuditLog(db, <<"impersonation", c, decision>>)
    /\ UNCHANGED <<load, scope, seen>>

----------------------------------------------------------------------------
(* Shared infrastructure (super admin only): [address -> [name, codehash]] *)

listSharedInfrastructure(c) == Answer(c, "listSharedInfrastructure", requireSuperAdmin(c), Rows({}, {}))

getSharedInfrastructure(c) ==
    Answer(c, "getSharedInfrastructure",
           requireSuperAdmin(c) /\ GetSharedInfrastructure(db, In(c).addr) # Nil, Rows({}, {}))

createSharedInfrastructure(c) ==
    LET q == In(c) IN
    \/ Begin(c, "createSharedInfrastructure", requireSuperAdmin(c) /\ GetSharedInfrastructure(db, q.addr) = Nil)
    \/ Commit(c, "createSharedInfrastructure", q.addr \in DOMAIN db.infra,
              CreateSharedInfrastructure(db, q.addr, [name |-> q.name, codehash |-> q.hash]))
    \/ Finish(c, "createSharedInfrastructure", recordAuditAction(db, c))

updateSharedInfrastructure(c) ==
    LET q == In(c) IN
    \/ Begin(c, "updateSharedInfrastructure", requireSuperAdmin(c) /\ GetSharedInfrastructure(db, q.addr) # Nil)
    \/ Commit(c, "updateSharedInfrastructure", q.addr \notin DOMAIN db.infra,
              UpdateSharedInfrastructure(db, q.addr, [name |-> q.name, codehash |-> q.hash]))
    \/ Finish(c, "updateSharedInfrastructure", recordAuditAction(db, c))

deleteSharedInfrastructure(c) ==
    LET q == In(c) IN
    \/ Begin(c, "deleteSharedInfrastructure", requireSuperAdmin(c) /\ GetSharedInfrastructure(db, q.addr) # Nil)
    \/ Commit(c, "deleteSharedInfrastructure", q.addr \notin DOMAIN db.infra,
              DeleteSharedInfrastructure(db, q.addr))
    \/ Finish(c, "deleteSharedInfrastructure", recordAuditAction(db, c))

\* The node's code hash is written with the name that was read before it was
\* asked.  Without a tracer (load.code empty) there is nobody to ask.
refreshSharedInfraCodehash(c) ==
    LET q == In(c) IN
    \/ Begin(c, "refreshSharedInfraCodehash",
             requireSuperAdmin(c) /\ load.code # {} /\ GetSharedInfrastructure(db, q.addr) # Nil)
    \/ Commit(c, "refreshSharedInfraCodehash", q.addr \notin DOMAIN db.infra,
              UpdateSharedInfrastructure(db, q.addr,
                  [seen[c].infra[q.addr] EXCEPT !.codehash = IF q.addr \in load.code THEN "code" ELSE "empty"]))
    \/ Finish(c, "refreshSharedInfraCodehash", recordAuditAction(db, c))

----------------------------------------------------------------------------
(* System switches                                                         *)

getSwitch(c, op) == Answer(c, op, TRUE, Rows({}, {}))

handleGetEthCallTracing(c) == getSwitch(c, "handleGetEthCallTracing")

handleGetIntraOrgGrantTracing(c) == getSwitch(c, "handleGetIntraOrgGrantTracing")

\* Only with the super admin's token and a stated reason; set at once, then
\* recorded.
setSwitch(c, op, switch) ==
    LET q == In(c) IN
    \/ /\ At(c, op, "admitted")
       /\ LET ok == q.by = "admin_token" /\ q.flag # Nil /\ q.reason IN
          /\ Go(c, IF ok THEN "written" ELSE "refused", db)
          /\ switches' = IF ok THEN [switches EXCEPT ![switch] = [enabled |-> q.flag, by |-> c]] ELSE switches
       /\ UNCHANGED <<seen, tickets>>
    \/ Finish(c, op, recordAuditAction(db, c)) /\ Same

handlePostEthCallTracing(c) == setSwitch(c, "handlePostEthCallTracing", "eth_call_tracing")

handlePostIntraOrgGrantTracing(c) == setSwitch(c, "handlePostIntraOrgGrantTracing", "intra_org_grant_tracing")

----------------------------------------------------------------------------
(* The specification                                                       *)

Switch == {"eth_call_tracing", "intra_org_grant_tracing"}

Init ==
    /\ load \in Loads
    /\ db = load.db
    /\ pc = [c \in DOMAIN load.calls |-> "new"]
    /\ scope = [c \in DOMAIN load.calls |-> [full |-> {}, read |-> {}]]
    /\ seen = [c \in DOMAIN load.calls |-> load.db]
    /\ shown = [c \in DOMAIN load.calls |-> Rows({}, {})]
    /\ tickets = load.tickets
    /\ switches = [s \in Switch |-> [enabled |-> TRUE, by |-> Nil]]

\* The handlers behind the admin middleware.
Administer(c) ==
    \/ createOrganization(c) \/ updateOrganization(c) \/ deleteOrganization(c)
    \/ listOrganizations(c) \/ getOrganization(c)
    \/ createGroup(c) \/ updateGroup(c) \/ deleteGroup(c) \/ batchDeleteGroups(c)
    \/ listGroups(c) \/ getGroup(c) \/ getGroupAccess(c) \/ batchDeletePreview(c) \/ setGroupAccess(c)
    \/ createContract(c) \/ claimUnregisteredContract(c) \/ updateContract(c) \/ updateContractABI(c)
    \/ updateContractAllowVisibleToUnlock(c) \/ updateContractEventsAllowDynamicPayload(c)
    \/ deleteContract(c) \/ deleteStaleContracts(c) \/ listContracts(c) \/ getContract(c)
    \/ listContractEvents(c) \/ getContractGrantSummary(c) \/ listContractGrants(c)
    \/ checkContractsOnChain(c) \/ lookupContractByAddress(c)
    \/ createContractGrant(c) \/ updateContractGrant(c) \/ deleteContractGrant(c) \/ batchMoveContracts(c)
    \/ listRBACUsers(c) \/ getRBACUser(c) \/ updateRBACUser(c) \/ getUserLinkedAddresses(c)
    \/ deleteRBACUser(c) \/ listUserMemberships(c) \/ getEffectivePermissions(c) \/ checkAccessAPI(c)
    \/ getEthAddressCollisions(c) \/ createUserMembership(c) \/ createMembershipByDID(c)
    \/ deleteMembershipByDID(c) \/ deleteUserMembership(c)
    \/ listAzureTenants(c) \/ getAzureTenant(c) \/ createAzureTenant(c) \/ updateAzureTenant(c)
    \/ deleteAzureTenant(c)
    \/ impersonationGateMiddleware(c) \/ recordImpersonationRequest(c)
    \/ listSharedInfrastructure(c) \/ getSharedInfrastructure(c) \/ createSharedInfrastructure(c)
    \/ updateSharedInfrastructure(c) \/ deleteSharedInfrastructure(c) \/ refreshSharedInfraCodehash(c)
    \/ handleGetEthCallTracing(c) \/ handleGetIntraOrgGrantTracing(c)

\* The handlers behind the users' own tokens, and the logins.
Identify(c) ==
    \/ handleAzureAuthURL(c) \/ handleAzureCallback(c) \/ handleAzureServicePrincipal(c)
    \/ completeAzureLogin(c)
    \/ CreateChallenge(c) \/ handleEthLinkVerify(c) \/ resolveAndStoreENS(c)
    \/ handleGetEthAddresses(c) \/ handleDeleteEthAddress(c) \/ handleRefreshENS(c)
    \/ getMyAdminStatus(c) \/ getMyOrganizations(c)

\* A request resolves the permissions of a user in an organization.
Resolve ==
    /\ \E p \in load.resolves : GetUser(db, p[1]) # Nil /\ GetOrganization(db, p[2]) # Nil
                                /\ db' = ResolvePermissions(db, p[1], p[2])
    /\ UNCHANGED <<load, pc, scope, seen, shown>> /\ Same

Tick ==
    /\ db.now < load.horizon
    /\ db' = [db EXCEPT !.now = @ + 1]
    /\ UNCHANGED <<load, pc, scope, seen, shown>> /\ Same

expiredMembershipCleanupLoop ==
    /\ db' = DeleteExpiredMemberships(db) /\ db' # db
    /\ UNCHANGED <<load, pc, scope, seen, shown>> /\ Same

Next ==
    \/ \E c \in DOMAIN load.calls :
          \/ In(c).by \notin {"subject", "azure"} /\ Admit(c) /\ Same
          \/ Administer(c) /\ Same
          \/ handlePostEthCallTracing(c) \/ handlePostIntraOrgGrantTracing(c)
          \/ Identify(c)
    \/ Resolve \/ Tick \/ cleanup \/ expiredMembershipCleanupLoop

Spec == Init /\ [][Next]_vars

----------------------------------------------------------------------------
(* Properties                                                              *)

\* The rows in which two versions of a table differ.
Changed(t, u) ==
    {i \in DOMAIN t \cup DOMAIN u : i \notin DOMAIN t \/ i \notin DOMAIN u \/ t[i] # u[i]}

\* The row with identifier i in whichever version has it.
Either(t, u, i) == IF i \in DOMAIN t THEN t[i] ELSE u[i]

GroupOf(i) == Either(db.groups, db'.groups, i)

\* An org admin's call acts within the organizations the middleware found it to
\* administer, and leaves org-admin groups (as the call read them) alone.
JwtStepAllowed(c) ==
    LET mayTouch(g) == /\ GroupOf(g).org \in scope[c].full
                       /\ g \in DOMAIN seen[c].groups => ~seen[c].groups[g].admin \/ seen[c].groups[g].auto
    IN  /\ DOMAIN db'.orgs = DOMAIN db.orgs
        /\ Changed(db.orgs, db'.orgs) \subseteq scope[c].full
        /\ \A g \in Changed(db.groups, db'.groups) :
              /\ GroupOf(g).org \in scope[c].full
              /\ g \notin DOMAIN db'.groups => mayTouch(g)
              /\ g \in DOMAIN db'.groups =>
                    db'.groups[g].admin = IF g \in DOMAIN seen[c].groups THEN seen[c].groups[g].admin ELSE FALSE
        /\ \A g \in Changed(db.access, db'.access) : mayTouch(g)
        /\ \A m \in Changed(db.members, db'.members) :
              In(c).op # "deleteRBACUser" => mayTouch(Either(db.members, db'.members, m).group)
        /\ \A k \in Changed(db.contracts, db'.contracts) :
              Either(db.contracts, db'.contracts, k).org \in scope[c].full
        /\ \A n \in Changed(db.grants, db'.grants) :
              GroupOf(Either(db.grants, db'.grants, n).group).org \in scope[c].full
        /\ \A u \in Changed(db.users, db'.users) :
              \/ u \notin DOMAIN db.users
              \/ GetUserOrgIDs(seen[c], u) \cap scope[c].full # {}
        /\ DOMAIN db'.tenants = DOMAIN db.tenants /\ db'.infra = db.infra

\* The operator's call manages organizations and who administers them, and
\* touches nothing else of a tenant.
OperatorStepAllowed(c) ==
    LET tenantGroup(g) ==
            g \in DOMAIN seen[c].groups /\ g # DefaultGroup /\ seen[c].groups[g].org # DefaultOrg
              /\ ~seen[c].groups[g].admin /\ ~seen[c].groups[g].readonly /\ ~seen[c].groups[g].system
    IN  In(c).op # "deleteOrganization" =>
          /\ \A g \in Changed(db.groups, db'.groups) :
                tenantGroup(g) => g \in DOMAIN db'.groups /\ (db'.groups[g].admin \/ db'.groups[g].readonly)
          /\ \A g \in Changed(db.access, db'.access) : ~tenantGroup(g)
          /\ \A m \in Changed(db.members, db'.members) : ~tenantGroup(Either(db.members, db'.members, m).group)
          /\ \A k \in Changed(db.contracts, db'.contracts) : Either(db.contracts, db'.contracts, k).org = DefaultOrg
          /\ Changed(db.users, db'.users) \cap DOMAIN db.users = {}
          /\ DOMAIN db'.tenants = DOMAIN db.tenants /\ db'.infra = db.infra

\* Whatever calls overlap, a step of an org admin's call changes rows of
\* organizations it fully administers only, never makes, unmakes, fills,
\* empties or removes an org-admin group, and a step of the operator's call
\* changes no tenant group, contract or user.
\* (adminAuthMiddleware, orgScopingMiddleware, admin_scope.go and the handlers
\* that read rows before they write)
AuthorityRespected ==
    [][\A c \in DOMAIN load.calls :
          pc'[c] # pc[c] =>
             /\ jwt(c) => JwtStepAllowed(c)
             /\ operator(c) => OperatorStepAllowed(c)]_vars

\* However creations, moves and deletions interleave, a grant joins a contract
\* and a group of one organization and is the only one to do so; a membership
\* joins a user and a group that exist, once; an access row has its group; and
\* an address belongs to one contract.
\* (createContractGrant, batchMoveContracts, createUserMembership,
\* completeAzureLogin against the deletions)
ReferencesSound ==
    /\ \A n \in DOMAIN db.grants :
          /\ db.grants[n].contract \in DOMAIN db.contracts
          /\ db.grants[n].group \in DOMAIN db.groups
          /\ db.contracts[db.grants[n].contract].org = db.groups[db.grants[n].group].org
          /\ \A o \in DOMAIN db.grants \ {n} :
                <<db.grants[o].contract, db.grants[o].group>> # <<db.grants[n].contract, db.grants[n].group>>
    /\ \A m \in DOMAIN db.members :
          /\ db.members[m].user \in DOMAIN db.users /\ db.members[m].group \in DOMAIN db.groups
          /\ \A o \in DOMAIN db.members \ {m} :
                <<db.members[o].user, db.members[o].group>> # <<db.members[m].user, db.members[m].group>>
    /\ DOMAIN db.access \subseteq DOMAIN db.groups
    /\ \A g \in DOMAIN db.groups : db.groups[g].org \in DOMAIN db.orgs
    /\ \A k, l \in DOMAIN db.contracts : db.contracts[k].addr = db.contracts[l].addr => k = l
    /\ \A u, v \in DOMAIN db.users : db.users[u].did = db.users[v].did => u = v

FunctionsWithin(a, b) ==
    b = Nil \/ (a # Nil /\ DOMAIN a \subseteq DOMAIN b /\ \A s \in DOMAIN a : b[s] => a[s])

EventsWithin(a, b) ==
    \/ a.kind = "deny" \/ b.kind = "wildcard"
    \/ /\ a.kind = "rules" /\ b.kind = "rules"
       /\ \A t \in DOMAIN a.rules : t \in DOMAIN b.rules /\ b.rules[t] \in {Nil, a.rules[t]}

\* p allows nothing that q does not.
PermissionsWithin(p, q) ==
    /\ p.methods \subseteq q.methods /\ p.claims \subseteq q.claims
    /\ \A x \in DOMAIN p.contracts :
          /\ x \in DOMAIN q.contracts
          /\ p.contracts[x].claims \subseteq q.contracts[x].claims
          /\ FunctionsWithin(p.contracts[x].functions, q.contracts[x].functions)
          /\ EventsWithin(p.contracts[x].events, q.contracts[x].events)

\* A call that has written and not yet invalidated.
Writing(c) ==
    \/ pc[c] = "written"
    \/ pc[c] = "checked" /\ In(c).op \in {"deleteRBACUser", "deleteStaleContracts"}

\* Once every call that took rights away has finished, no published permission
\* row that may still be served allows more than the tables do: each handler
\* that narrows access, a membership, a group, a contract or a grant
\* invalidates the rows it affects, also when calls overlap, and rows do not
\* outlive the memberships they rest on.
\* (InvalidateUser, InvalidateGroup, InvalidateOrg, invalidating_deletes.go,
\* cacheExpiry)
RightsWithdrawn ==
    (\A c \in DOMAIN load.calls : ~Writing(c)) =>
        \A p \in DOMAIN db.cached :
            db.cached[p].expires > db.now =>
                \A now \in {computePermissions(db, p[1], p[2])} : PermissionsWithin(db.cached[p], now)

\* The organizations of all memberships of a user, ended ones included.
EverIn(d, u) == {d.groups[d.members[m].group].org : m \in ListUserMemberships(d, u)}

\* What an org admin's call is answered with belongs to organizations the
\* middleware found it to administer (fully or read-only), and the users among
\* it have a membership there.  Address collisions are listed with every DID
\* of the address once one of them is in scope.
\* (requireTargetInScope, requireUserInCallerScope, resolveListUsersScope,
\* listUserMemberships' filter, impersonationGateMiddleware)
ReadsScoped ==
    \A c \in DOMAIN load.calls :
        jwt(c) /\ In(c).op # "getEthAddressCollisions" =>
            /\ shown[c].orgs \subseteq Scoped(c)
            /\ \A u \in shown[c].users : EverIn(seen[c], u) \cap Scoped(c) # {}

\* A login that had read the tenant's row before the tenant was removed.
LoginOverlapped(c, did) ==
    \E l \in DOMAIN load.calls :
        /\ In(l).op \in LoginOps /\ In(l).did = did
        /\ pc[l] \notin {"new", "identified"}
        /\ GetAllowedAzureTenantByTenantID(seen[l], In(l).tid) # Nil

\* Identities hold: a user is bound to the tenant they signed in through for
\* good; once a tenant's removal has finished, its users are banned and hold no
\* refresh token, except for a login that was already past the allowlist; a
\* challenge links at most one address, to the DID it was made for; a pair
\* that was revoked stays revoked; one is seen as another user only by a full
\* admin of an organization that user was in, and every view is recorded; a
\* switch is as configured or as the super admin set it.
\* (completeAzureLogin, deleteAzureTenant, ChallengeStore.GetChallenge,
\* LinkEthAddress, impersonationGateMiddleware, handlePostEthCallTracing)
IdentitySound ==
    /\ \A c \in DOMAIN load.calls :
          /\ In(c).op = "deleteAzureTenant" /\ pc[c] = "done" =>
                \A u \in DOMAIN db.users :
                    db.users[u].tenant = seen[c].tenants[In(c).t].tenant =>
                        \/ db.users[u].banned /\ db.users[u].did \notin db.tokens
                        \/ LoginOverlapped(c, db.users[u].did)
          /\ In(c).op \in LoginOps /\ pc[c] = "done" =>
                \A u \in DOMAIN db.users : db.users[u].did = In(c).did => db.users[u].tenant = In(c).tid
          /\ In(c).op = "impersonate" /\ shown[c].users # {} =>
                /\ In(c).org \in scope[c].full
                /\ \A u \in shown[c].users : In(c).org \in GetUserOrgIDs(seen[c], u)
                /\ <<"impersonation", c, "allow">> \in db.audit
    /\ \A p \in DOMAIN db.links :
          /\ p \in DOMAIN load.db.links /\ load.db.links[p].revoked => db.links[p].revoked
          /\ p \notin DOMAIN load.db.links =>
                \E c \in DOMAIN load.calls : In(c).op = "handleEthLinkVerify" /\ In(c).proved
                                              /\ <<In(c).did, In(c).addr>> = p
    /\ \A c, e \in DOMAIN load.calls :
          {In(c).op, In(e).op} = {"handleEthLinkVerify"} /\ c # e /\ In(c).nonce = In(e).nonce =>
              "refused" \in {pc[c], pc[e]} \/ "new" \in {pc[c], pc[e]}
    /\ \A s \in Switch : switches[s].by # Nil => In(switches[s].by).by = "admin_token"

============================================================================
