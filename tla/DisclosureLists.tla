-------------------------- MODULE DisclosureLists --------------------------
(***************************************************************************)
(* What subjects and administrators are shown of the disclosures           *)
(* (db/disclosure_store, server/disclosure): the lists of a subject's      *)
(* requests and grants, the filtered lists of an organization, and         *)
(* check-access.  Every request of the model is made in the organization   *)
(* Home by one viewer; a list is the set of its rows, within one page.     *)
(***************************************************************************)
EXTENDS Disclosure

Home == "home"

\* How an administrator was let in, and the organizations a tier-2 one administers or
\* may read.
Callers == [method : {"admin_token", "operator_token"}, orgs : {{}}]
           \cup [method : {"jwt_admin"}, orgs : {{Home}, {"other"}, {Home, "other"}}]

\* The subject of request r: those that wait for an answer, those of any status; the
\* grants in force, all grants.
ListPendingDisclosureRequestsForUser(r) ==
    {q \in {r} : requests[q].status = "pending"
                 /\ (requests[q].expires = 0 \/ requests[q].expires > now)}
ListAllDisclosureRequestsForUser(r) == {q \in {r} : Stored(q)}
ListAllDisclosureGrantsForTarget(r) == {g \in Grants : Live(g) /\ grants[g].request = r}
ListActiveDisclosureGrantsForTarget(r) ==
    {g \in Grants : /\ Live(g) /\ grants[g].request = r
                    /\ ~grants[g].revoked /\ grants[g].expires > now}

\* The grant that a listed request is marked with.
ActiveGrantIDs(r) ==
    {g \in Grants : /\ Live(g) /\ grants[g].request = r
                    /\ ~grants[g].revoked /\ grants[g].expires > now}

\* A filter leaves open what is "any".
NoFilter == [status |-> "any", target |-> "any", level |-> "any", org |-> "any"]
Matches(value, asked) == asked = "any" \/ value = asked

ListDisclosureRequestsWithFilter(f) ==
    {r \in Requests : /\ Stored(r)
                      /\ Matches(requests[r].status, f.status)
                      /\ Matches(r, f.target)
                      /\ Matches(requests[r].scope.level, f.level)
                      /\ Matches(Home, f.org)}

\* A grant has no status: the filter's is read as the state of the row, and one that no
\* grant can have is not a condition.
GrantStatus(row, status) ==
    CASE status = "approved" -> ~row.revoked /\ row.expires > now
      [] status = "revoked" -> row.revoked
      [] status = "expired" -> ~row.revoked /\ row.expires <= now
      [] OTHER -> TRUE

ListDisclosureGrantsWithFilter(f) ==
    {g \in Grants : /\ Live(g)
                    /\ Matches(grants[g].request, f.target)
                    /\ Matches(grants[g].scope.level, f.level)
                    /\ Matches(Home, f.org)
                    /\ GrantStatus(grants[g], f.status)}
----------------------------------------------------------------------------
\* The organization that a call is about when it names none ("any"): a tier-2
\* administrator's only one; "none" is the refusal to guess.
resolveAdminOrgID(c, explicit) ==
    IF explicit # "any" THEN explicit
    ELSE IF c.method # "jwt_admin" THEN "default"
    ELSE IF Cardinality(c.orgs) = 1 THEN CHOOSE o \in c.orgs : TRUE ELSE "none"

inScope(c, org) == c.method = "jwt_admin" => org \in c.orgs

\* denyOperatorTenantRead, the organization, and requireTargetInScope.
Admitted(c, asked) ==
    /\ c.method # "operator_token"
    /\ resolveAdminOrgID(c, asked) # "none" /\ inScope(c, resolveAdminOrgID(c, asked))

listDisclosureRequests(c, f) ==
    IF Admitted(c, f.org)
    THEN ListDisclosureRequestsWithFilter([f EXCEPT !.org = resolveAdminOrgID(c, f.org)]) ELSE {}

listDisclosureGrants(c, f) ==
    IF Admitted(c, f.org)
    THEN ListDisclosureGrantsWithFilter([f EXCEPT !.org = resolveAdminOrgID(c, f.org)]) ELSE {}

\* Whether request r is shown, and whether the viewer's access to its subject is.
getDisclosureRequest(c, r) == c.method # "operator_token" /\ Stored(r) /\ inScope(c, Home)
checkDisclosureAccess(c, r) == c.method # "operator_token" /\ HasAccess(r) /\ inScope(c, Home)
----------------------------------------------------------------------------
\* The subject sees what happens to its data: what it is asked, it can still decide; a grant
\* that a read starting now would be served on is among those it sees in force, and one
\* being served, while it exists, among all of them; a request is marked as granted
\* exactly when check-access says so.
SubjectSees ==
    \A r \in Requests :
        /\ \A q \in ListPendingDisclosureRequestsForUser(r) :
              ~IsExpired(q) /\ IsValid(requests[q].scope, Addresses)
        /\ \A g \in Grants :
              /\ Live(g) /\ grants[g].request = r /\ EligibleRequest(r) /\ IsActive(grants[g])
                 => g \in ListActiveDisclosureGrantsForTarget(r)
              /\ \A h \in Handlers :
                    /\ handlers[h].op \in Routes \cup {"list"}
                    /\ g \in handlers[h].set /\ Live(g) /\ grants[g].request = r
                    => /\ g \in ListAllDisclosureGrantsForTarget(r)
                       /\ r \in ListAllDisclosureRequestsForUser(r)
        /\ (ActiveGrantIDs(r) # {}) = HasAccess(r)

\* A grant is in one of the three states the filter knows, and the one in force is the one
\* check-access answers with.
GrantStatesPartition ==
    LET in(status) == ListDisclosureGrantsWithFilter([NoFilter EXCEPT !.status = status])
    IN  /\ \A g \in Grants :
              Live(g) => Cardinality({s \in {"approved", "revoked", "expired"} : g \in in(s)}) = 1
        /\ \A r \in Requests : HasAccess(r) = (\E g \in in("approved") : grants[g].request = r)

\* An administrator of the organization sees exactly what its subjects see; one of another
\* organization, and the operator, see nothing; and nobody is shown an organization's rows
\* by not naming one, but who administers that one alone.
AdministratorsSee ==
    \A all \in {UNION {ListAllDisclosureRequestsForUser(r) : r \in Requests}} :
        all # {} =>
        \A c \in Callers, asked \in {"any", Home} :
            LET f == [NoFilter EXCEPT !.org = asked]
                sees == /\ c.method = "admin_token" \/ (c.method = "jwt_admin" /\ Home \in c.orgs)
                        /\ asked = Home \/ (asked = "any" /\ c.orgs = {Home})
            IN  /\ listDisclosureRequests(c, f) = IF sees THEN all ELSE {}
                /\ listDisclosureGrants(c, f)
                      = IF sees THEN {g \in Grants : Live(g) /\ grants[g].request \in all} ELSE {}
                /\ sees => \A r \in Requests : /\ getDisclosureRequest(c, r) = (r \in all)
                                                /\ checkDisclosureAccess(c, r) = HasAccess(r)

\* Access ends: a read that begins after the end is not served, check-access finds no
\* grant of a revoked request, and a rejected or revoked request is not approved again.
\* Until it does, the subject and the administrators of its organization, and nobody
\* else, are shown it.
AccessEnds ==
    /\ [](EndedNotServed /\ RevokeEndsAccess /\ SubjectSees /\ GrantStatesPartition
          /\ AdministratorsSee)
    /\ DecisionFinal
=============================================================================
