--------------------------- MODULE SimulationDecision ---------------------------
(* Submissions and their simulations: what the gateway decides on a transaction  *)
(* or a call once it has traced it (validateWithTracing and its siblings), and   *)
(* the two oracles that predict that decision without acting on it: the dry run  *)
(* an administrator asks of one organization, and the policy check a partner     *)
(* asks across the organizations of an allowlist.                                *)
(*                                                                               *)
(* A submission s is [via, q, from, u, w, trace, prepared]: via is "send", "raw" *)
(* or "call"; q, u, w and trace are as in TraceDecision, w with the two tracing  *)
(* switches and the verdict of the compliance check; u also has the claims of    *)
(* its groups' own access rows.  "prepared" is the signed preflight of a raw     *)
(* transaction [some, plain, fresh, noCode, surviving].                          *)
EXTENDS TraceDecision

Passed(created) == [allowed |-> TRUE, kind |-> "none", created |-> created]
Failed(kind) == [allowed |-> FALSE, kind |-> kind, created |-> {}]

\* intraOrgGrantTraceOptions: within the caller's organizations only what is granted, if so configured.
GrantScope(u, w, orgs, target) ==
    [scoped |-> w.grantTracing, client |-> FALSE, createdAsOwn |-> FALSE, fresh |-> {}, noCode |-> {},
     granted |-> UNION {DOMAIN u.perms[o].access : o \in orgs} \cup ({target} \ {"none"}),
     inScope |-> EveryOrg(w)]

\* membershipsHaveDeployClaim looks at the rows of the groups, not at effective permissions.
AnyGroupDeploys(u) == u.groupClaims \cap {"deploy", "admin"} # {}

Traced(trace, orgs, deploy, w, o) ==
    LET outcome(v) == IF v.allowed THEN Passed(v.created) ELSE Failed(v.kind)
        judge(parsed) == IF ~parsed.ok THEN Failed("unavailable")
                         ELSE outcome(ValidateTrace(parsed.targets, orgs, deploy, w, o))
    IN  judge(ParseCallTrace(trace))

IsValueTransfer(q, w) == q.data = "none" /\ q.to # "none" /\ w.code[q.to] = "empty"

\* eth_sendTransaction
ValidateWithTracing(s) ==
    LET target == TargetAddress(s.q)
    IN  IF target = "none" THEN Passed({})
        ELSE IF s.from \notin s.u.linked \cup {"none"} THEN Failed("sender")
        ELSE IF IsValueTransfer(s.q, s.w) THEN Passed({})
        ELSE Traced(s.trace, s.u.orgs, AnyGroupDeploys(s.u), s.w, GrantScope(s.u, s.w, s.u.orgs, s.q.to))

\* eth_sendRawTransaction, with or without a signed preflight.
ValidateRaw(s) ==
    LET scope == GrantScope(s.u, s.w, s.u.orgs, s.q.to)
        o == IF s.prepared.some
             THEN [scope EXCEPT !.fresh = s.prepared.fresh, !.noCode = s.prepared.noCode] ELSE scope
        kept(v) == IF v.allowed /\ s.prepared.some THEN Passed(v.created \cap s.prepared.surviving) ELSE v
    IN  IF IF s.prepared.some THEN s.prepared.plain ELSE IsValueTransfer(s.q, s.w) THEN Passed({})
        ELSE kept(Traced(s.trace, s.u.orgs, AnyGroupDeploys(s.u), s.w, o))

CallTraced == {"eth_call", "eth_estimateGas", "eth_createAccessList"}

\* traceShapeOptions: the code of a simulated creation may call what it creates.
ShapeOptions(q, o) ==
    [o EXCEPT !.createdAsOwn = Effective(q) \in CallTraced /\ TargetAddress(q) = "none"]

\* eth_call and its siblings: creations always, calls if so configured.
ValidateEthCall(s, org) ==
    LET q == s.q
        creation == TargetAddress(q) = "none"
        pinned == q.scope # "none"
        orgs == IF pinned THEN {q.scope} ELSE s.u.orgs
        deploy == IF pinned THEN UserHasDeploy(s.u, q.scope)
                  ELSE IF org = "none" THEN AnyGroupDeploys(s.u) ELSE UserHasDeploy(s.u, org)
    IN  IF Effective(q) \notin CallTraced THEN Passed({})
        ELSE IF ~creation /\ (Effective(q) = "eth_createAccessList" \/ ~s.w.callTracing) THEN Passed({})
        ELSE IF creation /\ (q.shape # "creation" \/ q.data = "none") THEN Failed("shape")
        ELSE IF s.u.anonymous \/ ~s.u.exists \/ s.from \notin s.u.linked \cup {"none"} THEN Failed("sender")
        ELSE Traced(s.trace, orgs, deploy, s.w, ShapeOptions(q, GrantScope(s.u, s.w, orgs, q.to)))

Gateway(s) ==
    LET traced(org) == CASE s.via = "send" -> ValidateWithTracing(s)
                         [] s.via = "raw" -> ValidateRaw(s)
                         [] s.via = "call" -> ValidateEthCall(s, org)
        outcome(org, v) == [allowed |-> v.allowed /\ (s.via \in {"send", "raw"} => ~s.w.blocked),
                            org |-> org, created |-> v.created]
        judge(access) == IF ~access.allowed THEN [allowed |-> FALSE, org |-> access.org, created |-> {}]
                         ELSE outcome(access.org, traced(access.org))
    IN  judge(CheckAccess(s.q, s.u, s.w))
-----------------------------------------------------------------------------
(* ------------------------------- the dry run ------------------------------- *)

DryRunReadMethods == {"eth_call", "eth_getLogs", "eth_getTransactionByHash", "eth_getBalance",
                      "eth_getCode", "eth_getStorageAt"} \cup OrgFree

\* The compliance check of a simulated write, without its side effects.
PreviewBlocked(s) == s.via \in {"send", "raw"} /\ s.w.blocked

\* traceVerdict for an administrator: what another organization would decide stays open.
LocalVerdict(kind) == IF kind \in {"foreign_org", "create_foreign_org"} THEN "indeterminate" ELSE "deny"

\* handleDryRun for a member of the administrator's organization.
DryRun(s, org) ==
    LET q == [s.q EXCEPT !.org = org, !.scope = org]
        foretold(v) == CASE v.kind = "unavailable" -> "refused"
                         [] v.kind # "unavailable" /\ ~v.allowed -> LocalVerdict(v.kind)
                         [] OTHER -> IF PreviewBlocked(s) THEN "deny" ELSE "allow"
    IN  IF s.via = "call" /\ (s.q.method \notin DryRunReadMethods \/ s.w.strict) THEN "refused"
        ELSE IF ~s.u.exists \/ org \notin s.u.orgs THEN "refused"
        ELSE IF ~CheckAccess(q, s.u, s.w).allowed THEN "deny"
        ELSE IF s.from \notin s.u.linked \cup {"none"} THEN "deny"
        ELSE IF s.via = "call" /\ s.q.method # "eth_call" THEN "allow"
        ELSE foretold(Traced(s.trace, {org}, UserHasDeploy(s.u, org), s.w,
                             ShapeOptions(q, GrantScope(s.u, s.w, {org}, TargetAddress(q)))))

(* ----------------------------- the policy check ---------------------------- *)

\* The contract's organization; an address that is only reserved has none here.
ContractOwner(a, w) == IF a \in w.preregistered THEN "none" ELSE w.owner[a]

\* resolveOracleOrg: the organization evaluated, or the answer that ends the query.
ResolveOracleOrg(u, w, allow, requested, target) ==
    LET owner == ContractOwner(target, w)
        mine == IF u.exists THEN u.orgs \cap allow ELSE {}
        org == IF owner # "none" THEN owner
               ELSE IF requested # "none" THEN requested
               ELSE IF Cardinality(mine) = 1 THEN CHOOSE o \in mine : TRUE ELSE "none"
    IN  IF owner # "none" /\ owner \notin allow THEN [org |-> "none", early |-> "outside"]
        ELSE IF mine = {} THEN [org |-> "none", early |-> "outside"]
        ELSE IF org \notin mine THEN [org |-> org, early |-> "deny"]
        ELSE [org |-> org, early |-> "none"]

OracleOrgs(u, allow) == u.orgs \cap allow

PolicyCheckEOATransfer(s) == s.via \in {"send", "raw"} /\ IsValueTransfer(s.q, s.w)

\* handlePolicyCheck and simulatePolicyCheck.
PolicyCheck(s, allow, requested) ==
    LET orgs == OracleOrgs(s.u, allow)
        options(q) == [ShapeOptions(q, GrantScope(s.u, s.w, orgs, TargetAddress(q))) EXCEPT !.inScope = allow]
        foretold(v) ==
            IF v.kind = "unavailable" THEN "unavailable"
            ELSE IF ~v.allowed THEN IF v.kind = "out_of_scope_org" THEN "outside" ELSE "deny"
            ELSE IF PreviewBlocked(s) THEN "deny" ELSE "allow"
        judge(q, access) ==
            IF access.org # "none" /\ access.org \notin allow THEN "outside"
            ELSE IF ~access.allowed THEN "deny"
            ELSE IF s.via = "call" /\ Effective(q) \notin CallTraced
                 THEN IF IsCatalogMethod(Effective(q)) THEN "allow" ELSE "not_simulated"
            ELSE IF Effective(q) = "eth_createAccessList" /\ TargetAddress(q) # "none" THEN "not_simulated"
            ELSE IF s.from \notin s.u.linked \cup {"none"} THEN "deny"
            ELSE foretold(IF PolicyCheckEOATransfer(s) THEN Passed({})
                          ELSE Traced(s.trace, orgs, UserHasDeploy(s.u, access.org), s.w, options(q)))
        within(q) == judge(q, CheckAccess(q, s.u, s.w))
        resolved(r) == IF r.early # "none" THEN r.early
                       ELSE within([s.q EXCEPT !.org = r.org, !.scope = r.org])
    IN  IF requested # "none" /\ requested \notin allow THEN "outside"
        ELSE resolved(ResolveOracleOrg(s.u, s.w, allow, requested, TargetAddress(s.q)))
=============================================================================
