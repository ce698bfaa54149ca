----------------------------- MODULE MCDecisions -----------------------------
EXTENDS Decisions, TLC

MCAliases == "zk_call" :> "eth_call" @@ "zk_storage" :> "eth_getStorageAt"
MCPassthrough == {"zk_pass"}
MCUnionLimit == 2

(* --------------------------- calls and their callers ----------------------- *)
\* Two tenants a and b: contracts ca and da, and a reserved address pa, of a;
\* cb of b; x of nobody; a precompile; shared infrastructure, one piece of which
\* no longer has the attested code.
Owner == "ca" :> "a" @@ "da" :> "a" @@ "pa" :> "a" @@ "cb" :> "b" @@ "x" :> "none"
         @@ "pre" :> "none" @@ "sh" :> "none" @@ "changed" :> "none"
         @@ "multicall" :> "none" @@ "none" :> "none" @@ "zero" :> "none"
         @@ "me" :> "none" @@ "you" :> "none" @@ "eoa" :> "none" @@ "new" :> "none"
RpcWorld(strict) ==
    [owner |-> Owner, precompiles |-> {"pre"}, preregistered |-> {"pa"},
     anonymous |-> {"eth_call", "zk_call", "eth_chainId", "eth_getStorageAt", "eth_getBalance"},
     implementation |-> "a", shared |-> {"sh", "changed"},
     attested |-> [x \in DOMAIN Owner |-> IF x \in {"sh", "changed"} THEN "v1" ELSE "none"],
     code |-> [x \in DOMAIN Owner |-> CASE x = "changed" -> "v2" [] x = "eoa" -> "empty" [] OTHER -> "v1"],
     strict |-> strict, callTracing |-> TRUE, grantTracing |-> TRUE, blocked |-> FALSE]

Acc(claims, all, functions, own) ==
    [some |-> TRUE, explicit |-> TRUE, claims |-> claims, all |-> all, functions |-> functions, own |-> own]
Perms(methods, claims, access) == [methods |-> methods, claims |-> claims, access |-> access]
NoAccess == [x \in {} |-> Acc({}, TRUE, {}, {})]
User(orgs, perms) ==
    [anonymous |-> FALSE, exists |-> TRUE, banned |-> FALSE, kyc |-> TRUE, orgAdmin |-> FALSE,
     orgs |-> orgs, deployed |-> {}, linked |-> {"me"}, perms |-> perms,
     groupClaims |-> UNION {perms[o].claims : o \in DOMAIN perms}]

Restricted == User({"a"}, "a" :> Perms({"*"}, {}, "ca" :> Acc({}, FALSE, {"f"}, {"f"})))
Administrator == [User({"a"}, "a" :> Perms({"*", "zk_storage"}, {"deploy"},
                        "ca" :> Acc({"admin", "upgrade"}, TRUE, {}, {})
                        @@ "da" :> Acc({}, TRUE, {}, {}))) EXCEPT !.orgAdmin = TRUE]
TwoTenants == User({"a", "b"},
    "a" :> Perms({"eth_call", "zk_call", "zk_storage", "eth_getLogs", "debug_traceCall", "debug_traceTransaction"},
                 {}, "ca" :> Acc({}, FALSE, {"f", "g"}, {}))
    @@ "b" :> Perms({"*"}, {}, "cb" :> Acc({"upgrade"}, TRUE, {}, {})))
Deployer == [User({"a"}, "a" :> Perms({"eth_sendTransaction", "eth_call", "zk_call"}, {"deploy"}, NoAccess))
             EXCEPT !.deployed = {"x"}]
Anonymous == [User({}, <<>>) EXCEPT !.anonymous = TRUE]
Refused == {[Restricted EXCEPT !.banned = TRUE], [Restricted EXCEPT !.kyc = FALSE],
            [Restricted EXCEPT !.exists = FALSE], User({}, <<>>)}
MCCallers == {Restricted, Administrator, TwoTenants, Deployer, Anonymous} \cup Refused

AccessMethod(m) ==
    IF m \in DOMAIN MCAliases THEN MCAliases[m]
    ELSE IF m = "debug_traceCall" THEN "eth_call" ELSE "none"
Call(m, org, scope, shape, to, data, mine, block) ==
    [method |-> m, access |-> AccessMethod(m), org |-> org, scope |-> scope, shape |-> shape,
     to |-> to, logs |-> {}, data |-> data, mine |-> mine, block |-> block,
     keys |-> "wellknown", override |-> FALSE]

Orgs == {"none", "a", "b"}
Targets == {"ca", "da", "pa", "cb", "x", "pre"}
Shapes == ({"targeted"} \X Targets) \cup {<<"creation", "none">>, <<"malformed", "none">>, <<"malformed", "ca">>}
Datas == ({"none", "short", "g", "upgrade"} \X {FALSE}) \cup ({"f"} \X BOOLEAN)
TargetedCalls == {Call(m, org, scope, s[1], s[2], d[1], d[2], block) :
            m \in {"eth_call", "zk_call", "eth_sendTransaction", "debug_traceCall"},
            org \in Orgs, scope \in {"none", "a"}, s \in Shapes, d \in Datas,
            block \in {"latest", "number"}}
Reads == {[Call(m, org, scope, "absent", to, "none", FALSE, block) EXCEPT !.keys = keys] :
            m \in {"eth_getStorageAt", "zk_storage", "eth_getBalance"}, org \in Orgs,
            scope \in {"none", "a"}, to \in Targets, block \in {"latest", "number"},
            keys \in {"wellknown", "private"}}
LogFilters == {f \in SUBSET {"ca", "da", "cb", "x", "pre"} : Cardinality(f) \in 1..2}
LogSearches == UNION {{[Call("eth_getLogs", org, scope, "absent", first, "none", FALSE, "latest")
                          EXCEPT !.logs = f] : org \in Orgs, scope \in {"none", "a"}, first \in f} :
                      f \in LogFilters}
Others == {Call(m, org, "none", "absent", "none", "none", FALSE, "latest") :
             m \in {"eth_chainId", "eth_getTransactionByHash", "eth_newFilter", "unheard_of", "zk_pass"},
             org \in Orgs}
          \cup {[Call(m, "a", "none", "targeted", "ca", "f", TRUE, "latest") EXCEPT !.override = TRUE] :
                  m \in {"eth_call", "zk_call"}}
          \cup {Call("eth_call", "a", "none", "targeted", "multicall", "aggregate", FALSE, "latest")}
MCCalls == TargetedCalls \cup Reads \cup LogSearches \cup Others
MCRpcWorlds == {RpcWorld(FALSE)}

(* --------------------------------- call trees ------------------------------ *)
Frame(type, to, depth, data, mine) ==
    [type |-> type, to |-> to, depth |-> depth, failed |-> FALSE, input |-> data, mine |-> mine]
Roots == {Frame("CALL", to, 0, "f", TRUE) : to \in {"ca", "da", "cb"}}
Nested == {Frame(type, to, 1, d[1], d[2]) :
             type \in {"CALL", "DELEGATECALL"},
             to \in {"ca", "da", "pa", "cb", "x", "sh", "changed", "pre"},
             d \in {<<"f", TRUE>>, <<"f", FALSE>>, <<"g", FALSE>>}}
          \cup {Frame("CREATE", to, 1, "none", FALSE) : to \in {"x", "ca", "cb"}}
Inner == {<<>>} \cup {<<Frame(type, to, depth, "g", FALSE)>> :
             type \in {"CALL", "DELEGATECALL"}, to \in {"ca", "da", "cb"}, depth \in 1..2}
Trees == {<<r>> : r \in Roots} \cup {<<r, n>> \o i : r \in Roots, n \in Nested, i \in Inner}
MCTracers == {Restricted, Administrator, TwoTenants}
NoTx == [from |-> "none", to |-> "none", input |-> "none", mine |-> FALSE, visible |-> FALSE]
MCTraceWorlds == {RpcWorld(TRUE), RpcWorld(FALSE)}
MCTraces ==
    {[kind |-> "traceCall", from |-> "me", tx |-> NoTx, trace |-> t,
      q |-> Call("debug_traceCall", "a", "none", "targeted", t[1].to, t[1].input, t[1].mine, "latest")] : t \in Trees}
    \cup
    {[kind |-> "traceTransaction", from |-> "none", trace |-> t,
      tx |-> [from |-> s[1], to |-> t[1].to, input |-> t[1].input, mine |-> t[1].mine, visible |-> s[2]],
      q |-> Call("debug_traceTransaction", "a", "none", "absent", "none", "none", FALSE, "latest")] :
        t \in Trees, s \in {<<"me", FALSE>>, <<"you", FALSE>>, <<"you", TRUE>>}}

(* -------------------------------- submissions ------------------------------ *)
\* A member of both tenants with the right to send and to deploy; an
\* administrator of a whose own groups deploy nothing.
Sender == User({"a", "b"},
    "a" :> Perms({"eth_sendTransaction", "eth_call"}, {"deploy"}, "ca" :> Acc({}, TRUE, {}, {}))
    @@ "b" :> Perms({"eth_sendTransaction", "eth_call"}, {"deploy"}, "cb" :> Acc({}, TRUE, {}, {})))
BareAdministrator == [Administrator EXCEPT !.groupClaims = {}]
MCSenders == {Restricted, Administrator, Sender, Deployer, BareAdministrator}
CallTrees(to, data) ==
    LET root == Frame(IF to = "none" THEN "CREATE" ELSE "CALL", IF to = "none" THEN "new" ELSE to, 0, data, TRUE)
    IN  IF to = "eoa" THEN {<<root>>}
        ELSE {<<root>>} \cup {<<root, Frame(type, a, 1, "f", TRUE)>> :
              type \in {"CALL", "DELEGATECALL"}, a \in {"ca", "da", "pa", "cb", "x", "sh", "changed", "pre", "eoa"}}
        \cup {<<root, Frame("CREATE", a, 1, "none", FALSE)>> : a \in {"x", "cb"}}
        \cup {<<root, Frame("CREATE", "x", 1, "none", FALSE), Frame("CALL", a, 1, "f", TRUE)>> : a \in {"x", "cb"}}
Born(trace) == {trace[i].to : i \in {j \in 1..Len(trace) : trace[j].type \in Creates}}
NoPreflight == [some |-> FALSE, plain |-> FALSE, fresh |-> {}, noCode |-> {}, surviving |-> {}]
Preflights(to, data, trace) ==
    {NoPreflight} \cup
    {[some |-> TRUE, plain |-> to = "eoa" /\ data = "none", fresh |-> p[1], noCode |-> p[2], surviving |-> p[3]] :
        p \in {<<{}, {}, {}>>, <<{}, {}, Born(trace)>>, <<Born(trace), {"eoa"}, Born(trace)>>}}
Sent(via, to, data) ==
    Call(IF via = "call" THEN "eth_call" ELSE "eth_sendTransaction", "none", "none",
         IF to = "none" THEN "creation" ELSE "targeted", to, data, TRUE, "latest")
Submitted(via, to, data) ==
    UNION {{[via |-> via, q |-> Sent(via, to, data), trace |-> t, prepared |-> p, from |-> from] :
              p \in IF via = "raw" THEN Preflights(to, data, t) ELSE {NoPreflight},
              from \in {"me"} \cup (IF via = "raw" THEN {} ELSE {"you"})} : t \in CallTrees(to, data)}
MCSubmissions == UNION {Submitted(via, d[1], d[2]) : via \in {"send", "raw", "call"},
                    d \in {<<"ca", "f">>, <<"ca", "none">>, <<"cb", "f">>, <<"eoa", "none">>, <<"none", "f">>}}
MCSettings == {[RpcWorld(FALSE) EXCEPT !.callTracing = x[1], !.grantTracing = x[2], !.blocked = x[3]] :
                  x \in {<<TRUE, TRUE, FALSE>>, <<FALSE, FALSE, FALSE>>, <<TRUE, FALSE, TRUE>>}}
MCPolicies == {[allow |-> o[1], requested |-> o[2]] :
                  o \in {<<{"a"}, "none">>, <<{"a"}, "a">>, <<{"a", "b"}, "none">>, <<{"a", "b"}, "b">>}}

(* ---------------------------- viewers and the chain ------------------------ *)
\* The viewer u owns the address "me", another user "you"; ca and cb are the
\* contracts of two tenants, pend is reserved for a deployment, ghost is unknown.
Addresses == {"me", "you", "ca", "cb", "pend", "ghost", "pre", "zero"}
ChainWorld(strict, abi, dynamic, unlock) ==
    [links |-> [x \in Addresses |-> CASE x = "me" -> "u" [] x = "you" -> "z" [] OTHER -> "none"],
     contracts |-> [x \in Addresses |-> CASE x = "ca" -> "a" [] x = "cb" -> "b" [] OTHER -> "none"],
     pending |-> [x \in Addresses |-> IF x = "pend" THEN "a" ELSE "none"],
     precompiles |-> {"pre"}, abi |-> abi, dynamic |-> dynamic, unlock |-> unlock, strict |-> strict]
Granted(rules) == [some |-> TRUE, admin |-> FALSE, rules |-> rules]
Grants(onA, onB) == [x \in Addresses |-> CASE x = "ca" -> onA [] x = "cb" -> onB [] OTHER -> NoGrant]
Viewer(did, admins, claim, onA, onB) ==
    [did |-> did, admins |-> admins, claim |-> claim, grants |-> Grants(onA, onB), scope |-> "all"]
ToSelf == [kind |-> "list", list |-> {[event |-> "Transfer", params |-> {[index |-> 2, must |-> "self"]}]}]
OnlyE == [kind |-> "list", list |-> {[event |-> "E", params |-> {}]}]
Unpinned == {Viewer("none", {}, FALSE, NoGrant, NoGrant),
            Viewer("u", {}, FALSE, NoGrant, NoGrant),
            Viewer("u", {}, FALSE, Granted(ToSelf), NoGrant),
            Viewer("u", {}, FALSE, Granted(NoRules), Granted(OnlyE)),
            Viewer("u", {}, FALSE, Granted(AllRules), Granted(AllRules)),
            Viewer("u", {}, TRUE, AdminGrant, Granted(OnlyE)),
            Viewer("u", {"a"}, TRUE, NoGrant, Granted(AllRules))}

Log(emitter, event, args, indexed, dynamic) ==
    [emitter |-> emitter, event |-> event, args |-> args, indexed |-> indexed,
     dynamic |-> dynamic, fits |-> event # "none"]
Logs == {Log("ca", "Transfer", <<"you", "me">>, 2, FALSE),
         Log("ca", "Transfer", <<"you", "ghost">>, 2, FALSE),
         Log("ca", "E", <<"me", "you">>, 1, FALSE),
         Log("ca", "E", <<"you", "me">>, 0, TRUE),
         Log("ca", "none", <<"you", "cb">>, 0, FALSE),
         Log("cb", "Transfer", <<"me", "ca">>, 2, FALSE),
         Log("cb", "E", <<"you", "me">>, 2, TRUE)}
Transaction(hash, from, to, created, named, visibleTo, logs, internals) ==
    [hash |-> hash, from |-> from, to |-> to, created |-> created, named |-> named,
     visibleTo |-> visibleTo, org |-> "a", logs |-> logs, internals |-> internals]
MCTransactions == {Transaction(1, from, to, "none", {}, vis, <<l>>, <<>>) :
            from \in {"me", "you"}, to \in {"you", "ca", "cb"}, vis \in {{}, {"u"}}, l \in Logs}
        \cup {Transaction(1, from, "none", "cb", {}, vis, <<l>>, <<>>) :
                from \in {"me", "you"}, vis \in {{}, {"u"}}, l \in Logs}
        \cup {Transaction(1, "you", "ca", "none", {}, {}, <<l, m>>, <<>>) : l, m \in Logs}
MCViewers == {[v EXCEPT !.scope = s] : v \in Unpinned, s \in {"all", "a", "b", "none"}}
MCViews == {ChainWorld(strict, f[1], f[2], f[3]) : strict \in BOOLEAN,
              f \in {<<{}, {}, {"ca"}>>, <<{"ca", "cb"}, {}, {"ca"}>>, <<{"ca", "cb"}, {"ca"}, {}>>}}

Transfer(token, from, to) == Log(token, "Transfer", <<from, to>>, 2, FALSE)
Pair(from, to) == [from |-> from, to |-> to]
History ==
    {Transaction(1, "you", "ca", "none", {}, {}, <<Transfer("ca", "me", "you")>>, <<>>),
     Transaction(2, "you", "ca", "none", {}, {}, <<Transfer("ca", "zero", "you")>>, <<>>),
     Transaction(3, "you", "ghost", "none", {}, {}, <<Transfer("ca", "you", "ghost")>>, <<Pair("ghost", "ca")>>),
     Transaction(4, "you", "ghost", "none", {}, {}, <<Transfer("cb", "ca", "cb")>>, <<>>),
     Transaction(5, "you", "cb", "none", {}, {}, <<Transfer("ca", "ca", "zero")>>, <<Pair("cb", "ca")>>),
     Transaction(6, "you", "none", "pend", {}, {"u"}, <<>>, <<>>),
     Transaction(7, "you", "none", "ca", {}, {}, <<>>, <<Pair("ca", "none")>>),
     Transaction(8, "me", "you", "none", {}, {}, <<Log("ca", "E", <<"you", "me">>, 2, FALSE)>>, <<Pair("you", "ghost")>>),
     Transaction(9, "you", "ghost", "none", {"me"}, {}, <<Log("ca", "E", <<"you", "me">>, 1, TRUE)>>, <<>>),
     Transaction(10, "ghost", "cb", "none", {}, {"u"}, <<Log("ca", "E", <<"you", "ghost">>, 1, FALSE)>>,
                 <<Pair("ca", "you"), Pair("you", "ghost")>>),
     Transaction(11, "me", "cb", "none", {}, {}, <<Log("cb", "E", <<"you", "ca">>, 1, FALSE)>>,
                 <<Pair("cb", "you"), Pair("ghost", "you")>>)}
MCChains == {{t1, t2} : t1, t2 \in History}
MCWatchers == {[v EXCEPT !.scope = s] : v \in Unpinned, s \in {"all", "a", "b"}}

(* --------------------------------- disclosure ------------------------------ *)
Ranges == {NoRange} \cup {[start |-> i, end |-> j] : i, j \in 1..3}
SomeScopes(levels) ==
    {s \in [methods : {{}, {"activity_logs"}, {"transaction_history"}, {"activity_logs", "transaction_history"}},
            addresses : {{}, {"me"}, {"me", "you"}}, range : Ranges, level : levels] :
        s.range = NoRange \/ s.range.start <= s.range.end}
MCRequests == SomeScopes({"redacted", "full"})
MCOverrides == SomeScopes({"", "pseudonymous"})
MCBounds == {[start |-> i, end |-> j, row |-> r] : i, j \in 1..10, r \in 0..4}
=============================================================================
