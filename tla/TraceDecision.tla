---------------------------- MODULE TraceDecision ----------------------------
(***************************************************************************)
(* What the proxy does with the call tree of a transaction or a call:      *)
(* the parsers of internal/tracer flatten it, rbac.TraceValidator decides  *)
(* whether every frame stays within the caller's organizations, and a      *)
(* trace handed to the client (processDebugTrace of jsonrpc_trace.go) is   *)
(* checked frame by frame and stripped of the values the caller could not  *)
(* read.                                                                   *)
(*                                                                         *)
(* A trace is the sequence of its frames in the order of the walk (parent  *)
(* before children), each with its depth.  "none" is no address.           *)
(***************************************************************************)
EXTENDS AccessDecision, Sequences

Creates == {"CREATE", "CREATE2"}
ContextSharing == {"DELEGATECALL", "CALLCODE"}
TargetedTypes == {"CALL", "STATICCALL"} \cup ContextSharing

Parent(trace, i) ==
    CHOOSE j \in 1..(i - 1) : /\ trace[j].depth = trace[i].depth - 1
                              /\ \A k \in (j + 1)..(i - 1) : trace[k].depth >= trace[i].depth

\* frameStorageContext: a delegated frame works on its parent's storage.
Storage(trace) ==
    LET at[i \in 1..Len(trace)] ==
          IF trace[i].type \notin ContextSharing THEN trace[i].to
          ELSE IF trace[i].depth = 0 THEN "none" ELSE at[Parent(trace, i)]
    IN  at

\* ParseCallTraceResult and extractCallTargets; SELFDESTRUCT is read over.
ParseCallTrace(trace) ==
    LET ok == /\ trace # <<>> /\ trace[1].type \in TargetedTypes \cup Creates
              /\ \A i \in 1..Len(trace) :
                    /\ trace[i].type \in TargetedTypes \cup Creates \cup {"SELFDESTRUCT"}
                    /\ trace[i].type \in TargetedTypes => trace[i].to # "none"
    IN  [ok |-> ok, targets |-> SelectSeq(trace, LAMBDA f : f.type # "SELFDESTRUCT")]

\* ParseStrictCallTrace: CALLCODE counts as DELEGATECALL, SELFDESTRUCT as CALL, each frame has its storage.
ParseStrictCallTrace(trace) ==
    LET storage == Storage(trace)
        type(i) == CASE trace[i].type = "CALLCODE" -> "DELEGATECALL"
                     [] trace[i].type = "SELFDESTRUCT" -> "CALL"
                     [] OTHER -> trace[i].type
    IN  [ok |-> /\ trace # <<>>
                /\ \A i \in 1..Len(trace) :
                      /\ trace[i].type \in TargetedTypes \cup Creates \cup {"SELFDESTRUCT"}
                      /\ trace[i].type \notin Creates => trace[i].to # "none",
         targets |-> [i \in 1..Len(trace) |->
                        [type |-> type(i), to |-> trace[i].to, depth |-> trace[i].depth,
                         failed |-> FALSE, input |-> trace[i].input, mine |-> trace[i].mine,
                         storage |-> storage[i]]]]
----------------------------------------------------------------------------
(***************************************************************************)
(* ValidateTrace.  o holds the options: scoped and granted (intra-org      *)
(* grants), client (a trace shown to the caller), createdAsOwn, fresh and  *)
(* noCode (from a signed preflight), inScope (the organizations that may   *)
(* be judged).                                                             *)
(***************************************************************************)
\* No evaluation scope: every organization may be judged.
EveryOrg(w) == {w.owner[a] : a \in DOMAIN w.owner}

\* The verdict on a created address: "ok", "skip", or the kind of the denial.
CreateVerdict(f, orgs, w, o) ==
    IF f.to \in {"none", "zero"} THEN "skip"
    ELSE IF w.owner[f.to] # "none" /\ w.owner[f.to] \notin orgs
         THEN IF w.owner[f.to] \in o.inScope THEN "create_foreign_org" ELSE "outside"
    ELSE IF o.client /\ w.owner[f.to] # "none" /\ f.to \notin o.granted
         THEN "intra_org_ungranted"
    ELSE "ok"

\* What shared infrastructure allows: its attested code by an ordinary call.
SharedVerdict(f, w) ==
    IF f.type \in ContextSharing THEN "delegatecall_shared_infra"
    ELSE IF w.attested[f.to] = "none" \/ w.attested[f.to] = w.code[f.to] THEN "ok"
    ELSE IF w.code[f.to] = "unknown" THEN "untagged"
    ELSE "shared_infra_codehash_mismatch"

\* Whose grant a frame of the caller's own organization needs.
GrantAddress(f, o) == IF o.client /\ f.type = "DELEGATECALL" THEN f.storage ELSE f.to

\* mutant: an address nobody registered is let through
OwnedVerdictOpen(f, orgs, deploy, w, o) ==
    IF w.owner[f.to] \in orgs \cup {"none"} THEN "ok" ELSE "foreign_org"

OwnedVerdict(f, orgs, deploy, w, o) ==
    LET a == GrantAddress(f, o)
    IN  IF w.owner[f.to] \in orgs
        THEN IF o.scoped /\ a \notin o.granted
             THEN IF deploy /\ a \in w.preregistered /\ w.owner[a] \in orgs
                  THEN "skip" ELSE "intra_org_ungranted"
             ELSE "ok"
        ELSE IF w.owner[f.to] # "none"
             THEN IF w.owner[f.to] \in o.inScope THEN "foreign_org" ELSE "outside"
        ELSE IF f.to \in o.noCode /\ f.type \in {"CALL", "SELFDESTRUCT"} THEN "ok"
        ELSE "unregistered"

\* Created before frame i, as far as the options let a created contract be called.
CreatedBefore(targets, i, o) ==
    IF o.createdAsOwn
    THEN {targets[j].to : j \in {k \in 1..(i - 1) : targets[k].type \in Creates /\ ~targets[k].failed}}
    ELSE {}
FreshlyCreated(targets, orgs, w, o) ==
    {f.to : f \in {targets[j] : j \in {k \in 1..Len(targets) :
                     /\ targets[k].type \in Creates
                     /\ CreateVerdict(targets[k], orgs, w, o) = "ok"}}} \cap o.fresh

CallVerdict(targets, i, orgs, deploy, w, o) ==
    LET f == targets[i]
        owned == IF f.to \in FreshlyCreated(targets, orgs, w, o) THEN "skip"
                 ELSE OwnedVerdict(f, orgs, deploy, w, o)
        shared == IF f.to \in w.shared THEN SharedVerdict(f, w) ELSE "untagged"
        either(v) == IF v = "ok" THEN "skip" ELSE IF v = "untagged" THEN owned ELSE v
    IN  IF \/ f.type \in Creates \/ f.to \in {"none", "zero"} \/ f.to \in w.precompiles
           \/ f.to \in CreatedBefore(targets, i, o) THEN "skip"
        ELSE either(shared)

\* Denials are met in the order of the two walks; one outside the scope counts when there is no other.
ValidateTrace(targets, orgs, deploy, w, o) ==
    LET create == [i \in 1..Len(targets) |->
                     IF targets[i].type \in Creates THEN CreateVerdict(targets[i], orgs, w, o) ELSE "skip"]
        call == [i \in 1..Len(targets) |-> CallVerdict(targets, i, orgs, deploy, w, o)]
        denied(kind) == [allowed |-> FALSE, kind |-> kind, created |-> {}, check |-> {}]
        verdict(creates, calls) ==
            LET verdicts == creates \o calls
                denials == SelectSeq(verdicts, LAMBDA v : v \notin {"ok", "skip", "outside"})
            IN  IF denials # <<>> THEN denied(Head(denials))
                ELSE IF \E i \in DOMAIN verdicts : verdicts[i] = "outside" THEN denied("out_of_scope_org")
                ELSE [allowed |-> TRUE, kind |-> "none",
                      created |-> {targets[i].to : i \in {j \in DOMAIN targets : creates[j] = "ok"}},
                      check |-> {i \in DOMAIN targets : /\ o.client /\ targets[i].depth > 0 /\ calls[i] = "ok"
                                                        /\ w.owner[targets[i].to] \in orgs}]
    IN  IF (\E i \in 1..Len(targets) : targets[i].type \in Creates) /\ ~deploy
        THEN denied("deploy_claim_missing")
        ELSE verdict(create, call)
----------------------------------------------------------------------------
\* An eth_call of the data of a frame, to the storage it works on, in the pinned organization.
FrameCall(method, org, storage, input, mine) ==
    [method |-> method, access |-> "eth_call", org |-> org, scope |-> "none", shape |-> "targeted",
     to |-> storage, logs |-> {}, data |-> input, mine |-> mine, block |-> "latest",
     keys |-> "wellknown", override |-> FALSE]

\* validateClientTraceFrameAccess
ValidateFrameAccess(method, u, w, org, targets, check) ==
    \A i \in check :
        LET f == targets[i]
            granted(d) == d.allowed /\ d.org = org
        IN  granted(CheckAccess(FrameCall(method, org, f.storage, f.input, f.mine), u, w))

\* RedactStrictCallTrace: what is given to a frame is the parent's to show, what comes back its own.
Redact(trace, readable) ==
    LET storage == Storage(trace)
    IN  [i \in 1..Len(trace) |->
           [given |-> trace[i].depth = 0 \/ storage[Parent(trace, i)] \in readable,
            back |-> trace[i].depth = 0 \/ storage[i] \in readable]]

Hidden(org) == [allowed |-> FALSE, org |-> org, shown |-> <<>>]

\* pinnedTraceScope: what a trace shown to the caller may run through, the authorized address included.
ClientScope(u, w, org, authorized) ==
    [scoped |-> TRUE, client |-> TRUE, createdAsOwn |-> FALSE, fresh |-> {}, noCode |-> {},
     granted |-> DOMAIN u.perms[org].access \cup authorized, inScope |-> EveryOrg(w)]
UserHasDeploy(u, org) == u.perms[org].claims \cap {"deploy", "admin"} # {}

\* userCanTraceMethod
CanTrace(u, method) == u.exists /\ \E org \in u.orgs : HasMethod(u.perms[org], method)

\* forwardAndValidateTrace and redactClientTraceValues.
ValidateClientTrace(method, u, w, org, trace, authorized) ==
    LET readable == {a \in {Storage(trace)[i] : i \in 1..Len(trace)} : CanReadPrivateStorage(u, w, org, a)}
        frames(targets, v) == v.allowed /\ ValidateFrameAccess(method, u, w, org, targets, v.check)
        valid(parsed) ==
            /\ parsed.ok
            /\ frames(parsed.targets, ValidateTrace(parsed.targets, {org}, UserHasDeploy(u, org), w,
                                                    ClientScope(u, w, org, authorized)))
    IN  IF valid(ParseStrictCallTrace(trace))
        THEN [allowed |-> TRUE, org |-> org, shown |-> Redact(trace, readable)]
        ELSE Hidden(org)

\* gateDebugTraceCall; the simulated sender is one of the caller's addresses, or not given.
DebugTraceCall(q, from, u, w, trace) ==
    LET gate(entry) ==
            IF /\ CanTrace(u, q.method) /\ entry.allowed /\ entry.org # "none"
               /\ from \in u.linked \cup {"none"}
            THEN ValidateClientTrace(q.method, u, w, entry.org, trace, {q.to} \ {"none"})
            ELSE Hidden(entry.org)
    IN  gate(CheckAccess(q, u, w))

\* viewerCanSeeMinedTx
ViewerCanSeeMinedTx(tx, u, w, org) ==
    \/ {tx.from, tx.to} \cap u.linked # {}
    \/ /\ ~w.strict
       /\ \/ /\ tx.to # "none" /\ w.owner[tx.to] = org
             /\ Registered(u.perms[org], tx.to) /\ "admin" \in u.perms[org].access[tx.to].claims
          \/ tx.visible

\* strictTraceAllowed and the top frame alone: its creations are judged as a deployer's.
StrictTopFrame(tx, u, w, org, trace) ==
    LET root == SubSeq(trace, 1, 1)
        parsed == ParseStrictCallTrace(root)
        o == [scoped |-> FALSE, client |-> FALSE, createdAsOwn |-> FALSE, fresh |-> {}, noCode |-> {},
              granted |-> {}, inScope |-> EveryOrg(w)]
        parties == {tx.from} \cup (IF root[1].type \in Creates THEN {} ELSE {root[1].to})
    IN  IF /\ parsed.ok /\ parties \cap u.linked # {}
           /\ ValidateTrace(parsed.targets, {org}, TRUE, w, o).allowed
        THEN [allowed |-> TRUE, org |-> org, shown |-> Redact(root, {})]
        ELSE Hidden(org)

\* The viewer could make the transaction's own call now.
TargetCallable(method, tx, u, w, org) ==
    tx.to # "none" => CheckAccess(FrameCall(method, org, tx.to, tx.input, tx.mine), u, w).allowed

\* gateDebugTraceTransaction
DebugTraceTransaction(q, tx, u, w, trace) ==
    LET gate(org, allowed) ==
            IF ~CanTrace(u, q.method) \/ ~allowed \/ org = "none" THEN Hidden(org)
            ELSE IF w.owner[tx.to] \notin {"none", org} \/ ~ViewerCanSeeMinedTx(tx, u, w, org) THEN Hidden(org)
            ELSE IF w.strict THEN StrictTopFrame(tx, u, w, org, trace)
            ELSE IF ~TargetCallable(q.method, tx, u, w, org) THEN Hidden(org)
            ELSE ValidateClientTrace(q.method, u, w, org, trace, {tx.to} \ {"none"})
        enter(entry) == gate(entry.org, entry.allowed)
    IN  enter(CheckAccess(q, u, w))
=============================================================================
