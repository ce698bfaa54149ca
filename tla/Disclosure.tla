---------------------------- MODULE Disclosure ----------------------------
(***************************************************************************)
(* Disclosure requests and grants (internal/disclosure, server/disclosure, *)
(* server/explorer_grants): handlers of the subjects, of administrators    *)
(* and of the viewer run concurrently, each a sequence of database         *)
(* statements.  Every request has its own subject, and one viewer made     *)
(* them all.  Authentication is taken as passed; the viewer's membership   *)
(* of the organisation, which every read looks up again, is not.  Answers  *)
(* that change nothing (400, 403, 404) are not steps.                      *)
(***************************************************************************)
EXTENDS DisclosureScope, FiniteSets

CONSTANTS
    Requests,     \* request ids
    Grants,       \* grant ids
    Handlers,     \* handlers that run at the same time
    Addresses,    \* well-formed addresses
    Txs,          \* each subject's transactions: [parties, time]
    Duration,     \* what an approved grant lasts
    Loads         \* what a behaviour is open to: [events, requests, scopes, narrows, routes],
                  \* and its bounds on the clock and on the handlers started: [time, starts]

\* A failing statement; two decisions on one request at the same time; a subject's
\* account deleted; the viewer leaving; a stored grant of an earlier version.
EventNames == {"fault", "double", "erase", "leave", "legacy"}

\* The grant routes of the explorer.
Routes == {"transactions", "transaction", "activity", "resolve"}

ASSUME DisclosureAssumption ==
    /\ Duration \in Nat \ {0} /\ "none" \notin Requests
    /\ IsFiniteSet(Handlers) /\ IsFiniteSet(Grants)
    /\ \A l \in Loads : /\ l.events \subseteq EventNames /\ l.requests \subseteq Requests
                        /\ l.routes \subseteq Routes \cup {"list"}
                        /\ l.scopes \subseteq Scopes /\ l.narrows \subseteq Scopes
                        /\ l.time \in Nat \ {0} /\ l.starts \in Nat
    /\ \A x \in Txs : x.time \in Int

VARIABLES
    load,       \* what this behaviour is open to; never changes
    now,
    requests,   \* disclosure_requests: [status, scope, expires]
    grants,     \* disclosure_grants: [state, request, scope, granted, expires, revoked]
    member,     \* the viewer is a member of the organisation
    handlers,   \* what each handler is doing and has read
    starts,
    events,     \* disclosure_events: how many, per grant
    lost,       \* reads whose event could not be written and was logged, per grant
    reads,      \* history: reads answered or about to be, per grant
    ended       \* history: requests whose revocation has been answered

vars == <<load, now, requests, grants, member, handlers, starts, events, lost, reads, ended>>

NoScope == [methods |-> {}, addresses |-> {}, range |-> NoRange, level |-> ""]
NoData == [txs |-> {}, times |-> {}, level |-> "none"]
FreshRequest == [status |-> "none", scope |-> NoScope, expires |-> 0]
FreshGrant == [state |-> "none", request |-> "none", scope |-> NoScope, granted |-> 0,
               expires |-> 0, revoked |-> FALSE]
Idle == [op |-> "none", at |-> "idle", request |-> "none", set |-> {}, row |-> FreshGrant,
         data |-> NoData, late |-> FALSE]

\* A grant made before levels were validated.
LegacyScope == [methods |-> {"full_disclosure"}, addresses |-> {}, range |-> NoRange,
                level |-> "unknown"]

Init ==
    /\ load \in Loads
    /\ now = 1
    /\ \E r0 \in load.requests, g0 \in Grants :
          LET old == "legacy" \in load.events
          IN  /\ requests = [r \in Requests |->
                    IF old /\ r = r0
                    THEN [status |-> "approved", scope |-> LegacyScope, expires |-> 0]
                    ELSE FreshRequest]
              /\ grants = [g \in Grants |->
                    IF old /\ g = g0
                    THEN [state |-> "live", request |-> r0, scope |-> LegacyScope,
                          granted |-> 1, expires |-> load.time, revoked |-> FALSE]
                    ELSE FreshGrant]
    /\ member = TRUE
    /\ handlers = [h \in Handlers |-> Idle] /\ starts = 0
    /\ events = [g \in Grants |-> 0] /\ lost = [g \in Grants |-> 0]
    /\ reads = [g \in Grants |-> 0] /\ ended = {}

Tick ==
    /\ now < load.time
    /\ now' = now + 1
    /\ UNCHANGED <<load, requests, grants, member, handlers, starts, events, lost, reads, ended>>
----------------------------------------------------------------------------
Stored(r) == requests[r].status \notin {"none", "deleted"}
Live(g) == grants[g].state = "live"

\* IsActive, and the same condition in the queries.
IsActive(grant) == ~grant.revoked /\ now < grant.expires

\* IsExpired
IsExpired(r) == requests[r].expires # 0 /\ now > requests[r].expires

Deciding(r) ==
    \E h \in Handlers : handlers[h].request = r /\ handlers[h].op \in {"approve", "reject", "revoke"}

\* A handler takes its first step, the next one, its last.
Begin(h, rec) ==
    /\ handlers[h] = Idle /\ starts < load.starts
    /\ starts' = starts + 1
    /\ handlers' = [handlers EXCEPT ![h] = rec]

Goto(h, at) == handlers' = [handlers EXCEPT ![h].at = at]
Done(h) == handlers' = [handlers EXCEPT ![h] = Idle]
At(h, op, at) == handlers[h].op = op /\ handlers[h].at = at

\* Decisions on one request overlap only in a load that says so.
BeginDecision(h, op, at, r, scope) ==
    /\ Deciding(r) => "double" \in load.events
    /\ Begin(h, [Idle EXCEPT !.op = op, !.at = at, !.request = r, !.row.scope = scope])

\* createDisclosureRequest
CreateRequest(r, scope, expires) ==
    /\ r \in load.requests /\ requests[r].status = "none"
    /\ IsValid(scope, Addresses)
    /\ expires = 0 \/ expires >= now
    /\ requests' = [requests EXCEPT ![r] =
          [status |-> "pending", scope |-> Normalize(scope), expires |-> expires]]
    /\ UNCHANGED <<load, now, grants, member, handlers, starts, events, lost, reads, ended>>

\* ApproveRequest up to the INSERT: the request is read once; the granted scope is the
\* requested one or a narrowing of it (an empty narrowing merges to the request's).
ApproveStart(h, r, narrow) ==
    LET requested == Normalize(requests[r].scope)
        merged == MergeNarrowed(requested, narrow)
    IN  /\ requests[r].status = "pending" /\ ~IsExpired(r)
        /\ IsValid(requests[r].scope, Addresses)
        /\ IsValid(merged, Addresses) /\ IsSubsetOf(Normalize(merged), requested)
        /\ BeginDecision(h, "approve", "insert", r, Normalize(merged))
        /\ UNCHANGED <<load, now, requests, grants, member, events, lost, reads, ended>>

\* CreateGrant: the foreign key refuses a row of a request that is gone.
ApproveInsert(h, g) ==
    LET r == handlers[h].request
    IN  /\ At(h, "approve", "insert") /\ grants[g].state = "none"
        /\ IF Stored(r)
           THEN /\ grants' = [grants EXCEPT ![g] =
                      [state |-> "live", request |-> r, scope |-> handlers[h].row.scope,
                       granted |-> now, expires |-> now + Duration, revoked |-> FALSE]]
                /\ Goto(h, "mark")
           ELSE Done(h) /\ UNCHANGED grants
        /\ UNCHANGED <<load, now, requests, member, starts, events, lost, reads, ended>>

\* UpdateDisclosureRequestStatus: by id, whatever the status is by now.
SetStatus(r, status) ==
    requests' = [requests EXCEPT ![r].status = IF Stored(r) THEN status ELSE @]

ApproveMark(h) ==
    /\ At(h, "approve", "mark")
    /\ SetStatus(handlers[h].request, "approved")
    /\ Done(h)
    /\ UNCHANGED <<load, now, grants, member, starts, events, lost, reads, ended>>

\* RejectRequest
RejectStart(h, r) ==
    /\ requests[r].status = "pending"
    /\ BeginDecision(h, "reject", "mark", r, NoScope)
    /\ UNCHANGED <<load, now, requests, grants, member, events, lost, reads, ended>>

RejectMark(h) ==
    /\ At(h, "reject", "mark")
    /\ SetStatus(handlers[h].request, "rejected")
    /\ Done(h)
    /\ UNCHANGED <<load, now, grants, member, starts, events, lost, reads, ended>>

\* RevokeRequest: no status is refused; one active grant is looked up (LIMIT 1) ...
RevokeStart(h, r) ==
    /\ Stored(r)
    /\ BeginDecision(h, "revoke", "find", r, NoScope)
    /\ UNCHANGED <<load, now, requests, grants, member, events, lost, reads, ended>>

RevokeFind(h) ==
    LET found == {g \in Grants : Live(g) /\ grants[g].request = handlers[h].request
                                  /\ IsActive(grants[g])}
    IN  /\ At(h, "revoke", "find")
        /\ \/ found = {} /\ Goto(h, "mark")
           \/ \E g \in found :
                 handlers' = [handlers EXCEPT ![h].at = "unset", ![h].set = {g}]
        /\ UNCHANGED <<load, now, requests, grants, member, starts, events, lost, reads, ended>>

\* mutant: the grant stays
RevokeUnsetSkipped(h) ==
    /\ At(h, "revoke", "unset")
    /\ Goto(h, "mark")
    /\ UNCHANGED <<load, now, requests, grants, member, starts, events, lost, reads, ended>>

\* ... and revoked ...
RevokeUnset(h) ==
    /\ At(h, "revoke", "unset")
    /\ grants' = [g \in Grants |-> IF g \in handlers[h].set /\ Live(g)
                                   THEN [grants[g] EXCEPT !.revoked = TRUE] ELSE grants[g]]
    /\ Goto(h, "mark")
    /\ UNCHANGED <<load, now, requests, member, starts, events, lost, reads, ended>>

\* ... before the request is marked, and the answer sent.
RevokeMark(h) ==
    /\ At(h, "revoke", "mark")
    /\ SetStatus(handlers[h].request, "revoked")
    /\ ended' = ended \cup {handlers[h].request}
    /\ Done(h)
    /\ UNCHANGED <<load, now, grants, member, starts, events, lost, reads>>

\* adminRevokeDisclosureGrant
AdminRevokeGrant(g) ==
    /\ Live(g) /\ starts < load.starts
    /\ starts' = starts + 1
    /\ grants' = [grants EXCEPT ![g].revoked = TRUE]
    /\ UNCHANGED <<load, now, requests, member, handlers, events, lost, reads, ended>>

\* A request's row goes, and with it (ON DELETE CASCADE) its grants and their events.
Cascade(r) ==
    /\ requests' = [requests EXCEPT ![r].status = "deleted"]
    /\ grants' = [g \in Grants |-> IF grants[g].request = r
                                   THEN [grants[g] EXCEPT !.state = "gone"] ELSE grants[g]]
    /\ events' = [g \in Grants |-> IF grants[g].request = r THEN 0 ELSE events[g]]

\* deleteDisclosureRequest: pending when looked up ...
DeleteStart(h, r) ==
    /\ requests[r].status = "pending"
    /\ Begin(h, [Idle EXCEPT !.op = "delete", !.at = "delete", !.request = r])
    /\ UNCHANGED <<load, now, requests, grants, member, events, lost, reads, ended>>

\* ... and DELETE ... AND status = 'pending'.
DeletePending(h) ==
    /\ At(h, "delete", "delete")
    /\ IF requests[handlers[h].request].status = "pending"
       THEN Cascade(handlers[h].request) ELSE UNCHANGED <<requests, grants, events>>
    /\ Done(h)
    /\ UNCHANGED <<load, now, member, starts, lost, reads, ended>>

\* The subject's account is deleted: target_user_id cascades.
EraseSubject(r) ==
    /\ "erase" \in load.events /\ Stored(r)
    /\ Cascade(r)
    /\ UNCHANGED <<load, now, member, handlers, starts, lost, reads, ended>>

\* The viewer's last membership of the organisation is removed or expires.
LeaveOrg ==
    /\ "leave" \in load.events /\ member
    /\ member' = FALSE
    /\ UNCHANGED <<load, now, requests, grants, handlers, starts, events, lost, reads, ended>>

\* A statement fails, and the handler answers with an error.
Fails(h) ==
    /\ "fault" \in load.events
    /\ handlers[h].at \in {"insert", "find", "unset", "mark", "delete"}
    /\ Done(h)
    /\ UNCHANGED <<load, now, requests, grants, member, starts, events, lost, reads, ended>>
----------------------------------------------------------------------------
(* Reads of a grant: explorerGrant reads the grant, then its request, then *)
(* the membership; the route's data follow, and the event before the       *)
(* answer.  A read is late if the access had ended when it began.          *)

ReadGrant(h, g, route) ==
    /\ Live(g) /\ route \in load.routes
    /\ Begin(h, [Idle EXCEPT !.op = route, !.at = "request", !.request = grants[g].request,
                    !.set = {g}, !.row = grants[g],
                    !.late = ~IsActive(grants[g]) \/ grants[g].request \in ended \/ ~member])
    /\ UNCHANGED <<load, now, requests, grants, member, events, lost, reads, ended>>

\* grantRequesterEligible, the request's part
EligibleRequest(r) == requests[r].status = "approved"

ReadRequest(h) ==
    /\ handlers[h].op \in Routes /\ handlers[h].at = "request"
    /\ IF EligibleRequest(handlers[h].request) THEN Goto(h, "member") ELSE Done(h)
    /\ UNCHANGED <<load, now, requests, grants, member, starts, events, lost, reads, ended>>

\* The routes' own conditions on the scope.
RouteAllows(route, scope) ==
    CASE route = "transactions" -> AllowsTransactionHistory(scope)
      [] route = "transaction" -> scope.level = "full" /\ AllowsTransactionHistory(scope)
      [] route = "activity" -> ServesActivity(scope)
      [] route = "resolve" -> TRUE

\* The membership, then IsActive of the row read before, then the scope.
ReadMember(h) ==
    LET scope == ForRead(handlers[h].row.scope)
    IN  /\ handlers[h].op \in Routes /\ handlers[h].at = "member"
        /\ IF member /\ IsActive(handlers[h].row)
              /\ IsValid(scope, Addresses)
              /\ RouteAllows(handlers[h].op, scope)
           THEN handlers' = [handlers EXCEPT ![h].at = "fetch", ![h].row.scope = scope]
           ELSE Done(h)
        /\ UNCHANGED <<load, now, requests, grants, member, starts, events, lost, reads, ended>>

\* GetGrantActivityBounds: the grant's validity, narrowed by the consented dates.
ActivityTimes(row) ==
    {t \in row.granted .. row.expires : t <= now /\ InDateRange(row.scope, t)}

\* What a route answers; transactions are filtered by filterTxsByGrantScope.
DataOf(route, row) ==
    [txs   |-> IF route \in {"transactions", "transaction"}
               THEN {x \in Txs : CoversTransaction(row.scope, x.parties, x.time)} ELSE {},
     times |-> IF route = "activity" THEN ActivityTimes(row) ELSE {},
     level |-> EffectiveLevel(row.scope.level)]

CountRead(gs) == reads' = [g \in Grants |-> IF g \in gs THEN reads[g] + 1 ELSE reads[g]]

\* A subject that is gone has no address (404) and no activity (an empty answer).
Fetch(h) ==
    /\ handlers[h].op \in Routes /\ handlers[h].at = "fetch"
    /\ IF handlers[h].op # "activity" /\ ~Stored(handlers[h].request)
       THEN Done(h) /\ UNCHANGED reads
       ELSE /\ handlers' = [handlers EXCEPT ![h].at = "record", ![h].data =
                  IF Stored(handlers[h].request) THEN DataOf(handlers[h].op, handlers[h].row)
                  ELSE NoData]
            /\ CountRead(handlers[h].set)
    /\ UNCHANGED <<load, now, requests, grants, member, starts, events, lost, ended>>

\* getDisclosedAddressesForViewer: one query for every grant in force.
ListAddresses(h) ==
    LET listed == {g \in Grants : Live(g) /\ IsActive(grants[g])
                                   /\ EligibleRequest(grants[g].request) /\ member}
    IN  /\ "list" \in load.routes /\ listed # {}
        /\ Begin(h, [Idle EXCEPT !.op = "list", !.at = "record", !.set = listed,
                        !.late = \E g \in listed : grants[g].request \in ended])
        /\ CountRead(listed)
        /\ UNCHANGED <<load, now, requests, grants, member, events, lost, ended>>
----------------------------------------------------------------------------
Recorded(gs) == events' = [g \in Grants |-> IF g \in gs THEN events[g] + 1 ELSE events[g]]
Logged(gs) == lost' = [g \in Grants |-> IF g \in gs THEN lost[g] + 1 ELSE lost[g]]
AllLive(gs) == \A g \in gs : Live(g)

\* CreateDisclosureEvent, and the batch of insertDisclosureEventsWithRecovery.
Record(h) ==
    LET gs == handlers[h].set
    IN  /\ handlers[h].at = "record" /\ AllLive(gs)
        /\ Recorded(gs)
        /\ Done(h)
        /\ UNCHANGED <<load, now, requests, grants, member, starts, lost, reads, ended>>

\* A foreign key violation: nothing was written; of several, each is tried once.
RecordRefused(h) ==
    LET gs == handlers[h].set
    IN  /\ handlers[h].at = "record" /\ ~AllLive(gs)
        /\ IF Cardinality(gs) = 1 THEN Done(h) /\ Logged(gs)
           ELSE Goto(h, "recover") /\ UNCHANGED lost
        /\ UNCHANGED <<load, now, requests, grants, member, starts, events, reads, ended>>

\* mutant: any error starts the recovery
RecordUnclearRetried(h) ==
    LET gs == handlers[h].set
    IN  /\ "fault" \in load.events /\ handlers[h].at = "record"
        /\ UNCHANGED events \/ (AllLive(gs) /\ Recorded(gs))
        /\ Goto(h, "recover")
        /\ UNCHANGED <<load, now, requests, grants, member, starts, lost, reads, ended>>

\* Any other error (the viewer's lookup, the connection, the five seconds): written or
\* not, it is logged and not tried again.
RecordUnclear(h) ==
    LET gs == handlers[h].set
    IN  /\ "fault" \in load.events /\ handlers[h].at = "record"
        /\ UNCHANGED events \/ (AllLive(gs) /\ Recorded(gs))
        /\ Logged(gs)
        /\ Done(h)
        /\ UNCHANGED <<load, now, requests, grants, member, starts, reads, ended>>

\* One attempt of the recovery, and its end.
Recover(h, g) ==
    LET rest == handlers[h].set \ {g}
    IN  /\ handlers[h].at = "recover" /\ g \in handlers[h].set
        /\ IF Live(g) THEN Recorded({g}) /\ UNCHANGED lost ELSE Logged({g}) /\ UNCHANGED events
        /\ IF rest = {} THEN Done(h) ELSE handlers' = [handlers EXCEPT ![h].set = rest]
        /\ UNCHANGED <<load, now, requests, grants, member, starts, reads, ended>>

\* The time runs out during the recovery: what is left is logged.
RecoverTimeout(h) ==
    /\ "fault" \in load.events /\ handlers[h].at = "recover"
    /\ Logged(handlers[h].set)
    /\ Done(h)
    /\ UNCHANGED <<load, now, requests, grants, member, starts, events, reads, ended>>

Decide(h) ==
    \/ \E r \in load.requests : \/ \E n \in load.narrows : ApproveStart(h, r, n)
                               \/ RejectStart(h, r) \/ RevokeStart(h, r) \/ DeleteStart(h, r)
    \/ \E g \in Grants : ApproveInsert(h, g)
    \/ ApproveMark(h) \/ RejectMark(h) \/ RevokeFind(h) \/ RevokeUnset(h) \/ RevokeMark(h)
    \/ DeletePending(h) \/ Fails(h)

Read(h) ==
    \/ \E g \in Grants, route \in Routes : ReadGrant(h, g, route)
    \/ ReadRequest(h) \/ ReadMember(h) \/ Fetch(h) \/ ListAddresses(h)
    \/ Record(h) \/ RecordRefused(h) \/ RecordUnclear(h) \/ RecoverTimeout(h)
    \/ \E g \in Grants : Recover(h, g)

Next ==
    \/ Tick \/ LeaveOrg
    \/ \E r \in Requests, s \in load.scopes, e \in {0, 1} : CreateRequest(r, s, e)
    \/ \E r \in Requests : EraseSubject(r)
    \/ \E g \in Grants : AdminRevokeGrant(g)
    \/ \E h \in Handlers : Decide(h) \/ Read(h)

Spec == Init /\ [][Next]_vars
----------------------------------------------------------------------------
Statuses == {"none", "pending", "approved", "rejected", "revoked", "deleted"}

GrantRows == [state : {"none", "live", "gone"}, request : Requests \cup {"none"}, scope : Scopes,
              granted : Nat, expires : Nat, revoked : BOOLEAN]
Data == [txs : SUBSET Txs, times : SUBSET Int, level : Levels \cup {"none"}]
Ops == {"none", "approve", "reject", "revoke", "delete", "list"} \cup Routes
Steps == {"idle", "insert", "mark", "find", "unset", "delete", "request", "member", "fetch",
          "record", "recover"}
HandlerStates == [op : Ops, at : Steps, request : Requests \cup {"none"},
                  set : SUBSET Grants, row : GrantRows, data : Data, late : BOOLEAN]

\* Rows and handlers have the shapes the code gives them, and a stored grant's request
\* is stored, whatever was deleted meanwhile.
TypeOK ==
    /\ load \in Loads /\ now \in 1 .. load.time /\ member \in BOOLEAN
    /\ requests \in [Requests -> [status : Statuses, scope : Scopes, expires : Nat]]
    /\ grants \in [Grants -> GrantRows]
    /\ \A g \in Grants : Live(g) => grants[g].request \in Requests /\ Stored(grants[g].request)
    /\ handlers \in [Handlers -> HandlerStates]
    /\ starts \in 0 .. load.starts
    /\ events \in [Grants -> Nat] /\ lost \in [Grants -> Nat] /\ reads \in [Grants -> Nat]
    /\ ended \subseteq Requests

\* Whatever was narrowed and merged on the way, a read answers only with what the
\* request the subject approved asked for: its transactions, dates, kinds and level.
ServedWithinConsent ==
    \A h \in Handlers :
        handlers[h].op \in Routes /\ handlers[h].at = "record" /\ handlers[h].data # NoData =>
            LET asked == requests[handlers[h].request].scope
                data == handlers[h].data
            IN  /\ \A x \in data.txs : CoversTransaction(asked, x.parties, x.time)
                /\ handlers[h].op = "activity" => ServesActivity(asked)
                /\ \A t \in data.times : InDateRange(asked, t)
                /\ DisclosureRank(data.level) <= DisclosureRank(asked.level)

\* A read that begins when access has ended (the subject's revocation answered, the
\* grant revoked or expired, the viewer no longer a member) is never served, unless
\* decisions on a request overlapped.
EndedNotServed ==
    \A h \in Handlers :
        handlers[h].late /\ "double" \notin load.events => handlers[h].at \notin {"record", "recover"}

\* A decision is final: a rejected or revoked request is not approved again, unless
\* decisions on it overlapped.
DecisionFinal ==
    [][\A r \in Requests :
          requests[r].status \in {"rejected", "revoked"} /\ "double" \notin load.events
          => requests'[r].status # "approved"]_vars

\* Every read of a grant is recorded once: never twice, and what is not recorded of a
\* grant that still exists was logged; without a failing statement nothing is missing.
ReadsRecorded ==
    \A g \in Grants :
        Live(g) =>
          LET open == Cardinality({h \in Handlers :
                          handlers[h].at \in {"record", "recover"} /\ g \in handlers[h].set})
          IN  /\ events[g] + open <= reads[g]
              /\ events[g] + lost[g] + open >= reads[g]
              /\ "fault" \notin load.events => events[g] + open = reads[g]

\* GetActiveGrantByRequesterDID, which answers check-access.
HasAccess(r) ==
    \E g \in Grants : Live(g) /\ grants[g].request = r /\ IsActive(grants[g])

\* After an answered revocation the explorer's check-access finds no grant, provided
\* no decision overlapped another and none failed half way.
RevokeEndsAccess ==
    load.events \cap {"double", "fault"} = {} => \A r \in ended : ~HasAccess(r)
=============================================================================
