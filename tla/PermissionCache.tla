--------------------------- MODULE PermissionCache ---------------------------
(***************************************************************************)
(* Effective permissions and their two caches: the shared table            *)
(* effective_permissions_cache with its generation counter                 *)
(* (internal/db/rbac_cache_generation.go, rbac_store_cache.go), and the    *)
(* cache each replica keeps in memory or all of them keep in Redis         *)
(* (internal/rbac/cache.go, internal/redis/cache.go).  Requests resolve    *)
(* permissions through both (internal/rbac/resolver.go, access.go);        *)
(* administrators change memberships, grants, contracts and groups and     *)
(* invalidate both (internal/server/admin_rbac_*.go).  One organization,   *)
(* one group with a grant on one contract.  Every call is a process that   *)
(* takes one cache access or SQL statement at a time.                      *)
(***************************************************************************)
EXTENDS Naturals, FiniteSets

CONSTANTS
    Calls,      \* requests of users and of administrators
    Users,
    Replicas,
    Redis,      \* where the upper cache lives when it is in Redis
    MaxTime,    \* end of the modelled time
    Loads       \* [calls, redis, members, grant, until, ttl, cap, ticks, faults]

\* What a grant opens: nothing, only events (an empty list of functions), every function.
Grants == {"none", "events", "all"}

Reads == {"check", "lookup"}
\* An administrator's call writes and then invalidates, or does both in one transaction.
UserWrites == {"join", "leave"}
GroupWrites == {"regrant"}
OrgWrites == {"purge"}
Separate == UserWrites \cup GroupWrites \cup OrgWrites
Inline == {"unshare", "drop", "dissolve", "disband"}
Ops == {"none"} \cup Reads \cup Separate \cup Inline

CallType == [op : Ops, user : Users, at : Replicas, grant : Grants]
Places == Replicas \cup {Redis}

ASSUME PermissionCacheAssumption ==
    /\ Redis \notin Replicas /\ "none" \notin Calls /\ MaxTime \in Nat
    /\ \A l \in Loads :
          /\ l.calls \in [Calls -> CallType] /\ l.redis \in BOOLEAN
          /\ l.members \subseteq Users /\ l.grant \in Grants /\ l.until \in [Users -> Nat]
          /\ l.ttl \in Nat \ {0} /\ l.cap \in Nat \ {0} /\ l.ticks \in 0..MaxTime /\ l.faults \in Nat

VARIABLES
    load,      \* what this behaviour is open to; never changes
    members,   \* user_memberships of the group
    grant,     \* contract_grants of the group
    gen,       \* rbac_cache_generation
    rows,      \* effective_permissions_cache
    upper,     \* the caches in front of it
    flight,    \* inFlight of each replica: the call that computes for a user
    now,
    st,        \* progress of each call
    faults     \* statements that have failed

vars == <<load, members, grant, gen, rows, upper, flight, now, st, faults>>

NoPerms == [member |-> FALSE, grant |-> "none", exp |-> 0]
NoEntry == [some |-> FALSE, perms |-> NoPerms, exp |-> 0]
Fresh == [pc |-> "start", perms |-> NoPerms, ok |-> FALSE, err |-> FALSE, snap |-> 0,
          known |-> FALSE, own |-> FALSE, done |-> FALSE, retry |-> FALSE, wait |-> "none",
          readAt |-> 0, share |-> FALSE, counter |-> FALSE, del |-> {}, owes |-> {},
          fit |-> TRUE, before |-> {}]

Init ==
    /\ load \in Loads
    /\ members = load.members /\ grant = load.grant /\ gen = 0
    /\ rows = [u \in Users |-> NoEntry]
    /\ upper = [p \in Places |-> [u \in Users |-> NoEntry]]
    /\ flight = [r \in Replicas |-> [u \in Users |-> "none"]]
    /\ now = 0 /\ st = [c \in Calls |-> Fresh] /\ faults = 0
----------------------------------------------------------------------------
Op(c) == load.calls[c].op
User(c) == load.calls[c].user
Home(c) == load.calls[c].at
Place(c) == IF load.redis THEN Redis ELSE Home(c)
Least(a, b) == IF a < b THEN a ELSE b

Begun(c) == st[c].pc # "start"
Finished(c) == st[c].pc = "end"
At(c, pc) == st[c].pc = pc
Fault == faults < load.faults /\ faults' = faults + 1
NoFault == UNCHANGED faults

\* What a computation at time t would find.
Holds(u, t) == u \in members /\ t < load.until[u]
Facts(u, t) == [member |-> Holds(u, t), grant |-> IF Holds(u, t) THEN grant ELSE "none"]
View(p) == [member |-> p.member, grant |-> p.grant]

\* A row, and a value in Redis, holds the JSON of ContractAccess, which leaves out an
\* empty list of functions: read back, the list is absent and every function is allowed.
Coded(g) == IF g = "events" THEN "all" ELSE g
Decoded(p) == [p EXCEPT !.grant = Coded(p.grant)]
\* The answer's permissions as the caches may show them.
Shown(v) == {v, [v EXCEPT !.grant = Coded(v.grant)]}

\* The cache in memory still serves an entry at the very moment it expires.
Due(c, t) == {Facts(User(c), t), Facts(User(c), IF t = 0 THEN 0 ELSE t - 1)}

Set(c, rec) == st' = [st EXCEPT ![c] = rec]
Goto(c, pc) == Set(c, [st[c] EXCEPT !.pc = pc])
Begin(c, pc) == Set(c, [Fresh EXCEPT !.pc = pc, !.before = {d \in Calls : Finished(d)}])
\* The call is answered; fit notes whether a reader got what the tables say.
Answer(c, rec) ==
    Set(c, [rec EXCEPT !.pc = "end", !.wait = "none",
                       !.fit = rec.err \/ \E v \in Due(c, rec.readAt) : View(rec.perms) \in Shown(v)])
AnswerError(c) == Set(c, [st[c] EXCEPT !.pc = "end", !.err = TRUE, !.wait = "none"])

tables == <<members, grant>>
shared == <<gen, rows>>
Rest == UNCHANGED <<load, now>>
----------------------------------------------------------------------------
\* resolvePermissionsForRequest; a "lookup" resolves without the upper cache.
StartRead(c) ==
    /\ Op(c) \in Reads /\ At(c, "start")
    /\ Begin(c, IF Op(c) = "check" THEN "get" ELSE "select")
    /\ NoFault /\ Rest /\ UNCHANGED <<tables, shared, upper, flight>>

\* Redis keeps a value for its time to live, the cache in memory also looks at the clock.
Live(e) == e.some /\ IF load.redis THEN now < e.exp ELSE now <= e.exp

GetUpper(c) ==
    /\ At(c, "get")
    /\ LET e == upper[Place(c)][User(c)]
       IN  IF Live(e)
           THEN Answer(c, [st[c] EXCEPT !.perms = IF load.redis THEN Decoded(e.perms) ELSE e.perms,
                                        !.readAt = now])
           ELSE Goto(c, "select")
    /\ NoFault /\ Rest /\ UNCHANGED <<tables, shared, upper, flight>>

GetCachedPermissions(c) ==
    /\ At(c, "select")
    /\ LET e == rows[User(c)]
       IN  \/ /\ e.some /\ now < e.exp /\ NoFault
              /\ Set(c, [st[c] EXCEPT !.pc = "store", !.perms = Decoded(e.perms), !.ok = TRUE,
                                      !.readAt = now])
           \/ /\ ~(e.some /\ now < e.exp) /\ NoFault /\ Goto(c, "claim")
           \/ /\ Fault /\ AnswerError(c)
    /\ Rest /\ UNCHANGED <<tables, shared, upper, flight>>

\* resolveCacheable: join the computation under way, or take the slot; a waiter that
\* comes back computes on its own rather than wait again.
Claim(c) ==
    /\ At(c, "claim")
    /\ LET slot == flight[Home(c)][User(c)]
       IN  \/ /\ slot # "none" /\ ~st[c].retry
              /\ Set(c, [st[c] EXCEPT !.pc = "wait", !.wait = slot]) /\ UNCHANGED flight
           \/ /\ slot # "none" /\ st[c].retry
              /\ Goto(c, "snapshot") /\ UNCHANGED flight
           \/ /\ slot = "none"
              /\ flight' = [flight EXCEPT ![Home(c)][User(c)] = c]
              /\ Set(c, [st[c] EXCEPT !.pc = "snapshot", !.own = TRUE])
    /\ NoFault /\ Rest /\ UNCHANGED <<tables, shared, upper>>

\* awaitEntry: the owner's error is shared, its result only if it was published.
Await(c) ==
    /\ At(c, "wait")
    /\ LET e == st[st[c].wait]
       IN  \/ /\ e.done /\ e.err /\ NoFault /\ AnswerError(c)
           \/ /\ e.done /\ ~e.err /\ ~e.ok /\ NoFault
              /\ Set(c, [st[c] EXCEPT !.pc = "select", !.retry = TRUE, !.wait = "none"])
           \/ /\ e.done /\ ~e.err /\ e.ok /\ NoFault
              /\ Set(c, [st[c] EXCEPT !.pc = "store", !.perms = e.perms, !.ok = TRUE,
                                      !.readAt = e.readAt, !.wait = "none"])
           \/ /\ Fault /\ AnswerError(c)    \* the waiter's own context ends
    /\ Rest /\ UNCHANGED <<tables, shared, upper, flight>>
----------------------------------------------------------------------------
CacheGeneration(c) ==
    /\ At(c, "snapshot")
    /\ \/ NoFault /\ Set(c, [st[c] EXCEPT !.pc = "memberships", !.known = TRUE, !.snap = gen])
       \/ Fault /\ Goto(c, "memberships")
    /\ Rest /\ UNCHANGED <<tables, shared, upper, flight>>

Failed(c) == Fault /\ Set(c, [st[c] EXCEPT !.pc = "broadcast", !.err = TRUE])
AfterReads(c) == IF st[c].known THEN "lock" ELSE "broadcast"
Expiry(u, holds) == IF holds THEN Least(now + load.ttl, load.until[u]) ELSE now + load.ttl

\* computePermissions: the memberships that have not expired ...
ReadMemberships(c) ==
    /\ At(c, "memberships")
    /\ \/ /\ NoFault
          /\ LET h == Holds(User(c), now)
             IN  Set(c, [st[c] EXCEPT !.pc = IF h THEN "grants" ELSE AfterReads(c), !.readAt = now,
                                      !.perms = [member |-> h, grant |-> "none",
                                                 exp |-> Expiry(User(c), h)]])
       \/ Failed(c)
    /\ Rest /\ UNCHANGED <<tables, shared, upper, flight>>

\* ... then what their groups grant; the entry expires with the first membership.
ReadGrants(c) ==
    /\ At(c, "grants")
    /\ \/ /\ NoFault
          /\ Set(c, [st[c] EXCEPT !.pc = AfterReads(c),
                                  !.perms = [member |-> TRUE, grant |-> grant,
                                             exp |-> Expiry(User(c), TRUE)]])
       \/ Failed(c)
    /\ Rest /\ UNCHANGED <<tables, shared, upper, flight>>

\* Locks: FOR SHARE on the counter, the counter's update, rows deleted and not committed.
Sharers == {c \in Calls : st[c].share}
Counting == {c \in Calls : st[c].counter}
Deleting(u) == {c \in Calls : u \in st[c].del}

\* mutant: a plain read of the generation
LockPlain(c) ==
    /\ At(c, "lock") /\ NoFault
    /\ Set(c, [st[c] EXCEPT !.pc = IF gen = st[c].snap THEN "upsert" ELSE "broadcast"])
    /\ Rest /\ UNCHANGED <<tables, shared, upper, flight>>

\* SetCachedPermissionsAtGeneration: lock the counter and compare ...
LockGeneration(c) ==
    /\ At(c, "lock")
    /\ \/ /\ Counting = {} /\ gen = st[c].snap /\ NoFault
          /\ Set(c, [st[c] EXCEPT !.pc = "upsert", !.share = TRUE])
       \/ /\ Counting = {} /\ gen # st[c].snap /\ NoFault /\ Goto(c, "broadcast")
       \/ /\ Fault /\ Goto(c, "broadcast")
    /\ Rest /\ UNCHANGED <<tables, shared, upper, flight>>

\* ... then write the row and commit.
Upsert(c) ==
    /\ At(c, "upsert")
    /\ \/ /\ Deleting(User(c)) = {} /\ NoFault
          /\ rows' = [rows EXCEPT ![User(c)] = [some |-> TRUE, perms |-> st[c].perms,
                                                exp |-> st[c].perms.exp]]
          /\ Set(c, [st[c] EXCEPT !.pc = "broadcast", !.share = FALSE, !.ok = TRUE])
       \/ /\ Fault /\ UNCHANGED rows
          /\ Set(c, [st[c] EXCEPT !.pc = "broadcast", !.share = FALSE])
    /\ Rest /\ UNCHANGED <<tables, gen, upper, flight>>

\* mutant: a computation that fails wakes nobody
BroadcastResult(c) ==
    /\ At(c, "broadcast") /\ NoFault
    /\ IF st[c].err THEN Goto(c, "remove")
       ELSE Set(c, [st[c] EXCEPT !.pc = "remove", !.done = st[c].own])
    /\ Rest /\ UNCHANGED <<tables, shared, upper, flight>>

\* The owner of a slot wakes its waiters ...
Broadcast(c) ==
    /\ At(c, "broadcast") /\ NoFault
    /\ Set(c, [st[c] EXCEPT !.pc = "remove", !.done = st[c].own])
    /\ Rest /\ UNCHANGED <<tables, shared, upper, flight>>

\* ... and gives the slot up.
RemoveEntry(c) ==
    /\ At(c, "remove") /\ NoFault
    /\ flight' = IF st[c].own THEN [flight EXCEPT ![Home(c)][User(c)] = "none"] ELSE flight
    /\ IF st[c].err THEN Answer(c, st[c]) ELSE Goto(c, "store")
    /\ Rest /\ UNCHANGED <<tables, shared, upper>>

\* SetWithTTL: in memory never past the permissions' own expiry; in Redis for the whole
\* time to live.
Entry(c) ==
    [some |-> TRUE, perms |-> st[c].perms,
     exp |-> IF load.redis THEN now + load.ttl ELSE Least(now + load.ttl, st[c].perms.exp)]

Kept(p) == {u \in Users : upper[p][u].some}
\* Room for u: a full cache in memory gives up one entry.
Evicted(p, u) ==
    IF load.redis \/ upper[p][u].some \/ Cardinality(Kept(p)) < load.cap
    THEN {upper[p]} ELSE {[upper[p] EXCEPT ![v] = NoEntry] : v \in Kept(p)}

SetUpper(c) ==
    /\ At(c, "store")
    /\ \/ /\ Op(c) = "check" /\ st[c].ok /\ NoFault
          /\ \E kept \in Evicted(Place(c), User(c)) :
                upper' = [upper EXCEPT ![Place(c)] = [kept EXCEPT ![User(c)] = Entry(c)]]
       \/ /\ Op(c) = "check" /\ st[c].ok /\ load.redis /\ Fault /\ UNCHANGED upper
       \/ /\ ~(Op(c) = "check" /\ st[c].ok) /\ NoFault /\ UNCHANGED upper
    /\ Answer(c, st[c]) /\ Rest /\ UNCHANGED <<tables, shared, flight>>
----------------------------------------------------------------------------
\* The handlers of admin_rbac_user.go, admin_rbac_group.go and admin_rbac_contract.go.
StartWrite(c) ==
    /\ Op(c) \in Separate \cup Inline /\ At(c, "start")
    /\ Begin(c, IF Op(c) \in Separate THEN "write" ELSE "bump")
    /\ NoFault /\ Rest /\ UNCHANGED <<tables, shared, upper, flight>>

\* What each call does to the memberships and to the grant.
MembersAfter(c) ==
    CASE Op(c) = "join" -> members \cup {User(c)}
      [] Op(c) = "leave" -> members \ {User(c)}
      [] Op(c) \in {"dissolve", "disband"} -> {}
      [] OTHER -> members
GrantAfter(c) ==
    CASE Op(c) = "regrant" -> load.calls[c].grant
      [] Op(c) \in {"purge", "unshare", "drop", "dissolve", "disband"} -> "none"
      [] OTHER -> grant

Touched(c) ==
    {u \in Users : \/ (u \in MembersAfter(c)) # (u \in members)
                   \/ (u \in members /\ GrantAfter(c) # grant)}

\* The change alone, committed by itself; a membership that exists is a conflict.
Write(c) ==
    /\ At(c, "write")
    /\ \/ /\ ~(Op(c) = "join" /\ User(c) \in members)
          /\ members' = MembersAfter(c) /\ grant' = GrantAfter(c) /\ NoFault
          /\ Set(c, [st[c] EXCEPT !.pc = "clear", !.owes = Touched(c)])
       \/ /\ Op(c) = "join" /\ User(c) \in members
          /\ NoFault /\ AnswerError(c) /\ UNCHANGED tables
       \/ /\ Fault /\ AnswerError(c) /\ UNCHANGED tables
    /\ Rest /\ UNCHANGED <<shared, upper, flight>>

\* mutant: only the user's own entry goes
ClearedOwn(c) == {User(c)}

\* InvalidateUser drops one user's entry, InvalidateOrg and InvalidateGroup the org's.
Cleared(c) == IF Op(c) \in UserWrites THEN {User(c)} ELSE Users

ClearUpper(c) ==
    /\ At(c, "clear")
    /\ \/ /\ NoFault
          /\ upper' = [upper EXCEPT ![Place(c)] =
                          [u \in Users |-> IF u \in Cleared(c) THEN NoEntry ELSE @[u]]]
       \/ /\ load.redis \/ Op(c) \in GroupWrites   \* DEL fails, or the group is not read
          /\ Fault /\ UNCHANGED upper
    /\ IF Op(c) \in Inline \ {"disband"} THEN Answer(c, st[c])
       ELSE Goto(c, IF Op(c) \in UserWrites THEN "bump" ELSE "bumpOnly")
    /\ Rest /\ UNCHANGED <<tables, shared, flight>>

\* A transaction that fails leaves nothing; after a separate write the handler goes on.
Rollback(c) ==
    /\ Fault
    /\ Set(c, [st[c] EXCEPT !.pc = "end", !.counter = FALSE, !.del = {}, !.err = Op(c) \in Inline])

\* bumpCacheGeneration inside a transaction: the counter is locked until it commits.
Bump(c) ==
    /\ At(c, "bump")
    /\ \/ /\ Sharers = {} /\ Counting = {} /\ NoFault
          /\ Set(c, [st[c] EXCEPT !.pc = "delete", !.counter = TRUE])
       \/ Rollback(c)
    /\ Rest /\ UNCHANGED <<tables, shared, upper, flight>>

\* Whose rows an invalidation deletes: one user's, the group's members', the org's.
Scope(c) ==
    CASE Op(c) \in UserWrites -> {User(c)}
      [] Op(c) \in {"regrant", "unshare", "dissolve"} -> members
      [] OTHER -> Users
Doomed(c) == {u \in Scope(c) : rows[u].some}

DeleteRows(c) ==
    /\ At(c, "delete")
    /\ \/ /\ \A u \in Doomed(c) : Deleting(u) = {}
          /\ NoFault /\ Set(c, [st[c] EXCEPT !.pc = "commit", !.del = Doomed(c)])
       \/ Rollback(c)
    /\ Rest /\ UNCHANGED <<tables, shared, upper, flight>>

\* The transaction becomes visible: counter, rows and, in an inline call, the change.
Commit(c) ==
    /\ At(c, "commit")
    /\ \/ /\ NoFault /\ gen' = gen + 1
          /\ rows' = [u \in Users |-> IF u \in st[c].del THEN NoEntry ELSE rows[u]]
          /\ LET rec == [st[c] EXCEPT !.counter = FALSE, !.del = {}, !.owes = {}]
             IN  IF Op(c) \in Inline
                 THEN /\ members' = MembersAfter(c) /\ grant' = GrantAfter(c)
                      /\ Set(c, [rec EXCEPT !.pc = "clear"])
                 ELSE /\ UNCHANGED tables /\ Answer(c, rec)
       \/ /\ Rollback(c) /\ UNCHANGED <<tables, shared>>
    /\ Rest /\ UNCHANGED <<upper, flight>>

\* InvalidateCacheForOrg and InvalidateCacheForGroup outside a transaction: the counter
\* and the rows are two statements, each committed by itself.
BumpOnly(c) ==
    /\ At(c, "bumpOnly")
    /\ \/ /\ Sharers = {} /\ Counting = {} /\ NoFault /\ gen' = gen + 1 /\ Goto(c, "deleteOnly")
       \/ /\ Rollback(c) /\ UNCHANGED gen
    /\ Rest /\ UNCHANGED <<tables, rows, upper, flight>>

DeleteOnly(c) ==
    /\ At(c, "deleteOnly")
    /\ \/ /\ \A u \in Doomed(c) : Deleting(u) = {}
          /\ NoFault /\ rows' = [u \in Users |-> IF u \in Scope(c) THEN NoEntry ELSE rows[u]]
          /\ Answer(c, [st[c] EXCEPT !.owes = {}])
       \/ /\ Rollback(c) /\ UNCHANGED rows
    /\ Rest /\ UNCHANGED <<tables, gen, upper, flight>>
----------------------------------------------------------------------------
Tick ==
    /\ now < load.ticks /\ now' = now + 1
    /\ UNCHANGED <<load, tables, shared, upper, flight, st, faults>>

\* cleanup: the memory cache drops expired entries.
Cleanup(r) ==
    /\ ~load.redis /\ \E u \in Users : upper[r][u].some /\ upper[r][u].exp < now
    /\ upper' = [upper EXCEPT ![r] = [u \in Users |-> IF @[u].exp < now THEN NoEntry ELSE @[u]]]
    /\ UNCHANGED <<load, tables, shared, flight, now, st, faults>>

ReadStep(c) ==
    \/ StartRead(c) \/ GetUpper(c) \/ GetCachedPermissions(c) \/ Claim(c) \/ Await(c)
    \/ CacheGeneration(c) \/ ReadMemberships(c) \/ ReadGrants(c) \/ LockGeneration(c)
    \/ Upsert(c) \/ Broadcast(c) \/ RemoveEntry(c) \/ SetUpper(c)
WriteStep(c) ==
    \/ StartWrite(c) \/ Write(c) \/ ClearUpper(c) \/ Bump(c) \/ DeleteRows(c) \/ Commit(c)
    \/ BumpOnly(c) \/ DeleteOnly(c)

Next == (\E c \in Calls : ReadStep(c) \/ WriteStep(c)) \/ Tick \/ (\E r \in Replicas : Cleanup(r))

\* Goroutines of calls that have begun are scheduled; statements end, with an answer or an
\* error, and locks are granted.
Spec ==
    /\ Init /\ [][Next]_vars
    /\ WF_vars(\E c \in Calls : Begun(c) /\ (ReadStep(c) \/ WriteStep(c)))
----------------------------------------------------------------------------
PermsType == [member : BOOLEAN, grant : Grants, exp : Nat]
EntryType == [some : BOOLEAN, perms : PermsType, exp : Nat]

\* Every variable holds a value of its kind.
TypeOK ==
    /\ members \subseteq Users /\ grant \in Grants /\ gen \in Nat
    /\ rows \in [Users -> EntryType] /\ upper \in [Places -> [Users -> EntryType]]
    /\ flight \in [Replicas -> [Users -> Calls \cup {"none"}]]
    /\ now \in 0..MaxTime /\ faults \in 0..load.faults
    /\ \A c \in Calls : /\ st[c].perms \in PermsType
                        /\ st[c].snap \in Nat /\ st[c].wait \in Calls \cup {"none"}

\* Some change to u's permissions is committed and its invalidation is still to come, or
\* has failed.
Owed(u) == \E c \in Calls : u \in st[c].owes

\* Once every committed change has been followed by its invalidation, a live row of the
\* shared cache shows what the tables say: no computation publishes what it read before a
\* change (the generation guard of SetCachedPermissionsAtGeneration).
RowFresh ==
    \A u \in Users : rows[u].some /\ now < rows[u].exp /\ ~Owed(u)
                        => View(rows[u].perms) = Facts(u, now)

Apart(c, d) == c \in st[d].before \/ d \in st[c].before \/ ~Begun(c) \/ ~Begun(d)
Writes(c) == Op(c) \in Separate \cup Inline

\* No request has ever overlapped an administrator's call, all calls use one cache and no
\* statement failed.
Quiet ==
    /\ faults = 0
    /\ \A c, d \in Calls : Begun(c) /\ Begun(d) => Place(c) = Place(d)
    /\ \A c, d \in Calls : Op(c) \in Reads /\ Writes(d) => Apart(c, d)
    /\ load.redis => \A u \in Users : load.until[u] > MaxTime

\* In a quiet history a request is answered with what the tables say: invalidation reaches
\* every layer and every user it must (InvalidateUser, InvalidateOrg, InvalidateGroup,
\* InvalidateOrgLocalCache).
QuietAnswersCurrent ==
    Quiet => \A c \in Calls : Op(c) \in Reads /\ Finished(c) => st[c].fit

\* A membership with an end is not served past it: by the time an answer that relies on it
\* was read, from a cache in memory, from the table or from a computation, it had not ended.
WindowRespected ==
    ~load.redis =>
        \A c \in Calls : Op(c) \in Reads /\ Finished(c) /\ ~st[c].err /\ st[c].perms.member
                            => st[c].readAt <= load.until[User(c)]

\* A call that has begun is answered: no slot, lock or waiter is left behind.
EveryCallAnswered == \A c \in Calls : Begun(c) ~> Finished(c)

\* A request is answered from current facts: with what the tables say after a change was
\* answered, and never with a membership past its end.
AnswersCurrent == TypeOK /\ QuietAnswersCurrent /\ WindowRespected
=============================================================================
