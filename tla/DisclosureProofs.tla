------------------------- MODULE DisclosureProofs -------------------------
(***************************************************************************)
(* Disclosure keeps to the consent and every read is recorded, for any     *)
(* number of requests, grants and handlers, and any scopes, narrowings,    *)
(* faults and deletions.                                                   *)
(*                                                                         *)
(* ServedWithinConsent is not inductive: it speaks of a handler about to   *)
(* answer, whose scope was read from a grant several steps before, which   *)
(* an approval made of a request read earlier still.  The invariant Inv    *)
(* says of each of them that its scope is a subset of the request's.       *)
(*                                                                         *)
(* ReadsRecorded is not either: between a read and its record the count is *)
(* short.  The invariant Ledger counts, for every grant, the handlers that *)
(* still owe a record.                                                     *)
(***************************************************************************)
EXTENDS Disclosure, TLAPS

USE ZenonT(10), SMTT(30), SMTT(40)

\* scope is within what the request r asked for, and r exists or existed.
Consented(scope, r) ==
    r \in Requests /\ requests[r].status # "none" /\ IsSubsetOf(scope, requests[r].scope)

DataWithin(data, scope) ==
    /\ \A x \in data.txs : CoversTransaction(scope, x.parties, x.time)
    /\ \A t \in data.times : InDateRange(scope, t)
    /\ data.level = EffectiveLevel(scope.level)

GrantOK(grant) ==
    IF grant.state = "none" THEN grant.request = "none"
    ELSE Consented(grant.scope, grant.request)

HandlerOK(do) ==
    /\ do.op \in {"approve", "reject", "revoke", "delete"} \cup Routes => do.request \in Requests
    /\ do.op = "approve" \/ do.op \in Routes => Consented(do.row.scope, do.request)
    /\ do.op = "activity" /\ do.at \in {"fetch", "record"} => ServesActivity(do.row.scope)
    /\ do.op \in Routes /\ do.at = "record" /\ do.data # NoData
       => DataWithin(do.data, do.row.scope)

Inv ==
    /\ TypeOK
    /\ \A g \in Grants : GrantOK(grants[g])
    /\ \A h \in Handlers : HandlerOK(handlers[h])
----------------------------------------------------------------------------
(* Scopes.                                                                 *)

\* isSubsetOf is sound: what a narrower scope covers, the wider one covers.
LEMMA SubsetCovers ==
    ASSUME NEW s \in Scopes, NEW p \in Scopes, IsSubsetOf(s, p)
    PROVE  /\ \A parties : \A time \in Int :
                 CoversTransaction(s, parties, time) => CoversTransaction(p, parties, time)
           /\ ServesActivity(s) => ServesActivity(p)
           /\ \A time \in Int : InDateRange(s, time) => InDateRange(p, time)
           /\ DisclosureRank(s.level) <= DisclosureRank(p.level)
  <1>1. s.range \in [start : Int, end : Int] /\ p.range \in [start : Int, end : Int]
    BY DEF Scopes
  <1>2. ASSUME NEW time \in Int, InDateRange(s, time) PROVE InDateRange(p, time)
    BY <1>1, <1>2 DEF InDateRange, IsSubsetOf, NoRange
  <1>3. ASSUME NEW parties, InAddressScope(s, parties) PROVE InAddressScope(p, parties)
    BY <1>3 DEF InAddressScope, IsSubsetOf
  <1>4. ASSUME NEW parties, NEW time \in Int, CoversTransaction(s, parties, time)
        PROVE  CoversTransaction(p, parties, time)
    BY <1>2, <1>3, <1>4 DEF CoversTransaction, IsSubsetOf
  <1>5. ServesActivity(s) => ServesActivity(p)
    BY DEF ServesActivity, IsSubsetOf
  <1>6. DisclosureRank(s.level) <= DisclosureRank(p.level)
    BY DEF IsSubsetOf
  <1> QED BY <1>2, <1>4, <1>5, <1>6

\* The level a scope is read at has the rank of the level that is stored.
LEMMA EffectiveRank ==
    ASSUME NEW level \in AnyLevel
    PROVE  /\ EffectiveLevel(level) \in Levels
           /\ EffectiveLevel(EffectiveLevel(level)) = EffectiveLevel(level)
           /\ DisclosureRank(EffectiveLevel(level)) = DisclosureRank(level)
  <1>1. EffectiveLevel(level) \in {"full", "pseudonymous", "redacted"}
    BY DEF EffectiveLevel
  <1>2. EffectiveLevel(EffectiveLevel(level)) = EffectiveLevel(level)
    BY <1>1 DEF EffectiveLevel
  <1>3. DisclosureRank(EffectiveLevel(level)) = DisclosureRank(level)
    BY <1>2 DEF DisclosureRank
  <1>4. EffectiveLevel(level) \in Levels
    BY <1>1 DEF Levels
  <1> QED BY <1>2, <1>3, <1>4

\* Normalize and ForRead change nothing that isSubsetOf looks at, on either side.
LEMMA SameScope ==
    ASSUME NEW s \in Scopes
    PROVE  /\ Normalize(s) \in Scopes /\ ForRead(s) \in Scopes
           /\ \A p : /\ IsSubsetOf(s, p) => IsSubsetOf(ForRead(s), p)
                     /\ IsSubsetOf(p, Normalize(s)) => IsSubsetOf(p, s)
  <1> DEFINE n == Normalize(s)
             f == ForRead(s)
  <1>1. /\ n \in Scopes /\ n.methods = s.methods /\ n.addresses = s.addresses
        /\ n.range = s.range /\ EffectiveLevel(n.level) = EffectiveLevel(s.level)
    <2>1. /\ s.methods \in SUBSET (Methods \cup {"unknown"}) /\ s.addresses \in SUBSET STRING
          /\ s.level \in AnyLevel /\ s.range \in [start : Int, end : Int]
      BY DEF Scopes
    <2>2. n.level = IF s.level = "" THEN "redacted" ELSE s.level
      BY DEF Normalize
    <2>3. /\ n.methods = s.methods /\ n.addresses = s.addresses /\ n.range = s.range
      BY DEF Normalize
    <2>4. n.level \in AnyLevel
      BY <2>1, <2>2, ZenonT(30) DEF AnyLevel, Levels
    <2>5. EffectiveLevel(n.level) = EffectiveLevel(s.level)
      BY <2>2, ZenonT(30) DEF EffectiveLevel
    <2>6. n \in Scopes
      BY <2>1, <2>4, ZenonT(30) DEF Scopes, Normalize
    <2> QED BY <2>3, <2>5, <2>6
  <1>2. /\ f \in Scopes /\ f.methods = s.methods /\ f.addresses = s.addresses
        /\ f.range = s.range /\ EffectiveLevel(f.level) = EffectiveLevel(s.level)
    <2>1. /\ s.methods \in SUBSET (Methods \cup {"unknown"}) /\ s.addresses \in SUBSET STRING
          /\ s.level \in AnyLevel /\ s.range \in [start : Int, end : Int]
      BY DEF Scopes
    <2>2. EffectiveLevel(s.level) \in Levels
          /\ EffectiveLevel(EffectiveLevel(s.level)) = EffectiveLevel(s.level)
      BY <2>1, EffectiveRank
    <2>3. f.level = EffectiveLevel(s.level)
      BY <2>2, ZenonT(30) DEF ForRead, Normalize, Levels
    <2>4. /\ f.methods = s.methods /\ f.addresses = s.addresses /\ f.range = s.range
      BY DEF ForRead, Normalize
    <2>5. f.level \in AnyLevel
      BY <2>2, <2>3, ZenonT(30) DEF AnyLevel
    <2>6. f \in Scopes
      BY <2>1, <2>5, ZenonT(30) DEF Scopes, ForRead, Normalize
    <2> QED BY <2>2, <2>3, <2>4, <2>6
  <1>3. DisclosureRank(n.level) = DisclosureRank(s.level)
        /\ DisclosureRank(f.level) = DisclosureRank(s.level)
    BY <1>1, <1>2 DEF DisclosureRank
  <1> HIDE DEF n, f
  <1>4. ASSUME NEW p, IsSubsetOf(s, p) PROVE IsSubsetOf(f, p)
    BY <1>2, <1>3, <1>4 DEF IsSubsetOf, AllowsTransactionHistory, AllowsActivityLogs
  <1>5. ASSUME NEW p, IsSubsetOf(p, n) PROVE IsSubsetOf(p, s)
    BY <1>1, <1>3, <1>5 DEF IsSubsetOf, AllowsTransactionHistory, AllowsActivityLogs
  <1> QED BY <1>1, <1>2, <1>4, <1>5 DEF n, f

\* mergeNarrowedScope of two scopes is a scope.
LEMMA MergedScope ==
    ASSUME NEW s \in Scopes, NEW o \in Scopes PROVE MergeNarrowed(s, o) \in Scopes
  BY ZenonT(30) DEF MergeNarrowed, Scopes
----------------------------------------------------------------------------
(* Steps.                                                                  *)

\* No step changes what a request asked for.
RequestsKept ==
    \A r \in Requests :
        requests[r].status # "none" =>
            requests'[r].status # "none" /\ requests'[r].scope = requests[r].scope

\* A step that keeps the requests, and after which grants and handlers are within the
\* consent given so far, keeps the invariant.
LEMMA Frame ==
    ASSUME Inv, TypeOK', RequestsKept,
           \A g \in Grants : GrantOK(grants'[g]),
           \A h \in Handlers : HandlerOK(handlers'[h])
    PROVE  Inv'
  <1>1. \A s, r : Consented(s, r) =>
            r \in Requests /\ requests'[r].status # "none" /\ IsSubsetOf(s, requests'[r].scope)
    BY DEF RequestsKept, Consented
  <1>2. ASSUME NEW g \in Grants PROVE GrantOK(grants[g])'
    BY <1>1 DEF GrantOK, Consented
  <1>3. ASSUME NEW h \in Handlers PROVE HandlerOK(handlers[h])'
    BY <1>1 DEF HandlerOK, Consented
  <1> QED BY <1>2, <1>3 DEF Inv

\* Scopes and rows that nothing was read into.
LEMMA FreshTypes ==
    /\ NoScope \in Scopes /\ LegacyScope \in Scopes /\ NoData \in Data
    /\ FreshGrant \in GrantRows /\ Idle \in HandlerStates /\ HandlerOK(Idle)
    /\ IsSubsetOf(LegacyScope, LegacyScope)
  <1>1. NoRange \in [start : Int, end : Int]
    BY DEF NoRange
  <1>2. NoScope \in Scopes /\ LegacyScope \in Scopes
    BY <1>1 DEF NoScope, LegacyScope, Scopes, AnyLevel, Levels, Methods
  <1>3. NoData \in Data
    BY DEF NoData, Data
  <1>4. FreshGrant \in GrantRows
    BY <1>2 DEF FreshGrant, GrantRows
  <1>5. Idle \in HandlerStates
    BY <1>3, <1>4 DEF Idle, HandlerStates, Ops, Steps
  <1>6. HandlerOK(Idle)
    BY DEF HandlerOK, Idle, Routes
  <1>7. DisclosureRank("unknown") \in Int
    BY DEF DisclosureRank
  <1>8. IsSubsetOf(LegacyScope, LegacyScope)
    BY <1>7 DEF IsSubsetOf, LegacyScope, NoRange
  <1> QED BY <1>2, <1>3, <1>4, <1>5, <1>6, <1>8

\* A database with no grants, or with one of an earlier version, is within the consent.
LEMMA InitInv == Init => Inv
  <1> SUFFICES ASSUME Init PROVE Inv
    OBVIOUS
  <1> USE DisclosureAssumption, FreshTypes
  <1>1. PICK r0 \in load.requests, g0 \in Grants :
          LET old == "legacy" \in load.events
          IN  /\ requests = [r \in Requests |->
                    IF old /\ r = r0
                    THEN [status |-> "approved", scope |-> LegacyScope, expires |-> 0]
                    ELSE FreshRequest]
              /\ grants = [g \in Grants |->
                    IF old /\ g = g0
                    THEN [state |-> "live", request |-> r0, scope |-> LegacyScope,
                          granted |-> 1, expires |-> load.time, revoked |-> FALSE]
                    ELSE FreshGrant]
    BY ZenonT(30) DEF Init
  <1>2. load \in Loads /\ r0 \in Requests /\ load.time \in Nat \ {0} /\ load.starts \in Nat
    BY DEF Init
  <1>3. requests \in [Requests -> [status : Statuses, scope : Scopes, expires : Nat]]
    BY <1>1, <1>2 DEF FreshRequest, Statuses
  <1>4. grants \in [Grants -> GrantRows]
    BY <1>1, <1>2 DEF GrantRows
  <1>5. ASSUME NEW g \in Grants, grants[g].state # "none"
        PROVE
            /\ grants[g].request \in Requests /\ Stored(grants[g].request)
            /\ grants[g].scope = LegacyScope
            /\ requests[grants[g].request].scope = LegacyScope
    <2>1. "legacy" \in load.events /\ g = g0
      BY <1>1, <1>5 DEF FreshGrant
    <2>2. grants[g].request = r0 /\ grants[g].scope = LegacyScope
      BY <1>1, <2>1
    <2>3. requests[r0] = [status |-> "approved", scope |-> LegacyScope, expires |-> 0]
      BY <1>1, <1>2, <2>1
    <2> QED BY <1>2, <2>2, <2>3 DEF Stored
  <1>6. \A h \in Handlers : handlers[h] = Idle
    BY DEF Init
  <1>7. TypeOK
    <2>1. now \in 1 .. load.time /\ starts \in 0 .. load.starts /\ member \in BOOLEAN
      BY <1>2 DEF Init
    <2>2. handlers \in [Handlers -> HandlerStates]
      BY DEF Init
    <2>3. /\ events \in [Grants -> Nat] /\ lost \in [Grants -> Nat]
          /\ reads \in [Grants -> Nat] /\ ended \subseteq Requests
      BY DEF Init
    <2>4. \A g \in Grants : Live(g) =>
              grants[g].request \in Requests /\ Stored(grants[g].request)
      BY <1>5 DEF Live
    <2> QED BY <1>2, <1>3, <1>4, <2>1, <2>2, <2>3, <2>4 DEF TypeOK
  <1>8. ASSUME NEW g \in Grants PROVE GrantOK(grants[g])
    <2>1. CASE grants[g].state = "none"
      BY <1>1, <2>1 DEF FreshGrant, GrantOK
    <2>2. CASE grants[g].state # "none"
      BY <1>5, <2>2 DEF GrantOK, Consented, Stored
    <2> QED BY <2>1, <2>2
  <1> QED BY <1>6, <1>7, <1>8 DEF Inv

\* The handlers after a step are within the consent given before it.
HandlersFine ==
    /\ handlers' \in [Handlers -> HandlerStates]
    /\ \A k \in Handlers : HandlerOK(handlers'[k])

\* The counters after a step.
CountersFine ==
    /\ starts' \in 0 .. load.starts
    /\ events' \in [Grants -> Nat] /\ lost' \in [Grants -> Nat] /\ reads' \in [Grants -> Nat]

\* A handler that answers, goes on, or begins.
LEMMA DoneFine ==
    ASSUME Inv, NEW h \in Handlers, Done(h) PROVE HandlersFine
  BY FreshTypes DEF Inv, TypeOK, Done, HandlersFine

\* Moving on to a step before the data are fetched, or after they are answered.
LEMMA GotoFine ==
    ASSUME Inv, NEW h \in Handlers, NEW at \in Steps \ {"fetch", "record"}, Goto(h, at)
    PROVE  HandlersFine
  <1>1. handlers \in [Handlers -> HandlerStates] /\ HandlerOK(handlers[h])
    BY DEF Inv, TypeOK
  <1>2. /\ handlers'[h].op = handlers[h].op /\ handlers'[h].at = at
        /\ handlers'[h].request = handlers[h].request /\ handlers'[h].row = handlers[h].row
        /\ handlers'[h].data = handlers[h].data
    BY <1>1 DEF Goto, HandlerStates
  <1>3. handlers' \in [Handlers -> HandlerStates]
    BY <1>1 DEF Goto, HandlerStates
  <1>4. HandlerOK(handlers'[h])
    BY <1>1, <1>2 DEF HandlerOK
  <1>5. \A k \in Handlers : k # h => handlers'[k] = handlers[k]
    BY <1>1 DEF Goto
  <1> QED BY <1>3, <1>4, <1>5 DEF Inv, HandlersFine

\* Beginning with what was just read.
LEMMA BeginFine ==
    ASSUME Inv, NEW h \in Handlers, NEW do \in HandlerStates, HandlerOK(do), Begin(h, do)
    PROVE  HandlersFine /\ starts' \in 0 .. load.starts
  <1>1. load.starts \in Nat
    BY DisclosureAssumption DEF Inv, TypeOK
  <1> QED BY <1>1 DEF Inv, TypeOK, Begin, HandlersFine

\* A step of handlers that leaves requests and grants alone.
LEMMA Quiet ==
    ASSUME Inv, HandlersFine, CountersFine,
           UNCHANGED <<load, now, requests, grants, member, ended>>
    PROVE  Inv'
  <1>1. TypeOK'
    BY DEF Inv, TypeOK, HandlersFine, CountersFine, Live, Stored
  <1>2. RequestsKept
    BY DEF RequestsKept
  <1>3. \A g \in Grants : GrantOK(grants'[g])
    BY DEF Inv
  <1> QED BY <1>1, <1>2, <1>3, Frame DEF HandlersFine

\* Counting a read, an event or a logged read.
LEMMA Counted ==
    ASSUME Inv, NEW gs
    PROVE  /\ CountRead(gs) => reads' \in [Grants -> Nat]
           /\ Recorded(gs) => events' \in [Grants -> Nat]
           /\ Logged(gs) => lost' \in [Grants -> Nat]
           /\ UNCHANGED reads => reads' \in [Grants -> Nat]
           /\ UNCHANGED events => events' \in [Grants -> Nat]
           /\ UNCHANGED lost => lost' \in [Grants -> Nat]
           /\ UNCHANGED starts /\ UNCHANGED load => starts' \in 0 .. load.starts
  BY DEF Inv, TypeOK, CountRead, Recorded, Logged

\* The row BeginDecision keeps is the granted scope.
LEMMA DecisionFine ==
    ASSUME Inv, NEW h \in Handlers, NEW op \in {"approve", "reject", "revoke"},
           NEW at \in {"insert", "mark", "find"}, NEW r \in Requests, NEW scope \in Scopes,
           BeginDecision(h, op, at, r, scope), op = "approve" => Consented(scope, r)
    PROVE  HandlersFine /\ starts' \in 0 .. load.starts
  <1> DEFINE do == [Idle EXCEPT !.op = op, !.at = at, !.request = r, !.row.scope = scope]
  <1>1. /\ do.op = op /\ do.at = at /\ do.request = r /\ do.set = {}
        /\ do.row = [FreshGrant EXCEPT !.scope = scope] /\ do.data = NoData /\ do.late = FALSE
    BY DEF Idle
  <1>2. do.row \in GrantRows /\ do.row.scope = scope
    <2>1. /\ [FreshGrant EXCEPT !.scope = scope] \in GrantRows
          /\ [FreshGrant EXCEPT !.scope = scope].scope = scope
      BY FreshTypes DEF GrantRows
    <2> HIDE DEF do
    <2> QED BY <1>1, <2>1
  <1>3. do \in HandlerStates
    BY <1>1, <1>2, FreshTypes, ZenonT(30) DEF HandlerStates, Ops, Steps, Idle
  <1>4. HandlerOK(do)
    BY <1>1, <1>2 DEF HandlerOK, Routes
  <1>5. Begin(h, do)
    BY DEF BeginDecision
  <1> HIDE DEF do
  <1> QED BY <1>3, <1>4, <1>5, BeginFine

\* ApproveRequest accepts only a narrowing of what the request asks for.
LEMMA ApproveStartInv ==
    ASSUME Inv, NEW h \in Handlers, NEW r \in load.requests, NEW n \in load.narrows,
           ApproveStart(h, r, n)
    PROVE  Inv'
  <1> DEFINE requested == Normalize(requests[r].scope)
             merged == MergeNarrowed(requested, n)
  <1>1. r \in Requests /\ n \in Scopes /\ requests[r].scope \in Scopes
    BY DisclosureAssumption DEF Inv, TypeOK
  <1>2. requested \in Scopes
    BY <1>1, SameScope
  <1>3. merged \in Scopes
    BY <1>1, <1>2, MergedScope
  <1>4. Normalize(merged) \in Scopes
    BY <1>3, SameScope
  <1>5. IsSubsetOf(Normalize(merged), requests[r].scope)
    BY <1>1, SameScope DEF ApproveStart
  <1>6. Consented(Normalize(merged), r)
    BY <1>1, <1>5 DEF Consented, ApproveStart
  <1>7. BeginDecision(h, "approve", "insert", r, Normalize(merged))
    BY DEF ApproveStart
  <1>8. HandlersFine /\ starts' \in 0 .. load.starts
    BY <1>1, <1>4, <1>6, <1>7, DecisionFine
  <1>9. CountersFine
    BY <1>8, Counted DEF CountersFine, ApproveStart
  <1> QED BY <1>8, <1>9, Quiet DEF ApproveStart

\* Rejecting, revoking and deleting begin with nothing granted.
LEMMA OtherStartsInv ==
    ASSUME Inv, NEW h \in Handlers, NEW r \in load.requests,
           RejectStart(h, r) \/ RevokeStart(h, r) \/ DeleteStart(h, r)
    PROVE  Inv'
  <1>1. r \in Requests
    BY DisclosureAssumption DEF Inv, TypeOK
  <1>2. HandlersFine /\ starts' \in 0 .. load.starts
    <2>1. CASE RejectStart(h, r)
      BY <1>1, <2>1, DecisionFine, FreshTypes DEF RejectStart
    <2>2. CASE RevokeStart(h, r)
      BY <1>1, <2>2, DecisionFine, FreshTypes DEF RevokeStart
    <2>3. CASE DeleteStart(h, r)
      <3> DEFINE do == [Idle EXCEPT !.op = "delete", !.at = "delete", !.request = r]
      <3>1. do \in HandlerStates
        BY <1>1, FreshTypes, ZenonT(30) DEF HandlerStates, Ops, Steps
      <3>2. HandlerOK(do)
        BY <1>1 DEF HandlerOK, Routes, Idle
      <3>3. Begin(h, do)
        BY <2>3 DEF DeleteStart
      <3> HIDE DEF do
      <3> QED BY <3>1, <3>2, <3>3, BeginFine
    <2> QED BY <2>1, <2>2, <2>3
  <1>3. CountersFine /\ UNCHANGED <<load, now, requests, grants, member, ended>>
    BY <1>2, Counted DEF CountersFine, RejectStart, RevokeStart, DeleteStart
  <1> QED BY <1>2, <1>3, Quiet

\* Steps that only end a handler or move it on.
LEMMA RevokeFindInv ==
    ASSUME Inv, NEW h \in Handlers, RevokeFind(h) PROVE Inv'
  <1>1. handlers \in [Handlers -> HandlerStates] /\ HandlerOK(handlers[h])
    BY DEF Inv, TypeOK
  <1>2. HandlersFine
    <2>1. CASE Goto(h, "mark")
      BY <2>1, GotoFine DEF Steps
    <2>2. ASSUME NEW g \in Grants,
                 handlers' = [handlers EXCEPT ![h].at = "unset", ![h].set = {g}]
          PROVE  HandlersFine
      <3>1. handlers' \in [Handlers -> HandlerStates]
        <4>1. [handlers[h] EXCEPT !.at = "unset", !.set = {g}] \in HandlerStates
          <5>1. "unset" \in Steps /\ {g} \in SUBSET Grants /\ handlers[h] \in HandlerStates
            BY <1>1 DEF Steps
          <5> QED BY <5>1, ZenonT(30) DEF HandlerStates
        <4>2. handlers' = [handlers EXCEPT ![h] =
                              [handlers[h] EXCEPT !.at = "unset", !.set = {g}]]
          BY <1>1, <2>2, ZenonT(30)
        <4> QED BY <1>1, <4>1, <4>2
      <3>2. /\ handlers'[h].op = handlers[h].op /\ handlers'[h].at = "unset"
            /\ handlers'[h].request = handlers[h].request
            /\ handlers'[h].row = handlers[h].row
        BY <1>1, <2>2 DEF HandlerStates
      <3>3. HandlerOK(handlers'[h])
        BY <1>1, <3>2 DEF HandlerOK
      <3>4. \A k \in Handlers : k # h => handlers'[k] = handlers[k]
        BY <1>1, <2>2
      <3> QED BY <3>1, <3>3, <3>4 DEF Inv, HandlersFine
    <2> QED BY <2>1, <2>2 DEF RevokeFind
  <1>3. CountersFine
    BY Counted DEF CountersFine, RevokeFind
  <1> QED BY <1>2, <1>3, Quiet DEF RevokeFind

\* A failing statement ends the handler.
LEMMA FailsInv ==
    ASSUME Inv, NEW h \in Handlers, Fails(h) PROVE Inv'
  BY DoneFine, Counted, Quiet DEF Fails, CountersFine

\* explorerGrant copies the row of a stored grant.
LEMMA ReadGrantInv ==
    ASSUME Inv, NEW h \in Handlers, NEW g \in Grants, NEW route \in Routes,
           ReadGrant(h, g, route)
    PROVE  Inv'
  <1> DEFINE late == ~IsActive(grants[g]) \/ grants[g].request \in ended \/ ~member
             do == [Idle EXCEPT !.op = route, !.at = "request", !.request = grants[g].request,
                       !.set = {g}, !.row = grants[g], !.late = late]
  <1>1. /\ grants[g] \in GrantRows /\ grants[g].request \in Requests
        /\ Consented(grants[g].scope, grants[g].request)
    BY DEF Inv, TypeOK, ReadGrant, Live, GrantOK
  <1>2. late \in BOOLEAN
    OBVIOUS
  <1>3. Begin(h, do)
    BY DEF ReadGrant
  <1> HIDE DEF late
  <1>4. do \in HandlerStates
    BY <1>1, <1>2, FreshTypes, ZenonT(30) DEF HandlerStates, Ops, Steps
  <1>5. HandlerOK(do)
    BY <1>1 DEF HandlerOK, Routes, Idle
  <1> HIDE DEF do
  <1>6. HandlersFine /\ starts' \in 0 .. load.starts
    BY <1>3, <1>4, <1>5, BeginFine
  <1>7. CountersFine
    BY <1>6, Counted DEF CountersFine, ReadGrant
  <1> QED BY <1>6, <1>7, Quiet DEF ReadGrant

\* The status of the request is looked at; nothing is added.
LEMMA ReadRequestInv ==
    ASSUME Inv, NEW h \in Handlers, ReadRequest(h) PROVE Inv'
  <1>1. HandlersFine
    BY DoneFine, GotoFine DEF ReadRequest, Steps
  <1> QED BY <1>1, Counted, Quiet DEF ReadRequest, CountersFine

\* ForRead of the scope that was read is within it.
LEMMA ReadMemberInv ==
    ASSUME Inv, NEW h \in Handlers, ReadMember(h) PROVE Inv'
  <1> DEFINE scope == ForRead(handlers[h].row.scope)
             row == [handlers[h].row EXCEPT !.scope = scope]
             do == [handlers[h] EXCEPT !.at = "fetch", !.row = row]
  <1>1. /\ handlers \in [Handlers -> HandlerStates] /\ handlers[h] \in HandlerStates
        /\ handlers[h].row \in GrantRows /\ handlers[h].row.scope \in Scopes
        /\ HandlerOK(handlers[h]) /\ handlers[h].op \in Routes
    BY DEF Inv, TypeOK, HandlerStates, GrantRows, ReadMember
  <1>2. /\ Consented(handlers[h].row.scope, handlers[h].request)
        /\ handlers[h].request \in Requests
    BY <1>1 DEF HandlerOK
  <1>3. scope \in Scopes /\ Consented(scope, handlers[h].request)
    BY <1>1, <1>2, SameScope DEF Consented
  <1>4. CASE Done(h)
    BY <1>4, DoneFine, Counted, Quiet DEF ReadMember, CountersFine
  <1>5. CASE /\ handlers' = [handlers EXCEPT ![h].at = "fetch", ![h].row.scope = scope]
             /\ RouteAllows(handlers[h].op, scope)
    <2>1. handlers' = [handlers EXCEPT ![h] = do]
      BY <1>1, <1>5, ZenonT(30) DEF HandlerStates
    <2> HIDE DEF scope
    <2>2. row \in GrantRows /\ row.scope = scope
      BY <1>1, <1>3 DEF GrantRows
    <2> HIDE DEF row
    <2>3. do \in HandlerStates
      BY <1>1, <2>2, ZenonT(30) DEF HandlerStates, Steps
    <2>4. /\ do.op = handlers[h].op /\ do.at = "fetch" /\ do.row.scope = scope
          /\ do.request = handlers[h].request
      BY <1>1, <2>2 DEF HandlerStates
    <2>5. handlers[h].op = "activity" => ServesActivity(scope)
      BY <1>5 DEF RouteAllows
    <2> HIDE DEF do
    <2>6. HandlerOK(do)
      BY <1>2, <1>3, <2>4, <2>5 DEF HandlerOK
    <2>7. HandlersFine
      BY <1>1, <2>1, <2>3, <2>6 DEF Inv, HandlersFine
    <2> QED BY <2>7, Counted, Quiet DEF ReadMember, CountersFine
  <1> QED BY <1>4, <1>5 DEF ReadMember

\* What a route fetches is covered by the scope it has read.
LEMMA FetchedWithin ==
    ASSUME NEW route \in Routes, NEW row \in GrantRows, now \in Nat
    PROVE  DataOf(route, row) \in Data /\ DataWithin(DataOf(route, row), row.scope)
  <1> DEFINE d == DataOf(route, row)
  <1>1. row.scope.level \in AnyLevel /\ row.granted \in Int /\ row.expires \in Int
    BY DEF GrantRows, Scopes
  <1>2. EffectiveLevel(row.scope.level) \in Levels
    BY <1>1, EffectiveRank
  <1>3. ActivityTimes(row) \in SUBSET Int /\ \A t \in ActivityTimes(row) : InDateRange(row.scope, t)
    BY <1>1 DEF ActivityTimes
  <1>4. /\ d.txs \in SUBSET Txs /\ d.times \in SUBSET Int
        /\ d.level = EffectiveLevel(row.scope.level)
        /\ \A x \in d.txs : CoversTransaction(row.scope, x.parties, x.time)
        /\ \A t \in d.times : InDateRange(row.scope, t)
    BY <1>3 DEF DataOf
  <1>5. d \in Data
    BY <1>2, <1>4 DEF DataOf, Data
  <1> QED BY <1>4, <1>5 DEF DataWithin

\* The clock is a number.
LEMMA NowNat == ASSUME TypeOK PROVE now \in Nat
  <1>1. load \in Loads /\ now \in 1 .. load.time
    BY DEF TypeOK
  <1>2. load.time \in Nat
    BY <1>1, DisclosureAssumption
  <1> QED BY <1>1, <1>2

\* A grant's expiry is a number.
LEMMA ExpiryNat == ASSUME TypeOK PROVE now \in Nat /\ now + Duration \in Nat
  <1>1. Duration \in Nat
    BY DisclosureAssumption
  <1>2. now \in Nat
    BY NowNat
  <1> QED BY <1>1, <1>2

\* Fetching with the scope that was read.
LEMMA FetchInv ==
    ASSUME Inv, NEW h \in Handlers, Fetch(h) PROVE Inv'
  <1> DEFINE data == IF Stored(handlers[h].request)
                     THEN DataOf(handlers[h].op, handlers[h].row) ELSE NoData
             do == [handlers[h] EXCEPT !.at = "record", !.data = data]
  <1>1. /\ handlers \in [Handlers -> HandlerStates] /\ handlers[h] \in HandlerStates
        /\ handlers[h].row \in GrantRows
        /\ HandlerOK(handlers[h]) /\ handlers[h].op \in Routes /\ handlers[h].at = "fetch"
    BY DEF Inv, TypeOK, HandlerStates, Fetch
  <1>2. now \in Nat
    <2>1. TypeOK
      BY DEF Inv
    <2> QED BY <2>1, NowNat
  <1>3. data \in Data /\ (data # NoData => DataWithin(data, handlers[h].row.scope))
    BY <1>1, <1>2, FetchedWithin, FreshTypes
  <1>4. CASE Done(h) /\ UNCHANGED reads
    BY <1>4, DoneFine, Counted, Quiet DEF Fetch, CountersFine
  <1>5. CASE handlers' = [handlers EXCEPT ![h].at = "record", ![h].data = data]
             /\ CountRead(handlers[h].set)
    <2> HIDE DEF data
    <2>1. handlers' = [handlers EXCEPT ![h] = do]
      BY <1>1, <1>5, ZenonT(30) DEF HandlerStates
    <2>2. do \in HandlerStates
      BY <1>1, <1>3, ZenonT(30) DEF HandlerStates, Steps
    <2>3. /\ do.op = handlers[h].op /\ do.at = "record" /\ do.row = handlers[h].row
          /\ do.request = handlers[h].request /\ do.data = data
      BY <1>1 DEF HandlerStates
    <2> HIDE DEF do
    <2>4. HandlerOK(do)
      BY <1>1, <1>3, <2>3 DEF HandlerOK
    <2>5. HandlersFine
      BY <1>1, <2>1, <2>2, <2>4 DEF Inv, HandlersFine
    <2> QED BY <1>5, <2>5, Counted, Quiet DEF Fetch, CountersFine
  <1> QED BY <1>4, <1>5 DEF Fetch

\* The list of addresses has no data of its own scope.
LEMMA ListAddressesInv ==
    ASSUME Inv, NEW h \in Handlers, ListAddresses(h) PROVE Inv'
  <1> DEFINE listed == {g \in Grants : Live(g) /\ IsActive(grants[g])
                                        /\ EligibleRequest(grants[g].request) /\ member}
             late == \E g \in listed : grants[g].request \in ended
             do == [Idle EXCEPT !.op = "list", !.at = "record", !.set = listed, !.late = late]
  <1>1. listed \in SUBSET Grants /\ late \in BOOLEAN
    OBVIOUS
  <1>2. Begin(h, do) /\ CountRead(listed)
    BY DEF ListAddresses
  <1> HIDE DEF listed, late
  <1>3. do \in HandlerStates
    BY <1>1, FreshTypes, ZenonT(30) DEF HandlerStates, Ops, Steps
  <1>4. HandlerOK(do)
    BY DEF HandlerOK, Routes, Idle
  <1> HIDE DEF do
  <1>5. HandlersFine /\ starts' \in 0 .. load.starts
    BY <1>2, <1>3, <1>4, BeginFine
  <1> QED BY <1>2, <1>5, Counted, Quiet DEF ListAddresses, CountersFine

\* Writing the events of a read.
LEMMA RecordInv ==
    ASSUME Inv, NEW h \in Handlers,
           \/ Record(h) \/ RecordRefused(h) \/ RecordUnclear(h) \/ RecoverTimeout(h)
    PROVE  Inv'
  <1>1. HandlersFine
    BY DoneFine, GotoFine
       DEF Record, RecordRefused, RecordUnclear, RecoverTimeout, Steps
  <1>2. CountersFine
    <2>1. CASE Record(h)
      BY <2>1, Counted DEF Record, CountersFine
    <2>2. CASE RecordRefused(h)
      BY <2>2, Counted DEF RecordRefused, CountersFine
    <2>3. CASE RecordUnclear(h)
      BY <2>3, Counted DEF RecordUnclear, CountersFine
    <2>4. CASE RecoverTimeout(h)
      BY <2>4, Counted DEF RecoverTimeout, CountersFine
    <2> QED BY <2>1, <2>2, <2>3, <2>4
  <1>3. UNCHANGED <<load, now, requests, grants, member, ended>>
    BY DEF Record, RecordRefused, RecordUnclear, RecoverTimeout
  <1> QED BY <1>1, <1>2, <1>3, Quiet

\* One attempt of the recovery.
LEMMA RecoverInv ==
    ASSUME Inv, NEW h \in Handlers, NEW g \in Grants, Recover(h, g) PROVE Inv'
  <1> DEFINE rest == handlers[h].set \ {g}
             do == [handlers[h] EXCEPT !.set = rest]
  <1>1. /\ handlers \in [Handlers -> HandlerStates] /\ handlers[h] \in HandlerStates
        /\ HandlerOK(handlers[h]) /\ handlers[h].at = "recover"
    BY DEF Inv, TypeOK, Recover
  <1>2. HandlersFine
    <2>1. CASE Done(h)
      BY <2>1, DoneFine
    <2>2. CASE handlers' = [handlers EXCEPT ![h].set = rest]
      <3>1. handlers' = [handlers EXCEPT ![h] = do]
        BY <1>1, <2>2 DEF HandlerStates
      <3>2. do \in HandlerStates
        BY <1>1 DEF HandlerStates
      <3>3. /\ do.op = handlers[h].op /\ do.at = "recover" /\ do.row = handlers[h].row
            /\ do.request = handlers[h].request
        BY <1>1 DEF HandlerStates
      <3> HIDE DEF do
      <3>4. HandlerOK(do)
        BY <1>1, <3>3 DEF HandlerOK
      <3> QED BY <1>1, <3>1, <3>2, <3>4 DEF Inv, HandlersFine
    <2> QED BY <2>1, <2>2 DEF Recover
  <1>3. CountersFine
    BY Counted DEF Recover, CountersFine
  <1> QED BY <1>2, <1>3, Quiet DEF Recover

\* Steps that change a request.
LEMMA CreateRequestInv ==
    ASSUME Inv, NEW r \in Requests, NEW s \in load.scopes, NEW e \in {0, 1},
           CreateRequest(r, s, e)
    PROVE  Inv'
  <1> DEFINE new == [status |-> "pending", scope |-> Normalize(s), expires |-> e]
  <1>1. Normalize(s) \in Scopes
    BY DisclosureAssumption, SameScope DEF Inv, TypeOK
  <1>2. requests \in [Requests -> [status : Statuses, scope : Scopes, expires : Nat]]
    BY DEF Inv, TypeOK
  <1>3. requests' = [requests EXCEPT ![r] = new]
    BY DEF CreateRequest
  <1>4. new \in [status : Statuses, scope : Scopes, expires : Nat]
    <2>1. "pending" \in Statuses /\ e \in Nat
      BY DEF Statuses
    <2> QED BY <1>1, <2>1
  <1>5. \A k \in Requests : k # r => requests'[k] = requests[k]
    BY <1>2, <1>3
  <1>6. requests'[r].status = "pending" /\ requests[r].status = "none"
    <2>1. requests'[r] = new
      BY <1>2, <1>3
    <2>2. requests[r].status = "none"
      BY DEF CreateRequest
    <2>3. new.status = "pending"
      OBVIOUS
    <2> HIDE DEF new
    <2> QED BY <2>1, <2>2, <2>3
  <1> HIDE DEF new
  <1>7. requests' \in [Requests -> [status : Statuses, scope : Scopes, expires : Nat]]
    BY <1>2, <1>3, <1>4
  <1>8. \A g \in Grants : Live(g)' =>
            grants'[g].request \in Requests /\ Stored(grants[g].request)'
    BY <1>5, <1>6 DEF Inv, TypeOK, Live, Stored, CreateRequest
  <1>9. TypeOK'
    BY <1>7, <1>8 DEF Inv, TypeOK, CreateRequest
  <1>10. RequestsKept
    BY <1>5, <1>6 DEF RequestsKept
  <1>11. /\ \A g \in Grants : GrantOK(grants'[g])
         /\ \A h \in Handlers : HandlerOK(handlers'[h])
    BY DEF Inv, CreateRequest
  <1> QED BY <1>9, <1>10, <1>11, Frame

\* UpdateDisclosureRequestStatus keeps a stored request stored, and its scope.
LEMMA SetStatusFine ==
    ASSUME Inv, NEW r \in Requests, NEW status \in {"approved", "rejected", "revoked"},
           SetStatus(r, status)
    PROVE  /\ requests' \in [Requests -> [status : Statuses, scope : Scopes, expires : Nat]]
           /\ RequestsKept /\ \A k \in Requests : Stored(k) => Stored(k)'
  <1>1. requests \in [Requests -> [status : Statuses, scope : Scopes, expires : Nat]]
    BY DEF Inv, TypeOK
  <1>2. /\ requests'[r].scope = requests[r].scope /\ requests'[r].expires = requests[r].expires
        /\ requests'[r].status = IF Stored(r) THEN status ELSE requests[r].status
    BY <1>1 DEF SetStatus
  <1>3. \A k \in Requests : k # r => requests'[k] = requests[k]
    BY <1>1 DEF SetStatus
  <1>4. requests' \in [Requests -> [status : Statuses, scope : Scopes, expires : Nat]]
    BY <1>1 DEF SetStatus, Statuses
  <1>5. RequestsKept
    BY <1>2, <1>3 DEF RequestsKept, Stored
  <1>6. \A k \in Requests : Stored(k) => Stored(k)'
    BY <1>2, <1>3 DEF Stored
  <1> QED BY <1>4, <1>5, <1>6

\* The last statement of each decision.
LEMMA MarksInv ==
    ASSUME Inv, NEW h \in Handlers, ApproveMark(h) \/ RejectMark(h) \/ RevokeMark(h)
    PROVE  Inv'
  <1>1. handlers[h].request \in Requests
    BY DEF Inv, HandlerOK, ApproveMark, RejectMark, RevokeMark, At
  <1>2. PICK status \in {"approved", "rejected", "revoked"} : SetStatus(handlers[h].request, status)
    BY DEF ApproveMark, RejectMark, RevokeMark
  <1>3. HandlersFine
    BY DoneFine DEF ApproveMark, RejectMark, RevokeMark
  <1>4. ended' \subseteq Requests
    BY <1>1 DEF Inv, TypeOK, ApproveMark, RejectMark, RevokeMark
  <1>5. UNCHANGED <<load, now, grants, member, starts, events, lost, reads>>
    BY DEF ApproveMark, RejectMark, RevokeMark
  <1>6. TypeOK'
    BY <1>1, <1>2, <1>3, <1>4, <1>5, SetStatusFine DEF Inv, TypeOK, HandlersFine, Live
  <1>7. \A g \in Grants : GrantOK(grants'[g])
    BY <1>5 DEF Inv
  <1> QED BY <1>1, <1>2, <1>3, <1>6, <1>7, SetStatusFine, Frame DEF HandlersFine

\* ON DELETE CASCADE leaves no grant of the deleted request, and changes no other.
LEMMA CascadeInv ==
    ASSUME Inv, NEW r \in Requests, Cascade(r), requests[r].status # "none", HandlersFine,
           UNCHANGED <<load, now, member, starts, lost, reads, ended>>
    PROVE  Inv'
  <1>1. /\ requests \in [Requests -> [status : Statuses, scope : Scopes, expires : Nat]]
        /\ grants \in [Grants -> GrantRows]
    BY DEF Inv, TypeOK
  <1>2. /\ requests' \in [Requests -> [status : Statuses, scope : Scopes, expires : Nat]]
        /\ requests'[r].scope = requests[r].scope /\ requests'[r].status = "deleted"
        /\ \A k \in Requests : k # r => requests'[k] = requests[k]
    BY <1>1 DEF Cascade, Statuses
  <1>3. ASSUME NEW g \in Grants
        PROVE  /\ grants'[g] \in GrantRows /\ GrantOK(grants'[g])
               /\ grants'[g].state = "live" => grants'[g] = grants[g] /\ grants[g].request # r
    <2>1. CASE grants[g].request = r
      <3>1. grants'[g] = [grants[g] EXCEPT !.state = "gone"]
        BY <2>1 DEF Cascade
      <3>2. Consented(grants[g].scope, grants[g].request)
        BY <2>1, DisclosureAssumption DEF Inv, GrantOK
      <3> QED BY <1>1, <2>1, <3>1, <3>2 DEF GrantRows, GrantOK
    <2>2. CASE grants[g].request # r
      <3>1. grants'[g] = grants[g]
        BY <2>2 DEF Cascade
      <3> QED BY <1>1, <2>2, <3>1 DEF Inv
    <2> QED BY <2>1, <2>2
  <1>4. grants' \in [Grants -> GrantRows] /\ events' \in [Grants -> Nat]
    BY <1>3 DEF Cascade, Inv, TypeOK
  <1>5. \A g \in Grants : Live(g)' =>
            grants'[g].request \in Requests /\ Stored(grants[g].request)'
    <2>1. \A g \in Grants : grants[g].state = "live" =>
              grants[g].request \in Requests /\ requests[grants[g].request].status # "none"
                                             /\ requests[grants[g].request].status # "deleted"
      BY DEF Inv, TypeOK, Live, Stored
    <2>2. ASSUME NEW g \in Grants, grants'[g].state = "live"
          PROVE  grants'[g].request \in Requests /\ Stored(grants[g].request)'
      <3>1. /\ grants'[g] = grants[g] /\ grants[g].request # r /\ grants[g].state = "live"
        BY <1>3, <2>2
      <3>2. requests'[grants[g].request] = requests[grants[g].request]
        BY <1>2, <2>1, <3>1, ZenonT(30)
      <3> QED BY <2>1, <3>1, <3>2 DEF Stored
    <2> QED BY <2>2 DEF Live
  <1>6. TypeOK'
    BY <1>2, <1>4, <1>5 DEF Inv, TypeOK, HandlersFine
  <1>7. RequestsKept
    BY <1>2 DEF RequestsKept
  <1> QED BY <1>3, <1>6, <1>7, Frame DEF HandlersFine

\* Deleting a pending request or a subject.
LEMMA DeletesInv ==
    ASSUME Inv,
           \/ \E r \in Requests : EraseSubject(r)
           \/ \E h \in Handlers : DeletePending(h)
    PROVE  Inv'
  <1>1. ASSUME NEW r \in Requests, EraseSubject(r) PROVE Inv'
    <2>1. HandlersFine
      BY <1>1 DEF EraseSubject, Inv, TypeOK, HandlersFine
    <2> QED BY <1>1, <2>1, CascadeInv, ZenonT(30) DEF EraseSubject, Stored
  <1>2. ASSUME NEW h \in Handlers, DeletePending(h) PROVE Inv'
    <2>1. HandlersFine
      BY <1>2, DoneFine DEF DeletePending
    <2>2. handlers[h].request \in Requests
      BY <1>2 DEF Inv, HandlerOK, DeletePending, At
    <2>3. CASE requests[handlers[h].request].status = "pending"
      BY <1>2, <2>1, <2>2, <2>3, CascadeInv, ZenonT(30) DEF DeletePending
    <2>4. CASE requests[handlers[h].request].status # "pending"
      BY <1>2, <2>1, <2>4, Counted, Quiet, ZenonT(30) DEF DeletePending, CountersFine
    <2> QED BY <2>3, <2>4
  <1> QED BY <1>1, <1>2

\* Steps that change a grant.
LEMMA GrantStep ==
    ASSUME Inv, HandlersFine, grants' \in [Grants -> GrantRows],
           starts' \in 0 .. load.starts,
           \A g \in Grants : /\ GrantOK(grants'[g])
                             /\ grants'[g].state = "live" =>
                                    grants'[g].request \in Requests /\ Stored(grants'[g].request),
           UNCHANGED <<load, now, requests, member, events, lost, reads, ended>>
    PROVE  Inv'
  <1>1. TypeOK'
    BY DEF Inv, TypeOK, HandlersFine, Live, Stored
  <1>2. RequestsKept
    BY DEF RequestsKept
  <1> QED BY <1>1, <1>2, Frame DEF HandlersFine

\* CreateGrant stores the scope ApproveRequest checked.
LEMMA ApproveInsertInv ==
    ASSUME Inv, NEW h \in Handlers, NEW g \in Grants, ApproveInsert(h, g) PROVE Inv'
  <1> DEFINE r == handlers[h].request
             new == [state |-> "live", request |-> r, scope |-> handlers[h].row.scope,
                     granted |-> now, expires |-> now + Duration, revoked |-> FALSE]
  <1>1. /\ r \in Requests /\ Consented(handlers[h].row.scope, r)
        /\ handlers[h].row.scope \in Scopes
    BY DEF Inv, TypeOK, HandlerStates, GrantRows, HandlerOK, ApproveInsert, At
  <1>2. CASE Stored(r)
    <2>1. grants' = [grants EXCEPT ![g] = new] /\ Goto(h, "mark")
      BY <1>2 DEF ApproveInsert
    <2>2. new \in GrantRows
      <3>1. now \in Nat /\ now + Duration \in Nat
        BY ExpiryNat DEF Inv
      <3> QED BY <1>1, <3>1 DEF GrantRows
    <2>3. GrantOK(new) /\ new.request = r
      BY <1>1 DEF GrantOK
    <2> HIDE DEF new
    <2>4. grants' \in [Grants -> GrantRows]
      BY <2>1, <2>2 DEF Inv, TypeOK
    <2>5. \A k \in Grants : /\ GrantOK(grants'[k])
                            /\ grants'[k].state = "live" =>
                                   grants'[k].request \in Requests /\ Stored(grants'[k].request)
      BY <1>1, <1>2, <2>1, <2>3, ZenonT(30) DEF Inv, TypeOK, Live
    <2>6. HandlersFine
      BY <2>1, GotoFine DEF Steps
    <2> QED BY <2>4, <2>5, <2>6, Counted, GrantStep DEF ApproveInsert
  <1>3. CASE ~Stored(r)
    BY <1>3, DoneFine, Counted, Quiet DEF ApproveInsert, CountersFine
  <1> QED BY <1>2, <1>3

\* Revoking changes only the mark, so what a grant allows stays as it was.
LEMMA RevocationsInv ==
    ASSUME Inv,
           \/ \E g \in Grants : AdminRevokeGrant(g)
           \/ \E h \in Handlers : RevokeUnset(h)
    PROVE  Inv'
  <1>1. grants \in [Grants -> GrantRows]
    BY DEF Inv, TypeOK
  <1>2. HandlersFine
    <2>1. ASSUME NEW g \in Grants, AdminRevokeGrant(g) PROVE HandlersFine
      BY <2>1 DEF AdminRevokeGrant, Inv, TypeOK, HandlersFine
    <2>2. ASSUME NEW h \in Handlers, RevokeUnset(h) PROVE HandlersFine
      BY <2>2, GotoFine DEF RevokeUnset, Steps
    <2> QED BY <2>1, <2>2
  <1>3. ASSUME NEW k \in Grants
        PROVE  /\ grants'[k] \in GrantRows /\ grants'[k].state = grants[k].state
               /\ grants'[k].request = grants[k].request /\ grants'[k].scope = grants[k].scope
    <2>1. grants'[k] = grants[k] \/ grants'[k] = [grants[k] EXCEPT !.revoked = TRUE]
      BY <1>1, ZenonT(30) DEF AdminRevokeGrant, RevokeUnset
    <2> QED BY <1>1, <2>1, ZenonT(30) DEF GrantRows
  <1>4. grants' \in [Grants -> GrantRows]
    BY <1>1, <1>3 DEF AdminRevokeGrant, RevokeUnset
  <1>5. \A k \in Grants : /\ GrantOK(grants'[k])
                          /\ grants'[k].state = "live" =>
                                 grants'[k].request \in Requests /\ Stored(grants'[k].request)
    BY <1>3 DEF Inv, TypeOK, Live, GrantOK
  <1>6. starts' \in 0 .. load.starts
    <2>1. load.starts \in Nat
      BY DisclosureAssumption DEF Inv, TypeOK
    <2> QED BY <2>1 DEF AdminRevokeGrant, RevokeUnset, Inv, TypeOK
  <1>7. UNCHANGED <<load, now, requests, member, events, lost, reads, ended>>
    BY DEF AdminRevokeGrant, RevokeUnset
  <1> QED BY <1>2, <1>4, <1>5, <1>6, <1>7, GrantStep

\* The clock and the membership.
LEMMA OutsideInv ==
    ASSUME Inv, Tick \/ LeaveOrg \/ UNCHANGED vars PROVE Inv'
  <1>1. load.time \in Nat
    BY DisclosureAssumption DEF Inv, TypeOK
  <1>2. TypeOK'
    <2>1. load' = load /\ now' \in 1 .. load.time
      <3>1. now \in 1 .. load.time
        BY DEF Inv, TypeOK
      <3>2. CASE Tick
        BY <1>1, <3>1, <3>2 DEF Tick
      <3> QED BY <3>1, <3>2 DEF LeaveOrg, vars
    <2>3. member' \in BOOLEAN
      BY ZenonT(30) DEF Inv, TypeOK, Tick, LeaveOrg, vars
    <2>2. UNCHANGED <<requests, grants, handlers, starts, events, lost, reads, ended>>
      BY DEF Tick, LeaveOrg, vars
    <2> QED BY <2>1, <2>2, <2>3 DEF Inv, TypeOK, Live, Stored
  <1>3. UNCHANGED <<requests, grants, handlers>>
    BY DEF Tick, LeaveOrg, vars
  <1> QED BY <1>2, <1>3, Frame DEF Inv, RequestsKept

\* The invariant is inductive.
LEMMA NextInv == Inv /\ [Next]_vars => Inv'
  <1> SUFFICES ASSUME Inv, [Next]_vars PROVE Inv'
    OBVIOUS
  <1>1. CASE Tick \/ LeaveOrg \/ UNCHANGED vars
    BY <1>1, OutsideInv
  <1>2. CASE \E r \in Requests, s \in load.scopes, e \in {0, 1} : CreateRequest(r, s, e)
    BY <1>2, CreateRequestInv
  <1>3. CASE \E r \in Requests : EraseSubject(r)
    BY <1>3, DeletesInv
  <1>4. CASE \E g \in Grants : AdminRevokeGrant(g)
    BY <1>4, RevocationsInv
  <1>5. ASSUME NEW h \in Handlers, Decide(h) PROVE Inv'
    <2>1. CASE \E r \in load.requests :
                  \/ \E n \in load.narrows : ApproveStart(h, r, n)
                  \/ RejectStart(h, r) \/ RevokeStart(h, r) \/ DeleteStart(h, r)
      BY <2>1, ApproveStartInv, OtherStartsInv
    <2>2. CASE \E g \in Grants : ApproveInsert(h, g)
      BY <2>2, ApproveInsertInv
    <2>3. CASE ApproveMark(h) \/ RejectMark(h) \/ RevokeMark(h)
      BY <2>3, MarksInv
    <2>4. CASE RevokeFind(h)
      BY <2>4, RevokeFindInv
    <2>5. CASE RevokeUnset(h)
      BY <2>5, RevocationsInv
    <2>6. CASE DeletePending(h)
      BY <2>6, DeletesInv
    <2>7. CASE Fails(h)
      BY <2>7, FailsInv
    <2> QED BY <1>5, <2>1, <2>2, <2>3, <2>4, <2>5, <2>6, <2>7, ZenonT(30) DEF Decide
  <1>6. ASSUME NEW h \in Handlers, Read(h) PROVE Inv'
    <2>1. CASE \E g \in Grants, route \in Routes : ReadGrant(h, g, route)
      BY <2>1, ReadGrantInv
    <2>2. CASE ReadRequest(h)
      BY <2>2, ReadRequestInv
    <2>3. CASE ReadMember(h)
      BY <2>3, ReadMemberInv
    <2>4. CASE Fetch(h)
      BY <2>4, FetchInv
    <2>5. CASE ListAddresses(h)
      BY <2>5, ListAddressesInv
    <2>6. CASE Record(h) \/ RecordRefused(h) \/ RecordUnclear(h) \/ RecoverTimeout(h)
      BY <2>6, RecordInv
    <2>7. CASE \E g \in Grants : Recover(h, g)
      BY <2>7, RecoverInv
    <2> QED BY <1>6, <2>1, <2>2, <2>3, <2>4, <2>5, <2>6, <2>7 DEF Read
  <1> QED BY <1>1, <1>2, <1>3, <1>4, <1>5, <1>6 DEF Next

\* In every state of the invariant the answers are within the consent.
LEMMA InvServes == Inv => ServedWithinConsent
  <1> SUFFICES ASSUME Inv, NEW h \in Handlers, handlers[h].op \in Routes,
                      handlers[h].at = "record", handlers[h].data # NoData
               PROVE  LET asked == requests[handlers[h].request].scope
                          data == handlers[h].data
                      IN  /\ \A x \in data.txs : CoversTransaction(asked, x.parties, x.time)
                          /\ handlers[h].op = "activity" => ServesActivity(asked)
                          /\ \A t \in data.times : InDateRange(asked, t)
                          /\ DisclosureRank(data.level) <= DisclosureRank(asked.level)
    BY DEF ServedWithinConsent
  <1> DEFINE scope == handlers[h].row.scope
             asked == requests[handlers[h].request].scope
             data == handlers[h].data
  <1>1. /\ handlers[h].request \in Requests /\ scope \in Scopes /\ data \in Data
        /\ requests \in [Requests -> [status : Statuses, scope : Scopes, expires : Nat]]
    <2>1. handlers[h] \in HandlerStates
      BY DEF Inv, TypeOK
    <2>2. handlers[h].request \in Requests
      BY DEF Inv, HandlerOK
    <2> QED BY <2>1, <2>2 DEF Inv, TypeOK, HandlerStates, GrantRows
  <1>2. /\ IsSubsetOf(scope, asked) /\ DataWithin(data, scope)
        /\ handlers[h].op = "activity" => ServesActivity(scope)
    BY DEF Inv, HandlerOK, Consented
  <1>3. /\ asked \in Scopes /\ data.txs \subseteq Txs /\ data.times \subseteq Int
        /\ scope.level \in AnyLevel
    BY <1>1 DEF Data, Scopes
  <1> HIDE DEF scope, asked, data
  <1>4. \A x \in data.txs : CoversTransaction(asked, x.parties, x.time)
    <2> SUFFICES ASSUME NEW x \in data.txs PROVE CoversTransaction(asked, x.parties, x.time)
      OBVIOUS
    <2>1. x.time \in Int
      BY <1>3, DisclosureAssumption
    <2>2. CoversTransaction(scope, x.parties, x.time)
      BY <1>2 DEF DataWithin
    <2> QED BY <1>1, <1>2, <1>3, <2>1, <2>2, SubsetCovers
  <1>5. handlers[h].op = "activity" => ServesActivity(asked)
    BY <1>1, <1>2, <1>3, SubsetCovers
  <1>6. \A t \in data.times : InDateRange(asked, t)
    BY <1>1, <1>2, <1>3, SubsetCovers DEF DataWithin
  <1>7. DisclosureRank(data.level) <= DisclosureRank(asked.level)
    BY <1>1, <1>2, <1>3, SubsetCovers, EffectiveRank, ZenonT(30) DEF DataWithin
  <1> QED BY <1>4, <1>5, <1>6, <1>7 DEF asked, data
----------------------------------------------------------------------------
\* Rows and handlers keep their shapes, and every stored grant belongs to a stored
\* request, whatever is deleted while an approval is being written.
THEOREM TypeCorrect == Spec => []TypeOK
  <1>1. Inv => TypeOK
    BY DEF Inv
  <1> QED BY <1>1, InitInv, NextInv, PTL DEF Spec

\* No interleaving of approvals, narrowings, revocations, deletions and reads makes the
\* explorer's grant routes answer with more than the approved request asked for.
THEOREM ConsentKept == Spec => []ServedWithinConsent
  BY InitInv, NextInv, InvServes, PTL DEF Spec

----------------------------------------------------------------------------
(* The record of reads.                                                    *)
INSTANCE FiniteSetTheorems

\* The handler has answered a read of g, or is about to, and its event is still to be written.
Owes(do, g) == do.at \in {"record", "recover"} /\ g \in do.set

\* The reads of g whose event is still to be written.
Open(g) == {h \in Handlers : Owes(handlers[h], g)}

\* Each read is an event, or logged as lost, or still open, and none is two events.
Balanced(e, l, n, r) ==
    e + n <= r /\ e + l + n >= r /\ ("fault" \notin load.events => e + n = r)

\* The counts of g agree from its first read on.
LedgerOK(g) ==
    /\ grants[g].state = "none" => /\ events[g] = 0 /\ lost[g] = 0 /\ reads[g] = 0
                                   /\ \A h \in Handlers : g \notin handlers[h].set
    /\ Live(g) => Balanced(events[g], lost[g], Cardinality(Open(g)), reads[g])

Ledger == \A g \in Grants : LedgerOK(g)

\* No handler but h moves.
Only(h) == \A k \in Handlers : k # h => handlers'[k] = handlers[k]

\* How a step of one handler changes what is open.
LEMMA OpenMoves ==
    ASSUME NEW h \in Handlers, NEW g, Only(h)
    PROVE  /\ Cardinality(Open(g)) \in Nat /\ Cardinality(Open(g)') \in Nat
           /\ (Owes(handlers[h], g) <=> Owes(handlers'[h], g)) => Open(g)' = Open(g)
           /\ ~Owes(handlers[h], g) /\ Owes(handlers'[h], g)
              => Cardinality(Open(g)') = Cardinality(Open(g)) + 1
           /\ Owes(handlers[h], g) /\ ~Owes(handlers'[h], g)
              => Cardinality(Open(g)) = Cardinality(Open(g)') + 1
  <1>1. Open(g)' = {k \in Handlers : Owes(handlers'[k], g)}
    BY DEF Open, Owes
  <1>2. \A k \in Handlers : k # h => (k \in Open(g)' <=> k \in Open(g))
    BY <1>1 DEF Open, Only
  <1>3. (h \in Open(g) <=> Owes(handlers[h], g)) /\ (h \in Open(g)' <=> Owes(handlers'[h], g))
    BY <1>1 DEF Open
  <1>4. Open(g) \subseteq Handlers /\ Open(g)' \subseteq Handlers
    BY <1>1 DEF Open
  <1> HIDE DEF Open
  <1> DEFINE A == Open(g)
             B == Open(g)'
  <1>5. IsFiniteSet(A) /\ IsFiniteSet(B)
    BY <1>4, DisclosureAssumption, FS_Subset
  <1>6. Cardinality(A) \in Nat /\ Cardinality(B) \in Nat
    BY <1>5, FS_CardinalityType
  <1>7. (h \in A <=> h \in B) => B = A
    BY <1>2, <1>4
  <1>8. h \notin A /\ h \in B => B = A \cup {h}
    BY <1>2, <1>4
  <1>9. h \in A /\ h \notin B => A = B \cup {h}
    BY <1>2, <1>4
  <1> HIDE DEF A, B
  <1>10. h \notin A /\ h \in B => Cardinality(B) = Cardinality(A) + 1
    BY <1>5, <1>8, FS_AddElement
  <1>11. h \in A /\ h \notin B => Cardinality(A) = Cardinality(B) + 1
    BY <1>5, <1>9, FS_AddElement
  <1> QED BY <1>3, <1>6, <1>7, <1>10, <1>11, ZenonT(30) DEF A, B

\* A step that opens and closes nothing, and leaves alone the counts of every grant it
\* does not delete.
Steady ==
    /\ load' = load
    /\ \A k \in Handlers : \A g \in Grants : Owes(handlers'[k], g) <=> Owes(handlers[k], g)
    /\ \A g \in Grants : grants'[g].state = "none" =>
          grants[g].state = "none" /\ \A k \in Handlers : g \in handlers'[k].set => g \in handlers[k].set
    /\ \A g \in Grants : grants'[g].state # "gone" =>
          /\ grants[g].state # "gone"
          /\ events'[g] = events[g] /\ lost'[g] = lost[g] /\ reads'[g] = reads[g]

\* Such a step keeps the ledger; a new grant starts with empty counts.
LEMMA SteadyLedger ==
    ASSUME TypeOK, Ledger, Steady PROVE Ledger'
  <1> SUFFICES ASSUME NEW g \in Grants PROVE LedgerOK(g)'
    BY DEF Ledger
  <1>1. LedgerOK(g)
    BY DEF Ledger
  <1>2. Open(g)' = Open(g)
    BY DEF Open, Steady, Owes
  <1>3. CASE grants'[g].state = "none"
    BY <1>1, <1>3, ZenonT(30) DEF LedgerOK, Steady, Live
  <1>4. CASE grants'[g].state = "live"
    <2>1. events'[g] = events[g] /\ lost'[g] = lost[g] /\ reads'[g] = reads[g] /\ load' = load
      BY <1>4 DEF Steady
    <2>2. grants[g].state \in {"none", "live"}
      BY <1>4 DEF Steady, TypeOK, GrantRows
    <2>3. CASE grants[g].state = "live"
      BY <1>1, <1>2, <1>4, <2>1, <2>3 DEF LedgerOK, Live, Balanced
    <2>4. CASE grants[g].state = "none"
      <3>1. Open(g) = {} /\ events[g] = 0 /\ lost[g] = 0 /\ reads[g] = 0
        BY <1>1, <2>4 DEF LedgerOK, Open, Owes
      <3>2. Cardinality(Open(g)') = 0
        BY <1>2, <3>1, FS_EmptySet
      <3>3. Balanced(0, 0, 0, 0)'
        BY DEF Balanced
      <3> QED BY <1>4, <2>1, <3>1, <3>2, <3>3 DEF LedgerOK, Live, Balanced
    <2> QED BY <2>2, <2>3, <2>4
  <1>5. CASE grants'[g].state \notin {"none", "live"}
    BY <1>5 DEF LedgerOK, Live
  <1> QED BY <1>3, <1>4, <1>5

\* What the ways a handler moves do to its place and its set of grants.
LEMMA DoneMoves ==
    ASSUME TypeOK, NEW h \in Handlers, Done(h)
    PROVE  /\ Only(h) /\ handlers'[h].op = "none" /\ handlers'[h].at = "idle"
           /\ handlers'[h].set = {} /\ ~handlers'[h].late
  <1>1. handlers \in [Handlers -> HandlerStates]
    BY DEF TypeOK
  <1>2. handlers'[h] = Idle /\ Only(h)
    BY <1>1 DEF Done, Only
  <1> QED BY <1>2 DEF Idle

LEMMA GotoMoves ==
    ASSUME TypeOK, NEW h \in Handlers, NEW at, Goto(h, at)
    PROVE  /\ Only(h) /\ handlers'[h].at = at /\ handlers'[h].set = handlers[h].set
           /\ handlers'[h].op = handlers[h].op /\ handlers'[h].request = handlers[h].request
           /\ handlers'[h].row = handlers[h].row /\ handlers'[h].late = handlers[h].late
  <1>1. handlers \in [Handlers -> HandlerStates]
    BY DEF TypeOK
  <1> QED BY <1>1 DEF Goto, Only, HandlerStates

LEMMA BeginMoves ==
    ASSUME TypeOK, NEW h \in Handlers, NEW do, Begin(h, do)
    PROVE  /\ Only(h) /\ handlers'[h] = do /\ handlers[h].at = "idle" /\ handlers[h].set = {}
           /\ handlers[h].op = "none"
  <1>1. handlers \in [Handlers -> HandlerStates]
    BY DEF TypeOK
  <1> QED BY <1>1 DEF Begin, Only, Idle

LEMMA DecisionMoves ==
    ASSUME TypeOK, NEW h \in Handlers, NEW op, NEW at, NEW r, NEW sc,
           BeginDecision(h, op, at, r, sc)
    PROVE  /\ Only(h) /\ handlers[h].at = "idle" /\ handlers[h].op = "none"
           /\ handlers'[h].at = at /\ handlers'[h].set = {} /\ handlers'[h].op = op
           /\ handlers'[h].request = r /\ ~handlers'[h].late
  <1> DEFINE do == [Idle EXCEPT !.op = op, !.at = at, !.request = r, !.row.scope = sc]
  <1>1. Begin(h, do)
    BY DEF BeginDecision
  <1>2. do.at = at /\ do.set = {} /\ do.op = op /\ do.request = r /\ do.late = FALSE
    BY DEF Idle
  <1> HIDE DEF do
  <1> QED BY <1>1, <1>2, BeginMoves

\* A handler that has nothing to record before the step or after it, and gains no grant
\* that is not stored.
LEMMA ElsewhereSteady ==
    ASSUME NEW h \in Handlers, Only(h), load' = load, UNCHANGED <<events, lost, reads>>,
           \A g \in Grants : grants'[g].state = grants[g].state,
           handlers[h].at \notin {"record", "recover"}, handlers'[h].at \notin {"record", "recover"},
           \A g \in handlers'[h].set : g \in handlers[h].set \/ Live(g)
    PROVE  Steady
  <1>1. \A k \in Handlers : \A g \in Grants : Owes(handlers'[k], g) <=> Owes(handlers[k], g)
    BY DEF Only, Owes
  <1>2. \A g \in Grants : grants'[g].state = "none" =>
            \A k \in Handlers : g \in handlers'[k].set => g \in handlers[k].set
    BY DEF Only, Live
  <1> QED BY <1>1, <1>2 DEF Steady

\* A step that leaves every handler where it is.
LEMMA QuietSteady ==
    ASSUME handlers' = handlers, load' = load, UNCHANGED <<lost, reads>>,
           \A g \in Grants : grants'[g].state # "gone" =>
               grants'[g].state = grants[g].state /\ events'[g] = events[g]
    PROVE  Steady
  BY DEF Steady

\* What goes with a request: its grants and their events.
LEMMA CascadeGone ==
    ASSUME TypeOK, NEW r, Cascade(r), NEW g \in Grants, grants'[g].state # "gone"
    PROVE  grants'[g].state = grants[g].state /\ events'[g] = events[g]
  <1>1. grants[g] \in GrantRows
    BY DEF TypeOK
  <1>2. grants[g].request # r
    BY <1>1 DEF Cascade, GrantRows
  <1> QED BY <1>2 DEF Cascade

\* A decision neither opens nor closes a read.
LEMMA DecideSteady ==
    ASSUME TypeOK, NEW h \in Handlers, Decide(h) PROVE Steady
  <1>1. \A g \in Grants : grants[g] \in GrantRows
    BY DEF TypeOK
  <1>2. handlers \in [Handlers -> HandlerStates]
    BY DEF TypeOK
  <1>3. ASSUME NEW r, NEW n, ApproveStart(h, r, n) PROVE Steady
    <2>1. PICK sc : BeginDecision(h, "approve", "insert", r, sc)
      BY <1>3, ZenonT(30) DEF ApproveStart
    <2>2. /\ Only(h) /\ handlers[h].at = "idle" /\ handlers'[h].at = "insert"
          /\ handlers'[h].set = {}
      BY <2>1, DecisionMoves
    <2> QED BY <1>3, <2>2, ElsewhereSteady, ZenonT(30) DEF ApproveStart
  <1>4. ASSUME NEW r, RejectStart(h, r) \/ RevokeStart(h, r) \/ DeleteStart(h, r) PROVE Steady
    <2>2. /\ Only(h) /\ handlers[h].at = "idle" /\ handlers'[h].at \in {"mark", "find", "delete"}
          /\ handlers'[h].set = {}
      <3>1. CASE RejectStart(h, r)
        <4>1. BeginDecision(h, "reject", "mark", r, NoScope)
          BY <3>1 DEF RejectStart
        <4> QED BY <4>1, DecisionMoves
      <3>2. CASE RevokeStart(h, r)
        <4>1. BeginDecision(h, "revoke", "find", r, NoScope)
          BY <3>2 DEF RevokeStart
        <4> QED BY <4>1, DecisionMoves
      <3>3. CASE DeleteStart(h, r)
        <4> DEFINE do == [Idle EXCEPT !.op = "delete", !.at = "delete", !.request = r]
        <4>1. Begin(h, do)
          BY <3>3 DEF DeleteStart
        <4>2. do.at = "delete" /\ do.set = {}
          BY DEF Idle
        <4> HIDE DEF do
        <4> QED BY <4>1, <4>2, BeginMoves
      <3> QED BY <1>4, <3>1, <3>2, <3>3
    <2>3. load' = load /\ UNCHANGED <<grants, events, lost, reads>>
      BY <1>4 DEF RejectStart, RevokeStart, DeleteStart
    <2> QED BY <2>2, <2>3, ElsewhereSteady
  <1>5. ASSUME NEW g \in Grants, ApproveInsert(h, g) PROVE Steady
    <2>1. handlers[h].at = "insert" /\ grants[g].state = "none"
      BY <1>5 DEF ApproveInsert, At
    <2>2. /\ Only(h) /\ handlers'[h].at \in {"mark", "idle"}
          /\ handlers'[h].set \in {handlers[h].set, {}}
      BY <1>5, DoneMoves, GotoMoves, ZenonT(30) DEF ApproveInsert
    <2>3. /\ \A k \in Grants \ {g} : grants'[k].state = grants[k].state
          /\ grants'[g].state \in {"live", "none"}
      BY <1>1, <1>5, <2>1 DEF ApproveInsert, TypeOK
    <2>4. load' = load /\ UNCHANGED <<events, lost, reads>>
      BY <1>5 DEF ApproveInsert
    <2>5. \A k \in Handlers : \A x \in Grants : Owes(handlers'[k], x) <=> Owes(handlers[k], x)
      BY <2>1, <2>2 DEF Only, Owes
    <2>6. \A k \in Handlers : \A x \in Grants : x \in handlers'[k].set => x \in handlers[k].set
      BY <2>2 DEF Only
    <2> QED BY <2>1, <2>3, <2>4, <2>5, <2>6 DEF Steady
  <1>6. ASSUME ApproveMark(h) \/ RejectMark(h) \/ RevokeMark(h) \/ Fails(h) PROVE Steady
    <2>1. /\ Done(h) /\ load' = load /\ UNCHANGED <<grants, events, lost, reads>>
          /\ handlers[h].at \in {"insert", "find", "unset", "mark", "delete"}
      BY <1>6, ZenonT(30) DEF ApproveMark, RejectMark, RevokeMark, Fails, At
    <2> QED BY <2>1, DoneMoves, ElsewhereSteady
  <1>7. ASSUME RevokeFind(h) PROVE Steady
    <2>1. handlers[h].at = "find" /\ load' = load /\ UNCHANGED <<grants, events, lost, reads>>
      BY <1>7 DEF RevokeFind, At
    <2>2. CASE Goto(h, "mark")
      BY <2>1, <2>2, GotoMoves, ElsewhereSteady
    <2>3. ASSUME NEW g \in Grants, Live(g),
                 handlers' = [handlers EXCEPT ![h].at = "unset", ![h].set = {g}]
          PROVE  Steady
      <3>1. Only(h) /\ handlers'[h].at = "unset" /\ handlers'[h].set = {g}
        BY <1>2, <2>3 DEF Only, HandlerStates
      <3> QED BY <2>1, <2>3, <3>1, ElsewhereSteady, ZenonT(30)
    <2> QED BY <1>7, <2>2, <2>3 DEF RevokeFind
  <1>8. ASSUME RevokeUnset(h) PROVE Steady
    <2>1. /\ handlers[h].at = "unset" /\ load' = load /\ UNCHANGED <<events, lost, reads>>
          /\ Goto(h, "mark")
      BY <1>8 DEF RevokeUnset, At
    <2>2. \A g \in Grants : grants'[g].state = grants[g].state
      BY <1>1, <1>8 DEF RevokeUnset, GrantRows
    <2> QED BY <2>1, <2>2, GotoMoves, ElsewhereSteady
  <1>9. ASSUME DeletePending(h) PROVE Steady
    <2>1. handlers[h].at = "delete" /\ load' = load /\ UNCHANGED <<lost, reads>> /\ Done(h)
      BY <1>9 DEF DeletePending, At
    <2>2. \A g \in Grants : grants'[g].state # "gone" =>
              grants'[g].state = grants[g].state /\ events'[g] = events[g]
      BY <1>9, CascadeGone DEF DeletePending
    <2>3. Only(h) /\ handlers'[h].at = "idle" /\ handlers'[h].set = {}
      BY <2>1, DoneMoves
    <2>4. \A k \in Handlers : \A x \in Grants : Owes(handlers'[k], x) <=> Owes(handlers[k], x)
      BY <2>1, <2>3 DEF Only, Owes
    <2>5. \A k \in Handlers : \A x \in Grants : x \in handlers'[k].set => x \in handlers[k].set
      BY <2>3 DEF Only
    <2> QED BY <2>1, <2>2, <2>4, <2>5 DEF Steady
  <1> QED BY <1>3, <1>4, <1>5, <1>6, <1>7, <1>8, <1>9, ZenonT(30) DEF Decide

\* The checks before a route's data are read open nothing.
LEMMA CheckSteady ==
    ASSUME TypeOK, NEW h \in Handlers,
           \/ \E g \in Grants, route \in Routes : ReadGrant(h, g, route)
           \/ ReadRequest(h) \/ ReadMember(h)
    PROVE  Steady
  <1>1. handlers \in [Handlers -> HandlerStates]
    BY DEF TypeOK
  <1>2. load' = load /\ UNCHANGED <<grants, events, lost, reads>>
    BY ZenonT(30) DEF ReadGrant, ReadRequest, ReadMember
  <1>3. ASSUME NEW g \in Grants, NEW route, ReadGrant(h, g, route) PROVE Steady
    <2>1. Live(g)
      BY <1>3, ZenonT(30) DEF ReadGrant
    <2> DEFINE do(late) == [Idle EXCEPT !.op = route, !.at = "request",
                                !.request = grants[g].request, !.set = {g},
                                !.row = grants[g], !.late = late]
    <2>2. PICK late : Begin(h, do(late))
      BY <1>3, Zenon DEF ReadGrant
    <2>3. do(late).at = "request" /\ do(late).set = {g}
      BY DEF Idle
    <2> HIDE DEF do
    <2>4. /\ Only(h) /\ handlers[h].at = "idle" /\ handlers'[h].at = "request"
          /\ handlers'[h].set = {g}
      BY <2>2, <2>3, BeginMoves
    <2> QED BY <1>2, <2>1, <2>4, ElsewhereSteady, ZenonT(30)
  <1>4. ASSUME ReadRequest(h) PROVE Steady
    <2>1. handlers[h].at = "request" /\ (Goto(h, "member") \/ Done(h))
      BY <1>4 DEF ReadRequest
    <2> QED BY <1>2, <2>1, DoneMoves, GotoMoves, ElsewhereSteady
  <1>5. ASSUME ReadMember(h) PROVE Steady
    <2>1. handlers[h].at = "member"
      BY <1>5 DEF ReadMember
    <2>2. CASE Done(h)
      BY <1>2, <2>1, <2>2, DoneMoves, ElsewhereSteady, ZenonT(30)
    <2>3. ASSUME NEW sc, handlers' = [handlers EXCEPT ![h].at = "fetch", ![h].row.scope = sc]
          PROVE  Steady
      <3>1. Only(h) /\ handlers'[h].at = "fetch" /\ handlers'[h].set = handlers[h].set
        BY <1>1, <2>3 DEF Only, HandlerStates
      <3> QED BY <1>2, <2>1, <3>1, ElsewhereSteady
    <2> QED BY <1>5, <2>2, <2>3 DEF ReadMember
  <1> QED BY <1>3, <1>4, <1>5

\* A handler that opens or closes reads: only the counts of its grants change.
LEMMA MoveLedger ==
    ASSUME TypeOK, Ledger, NEW h \in Handlers, Only(h), load' = load, grants' = grants,
           \A g \in handlers'[h].set : g \in handlers[h].set \/ Live(g),
           \A g \in Grants : g \notin handlers[h].set \cup handlers'[h].set =>
               events'[g] = events[g] /\ lost'[g] = lost[g] /\ reads'[g] = reads[g],
           \A g \in Grants : Live(g) =>
               Balanced(events'[g], lost'[g], Cardinality(Open(g)'), reads'[g])
    PROVE  Ledger'
  <1> SUFFICES ASSUME NEW g \in Grants PROVE LedgerOK(g)'
    BY DEF Ledger
  <1>1. LedgerOK(g)
    BY DEF Ledger
  <1>2. Live(g)' <=> Live(g)
    BY DEF Live
  <1>3. ASSUME grants[g].state = "none"
        PROVE  /\ events'[g] = 0 /\ lost'[g] = 0 /\ reads'[g] = 0
               /\ \A k \in Handlers : g \notin handlers'[k].set
    <2>1. /\ events[g] = 0 /\ lost[g] = 0 /\ reads[g] = 0
          /\ \A k \in Handlers : g \notin handlers[k].set
      BY <1>1, <1>3 DEF LedgerOK
    <2>2. g \notin handlers'[h].set
      BY <1>3, <2>1 DEF Live
    <2> QED BY <2>1, <2>2 DEF Only
  <1>4. Live(g) => Balanced(events[g], lost[g], Cardinality(Open(g)), reads[g])'
    BY DEF Balanced
  <1> QED BY <1>2, <1>3, <1>4, ZenonT(30) DEF LedgerOK

\* Opening one read of g, recording it, losing it.
LEMMA Arithmetic ==
    ASSUME NEW e \in Nat, NEW l \in Nat, NEW n \in Nat, NEW r \in Nat
    PROVE  /\ Balanced(e, l, n, r) => Balanced(e, l, n + 1, r + 1)
           /\ Balanced(e, l, n + 1, r) => Balanced(e + 1, l, n, r)
           /\ Balanced(e, l, n + 1, r) /\ "fault" \in load.events
              => Balanced(e, l + 1, n, r) /\ Balanced(e + 1, l + 1, n, r)
  BY DEF Balanced

\* Handler h opens a read of each of gs.
Opens(h, gs) ==
    /\ Only(h) /\ load' = load /\ grants' = grants /\ UNCHANGED <<events, lost>>
    /\ handlers[h].at \notin {"record", "recover"}
    /\ handlers'[h].at = "record" /\ handlers'[h].set = gs
    /\ \A g \in gs : g \in handlers[h].set \/ Live(g)
    /\ \A g \in Grants : reads'[g] = IF g \in gs THEN reads[g] + 1 ELSE reads[g]

LEMMA OpensLedger ==
    ASSUME TypeOK, Ledger, NEW h \in Handlers, NEW gs, Opens(h, gs) PROVE Ledger'
  <1>1. ASSUME NEW g \in Grants, Live(g)
        PROVE  Balanced(events'[g], lost'[g], Cardinality(Open(g)'), reads'[g])
    <2>1. events[g] \in Nat /\ lost[g] \in Nat /\ reads[g] \in Nat
      BY DEF TypeOK
    <2>2. Balanced(events[g], lost[g], Cardinality(Open(g)), reads[g])
      BY <1>1 DEF Ledger, LedgerOK
    <2>3. ~Owes(handlers[h], g) /\ (Owes(handlers'[h], g) <=> g \in gs)
      BY DEF Owes, Opens
    <2>4. events'[g] = events[g] /\ lost'[g] = lost[g] /\ Only(h)
      BY DEF Opens
    <2>5. CASE g \in gs
      <3>1. Cardinality(Open(g)) \in Nat /\ Cardinality(Open(g)') = Cardinality(Open(g)) + 1
        BY <2>3, <2>4, <2>5, OpenMoves, ZenonT(30)
      <3>2. reads'[g] = reads[g] + 1
        BY <2>5 DEF Opens
      <3> QED BY <2>1, <2>2, <2>4, <3>1, <3>2, Arithmetic, ZenonT(30)
    <2>6. CASE g \notin gs
      <3>1. Open(g)' = Open(g)
        BY <2>3, <2>4, <2>6, OpenMoves
      <3>2. reads'[g] = reads[g]
        BY <2>6 DEF Opens
      <3> QED BY <2>2, <2>4, <3>1, <3>2
    <2> QED BY <2>5, <2>6
  <1>2. /\ Only(h) /\ load' = load /\ grants' = grants
        /\ \A g \in handlers'[h].set : g \in handlers[h].set \/ Live(g)
    BY DEF Opens
  <1>3. \A g \in Grants : g \notin handlers[h].set \cup handlers'[h].set =>
            events'[g] = events[g] /\ lost'[g] = lost[g] /\ reads'[g] = reads[g]
    BY DEF Opens
  <1> QED BY <1>1, <1>2, <1>3, MoveLedger

\* Handler h is done with its reads of gs, each recorded or, after a failing statement,
\* logged.
Closes(h, gs) ==
    /\ Only(h) /\ load' = load /\ grants' = grants /\ reads' = reads
    /\ handlers[h].at \in {"record", "recover"}
    /\ gs \subseteq handlers[h].set /\ handlers'[h].set \subseteq handlers[h].set
    /\ \A g \in gs : ~Owes(handlers'[h], g)
    /\ \A g \in Grants \ gs : /\ Live(g) => (Owes(handlers'[h], g) <=> Owes(handlers[h], g))
                              /\ events'[g] = events[g] /\ lost'[g] = lost[g]
    /\ \A g \in gs : Live(g) =>
          \/ events'[g] = events[g] + 1 /\ lost'[g] = lost[g]
          \/ /\ "fault" \in load.events /\ lost'[g] = lost[g] + 1
             /\ events'[g] \in {events[g], events[g] + 1}

LEMMA ClosesLedger ==
    ASSUME TypeOK, Ledger, NEW h \in Handlers, NEW gs, Closes(h, gs) PROVE Ledger'
  <1>1. ASSUME NEW g \in Grants, Live(g)
        PROVE  Balanced(events'[g], lost'[g], Cardinality(Open(g)'), reads'[g])
    <2>1. events[g] \in Nat /\ lost[g] \in Nat /\ reads[g] \in Nat
      BY DEF TypeOK
    <2>2. Balanced(events[g], lost[g], Cardinality(Open(g)), reads[g])
      BY <1>1 DEF Ledger, LedgerOK
    <2>3. reads'[g] = reads[g] /\ Only(h)
      BY DEF Closes
    <2>4. CASE g \in gs
      <3>1. Owes(handlers[h], g) /\ ~Owes(handlers'[h], g)
        BY <2>4, ZenonT(30) DEF Owes, Closes
      <3>2. /\ Cardinality(Open(g)') \in Nat
            /\ Cardinality(Open(g)) = Cardinality(Open(g)') + 1
        BY <2>3, <3>1, OpenMoves, ZenonT(30)
      <3>3. Balanced(events[g], lost[g], Cardinality(Open(g)') + 1, reads[g])
        BY <2>2, <3>2
      <3>4. CASE events'[g] = events[g] + 1 /\ lost'[g] = lost[g]
        BY <2>1, <2>3, <3>2, <3>3, <3>4, Arithmetic
      <3>5. CASE /\ "fault" \in load.events /\ lost'[g] = lost[g] + 1
                 /\ events'[g] \in {events[g], events[g] + 1}
        BY <2>1, <2>3, <3>2, <3>3, <3>5, Arithmetic, ZenonT(30)
      <3> QED BY <1>1, <2>4, <3>4, <3>5, ZenonT(30) DEF Closes
    <2>5. CASE g \notin gs
      <3>1. /\ Owes(handlers'[h], g) <=> Owes(handlers[h], g)
            /\ events'[g] = events[g] /\ lost'[g] = lost[g]
        BY <1>1, <2>5, ZenonT(30) DEF Closes
      <3>2. Open(g)' = Open(g)
        BY <2>3, <3>1, OpenMoves, ZenonT(30)
      <3> QED BY <2>2, <2>3, <3>1, <3>2, ZenonT(30)
    <2> QED BY <2>4, <2>5
  <1>2. /\ Only(h) /\ load' = load /\ grants' = grants
        /\ \A g \in handlers'[h].set : g \in handlers[h].set \/ Live(g)
    BY DEF Closes
  <1>3. \A g \in Grants : g \notin handlers[h].set \cup handlers'[h].set =>
            events'[g] = events[g] /\ lost'[g] = lost[g] /\ reads'[g] = reads[g]
    BY DEF Closes
  <1> QED BY <1>1, <1>2, <1>3, MoveLedger

\* Answering a read opens it.
LEMMA AnswerLedger ==
    ASSUME TypeOK, Ledger, NEW h \in Handlers, Fetch(h) \/ ListAddresses(h) PROVE Ledger'
  <1>1. load' = load /\ grants' = grants /\ UNCHANGED <<events, lost>>
    BY DEF Fetch, ListAddresses
  <1>2. CASE Fetch(h)
    <2>1. handlers[h].at = "fetch"
      BY <1>2 DEF Fetch
    <2>2. CASE Done(h) /\ UNCHANGED reads
      BY <1>1, <2>1, <2>2, DoneMoves, ElsewhereSteady, SteadyLedger, ZenonT(30)
    <2>3. ASSUME NEW d, handlers' = [handlers EXCEPT ![h].at = "record", ![h].data = d],
                 CountRead(handlers[h].set)
          PROVE  Ledger'
      <3>1. handlers \in [Handlers -> HandlerStates]
        BY DEF TypeOK
      <3>2. Only(h) /\ handlers'[h].at = "record" /\ handlers'[h].set = handlers[h].set
        BY <2>3, <3>1 DEF Only, HandlerStates
      <3>3. Opens(h, handlers[h].set)
        BY <1>1, <2>1, <2>3, <3>2 DEF Opens, CountRead
      <3> QED BY <3>3, OpensLedger
    <2> QED BY <1>2, <2>2, <2>3 DEF Fetch
  <1>3. CASE ListAddresses(h)
    <2> DEFINE listed == {g \in Grants : Live(g) /\ IsActive(grants[g])
                                          /\ EligibleRequest(grants[g].request) /\ member}
    <2> DEFINE do(late) == [Idle EXCEPT !.op = "list", !.at = "record", !.set = listed,
                                !.late = late]
    <2>1. PICK late : Begin(h, do(late))
      BY <1>3, Zenon DEF ListAddresses
    <2>2. CountRead(listed) /\ \A g \in listed : Live(g)
      BY <1>3 DEF ListAddresses
    <2> HIDE DEF listed
    <2>3. do(late).at = "record" /\ do(late).set = listed
      BY DEF Idle
    <2> HIDE DEF do
    <2>4. /\ Only(h) /\ handlers[h].at = "idle" /\ handlers'[h].at = "record"
          /\ handlers'[h].set = listed
      BY <2>1, <2>3, BeginMoves
    <2>5. Opens(h, listed)
      BY <1>1, <2>2, <2>4 DEF Opens, CountRead
    <2> QED BY <2>5, OpensLedger
  <1> QED BY <1>2, <1>3

\* A handler that ends closes every read of its set; what the step did to their counts is
\* all that matters.
LEMMA EndCloses ==
    ASSUME TypeOK, NEW h \in Handlers, Done(h), load' = load, grants' = grants, reads' = reads,
           handlers[h].at \in {"record", "recover"},
           \A g \in Grants \ handlers[h].set : events'[g] = events[g] /\ lost'[g] = lost[g],
           \A g \in handlers[h].set : Live(g) =>
              \/ events'[g] = events[g] + 1 /\ lost'[g] = lost[g]
              \/ /\ "fault" \in load.events /\ lost'[g] = lost[g] + 1
                 /\ events'[g] \in {events[g], events[g] + 1}
    PROVE  Closes(h, handlers[h].set)
  <1>1. Only(h) /\ handlers'[h].at = "idle" /\ handlers'[h].set = {}
    BY DoneMoves, ZenonT(30)
  <1>2. \A g : ~Owes(handlers'[h], g) /\ (g \notin handlers[h].set => ~Owes(handlers[h], g))
    BY <1>1 DEF Owes
  <1> QED BY <1>1, <1>2, ZenonT(30) DEF Closes

\* Writing the event closes the read, and so does giving up.
LEMMA RecordLedger ==
    ASSUME TypeOK, Ledger, NEW h \in Handlers,
           Record(h) \/ RecordRefused(h) \/ RecordUnclear(h) \/ RecoverTimeout(h)
    PROVE  Ledger'
  <1> DEFINE gs == handlers[h].set
  <1>1. gs \subseteq Grants
    BY DEF TypeOK, HandlerStates
  <1>2. load' = load /\ grants' = grants /\ reads' = reads
    BY ZenonT(30) DEF Record, RecordRefused, RecordUnclear, RecoverTimeout
  <1>3. Recorded(gs) =>
            \A g \in Grants : events'[g] = IF g \in gs THEN events[g] + 1 ELSE events[g]
    BY ZenonT(30) DEF Recorded
  <1>4. Logged(gs) =>
            \A g \in Grants : lost'[g] = IF g \in gs THEN lost[g] + 1 ELSE lost[g]
    BY DEF Logged
  <1>5. CASE Record(h)
    <2>1. handlers[h].at = "record" /\ Recorded(gs) /\ Done(h) /\ lost' = lost
      BY <1>5 DEF Record
    <2>2. Closes(h, gs)
      BY <1>1, <1>2, <1>3, <2>1, EndCloses, ZenonT(30)
    <2> QED BY <2>2, ClosesLedger
  <1>6. CASE RecordRefused(h)
    <2>1. handlers[h].at = "record" /\ events' = events /\ ~AllLive(gs)
      BY <1>6, ZenonT(30) DEF RecordRefused
    <2>2. CASE Cardinality(gs) = 1 /\ Done(h) /\ Logged(gs)
      <3>1. IsFiniteSet(gs)
        BY <1>1, DisclosureAssumption, FS_Subset
      <3>2. \E x : gs = {x}
        BY <2>2, <3>1, FS_Singleton, ZenonT(30)
      <3>3. \A g \in gs : ~Live(g)
        BY <2>1, <3>2 DEF AllLive
      <3>4. Closes(h, gs)
        BY <1>1, <1>2, <1>4, <2>1, <2>2, <3>3, EndCloses, ZenonT(30)
      <3> QED BY <3>4, ClosesLedger
    <2>3. CASE Goto(h, "recover") /\ UNCHANGED lost
      <3>1. Only(h) /\ handlers'[h].at = "recover" /\ handlers'[h].set = gs
        BY <2>3, GotoMoves, ZenonT(30)
      <3>2. \A g : Owes(handlers'[h], g) <=> Owes(handlers[h], g)
        BY <2>1, <3>1 DEF Owes
      <3>3. Steady
        BY <1>2, <2>1, <2>3, <3>1, <3>2 DEF Steady, Only
      <3> QED BY <3>3, SteadyLedger
    <2> QED BY <1>6, <2>2, <2>3, ZenonT(30) DEF RecordRefused
  <1>7. CASE RecordUnclear(h) \/ RecoverTimeout(h)
    <2>1. /\ "fault" \in load.events /\ handlers[h].at \in {"record", "recover"}
          /\ events' = events \/ Recorded(gs)
          /\ Logged(gs) /\ Done(h)
      BY <1>7, ZenonT(30) DEF RecordUnclear, RecoverTimeout
    <2>2. \A g \in Grants : /\ g \in gs => events'[g] \in {events[g], events[g] + 1}
                            /\ g \notin gs => events'[g] = events[g]
      BY <1>3, <2>1, ZenonT(30)
    <2>3. Closes(h, gs)
      BY <1>1, <1>2, <1>4, <2>1, <2>2, EndCloses, ZenonT(30)
    <2> QED BY <2>3, ClosesLedger
  <1> QED BY <1>5, <1>6, <1>7

\* One attempt of the recovery closes one read.
LEMMA RecoverLedger ==
    ASSUME TypeOK, Ledger, NEW h \in Handlers, NEW g \in Grants, Recover(h, g) PROVE Ledger'
  <1>1. /\ handlers[h].at = "recover" /\ g \in handlers[h].set
        /\ load' = load /\ grants' = grants /\ reads' = reads
    BY DEF Recover
  <1>2. /\ Only(h) /\ handlers'[h].set = handlers[h].set \ {g}
        /\ handlers'[h].at = "recover" \/ handlers'[h].set = {}
    <2>1. CASE handlers[h].set \ {g} = {} /\ Done(h)
      BY <2>1, DoneMoves
    <2>2. CASE handlers' = [handlers EXCEPT ![h].set = handlers[h].set \ {g}]
      <3>1. handlers \in [Handlers -> HandlerStates]
        BY DEF TypeOK
      <3> QED BY <1>1, <2>2, <3>1 DEF Only, HandlerStates
    <2> QED BY <2>1, <2>2 DEF Recover
  <1>3. /\ \A x \in Grants \ {g} : events'[x] = events[x] /\ lost'[x] = lost[x]
        /\ Live(g) => events'[g] = events[g] + 1 /\ lost'[g] = lost[g]
    BY DEF Recover, Recorded, Logged, TypeOK
  <1>4. /\ ~Owes(handlers'[h], g)
        /\ \A x : x # g => (Owes(handlers'[h], x) <=> Owes(handlers[h], x))
    BY <1>1, <1>2 DEF Owes
  <1>5. Closes(h, {g})
    BY <1>1, <1>2, <1>3, <1>4, ZenonT(30) DEF Closes
  <1> QED BY <1>5, ClosesLedger

\* The ledger holds at the start and every step keeps it.
LEMMA LedgerAlways == Spec => []Ledger
  <1>1. Init => Ledger
    <2> SUFFICES ASSUME Init, NEW g \in Grants PROVE LedgerOK(g)
      BY DEF Ledger
    <2>1. \A h \in Handlers : handlers[h].at = "idle" /\ handlers[h].set = {}
      BY ZenonT(30) DEF Init, Idle
    <2>2. events[g] = 0 /\ lost[g] = 0 /\ reads[g] = 0
      BY ZenonT(30) DEF Init
    <2>3. Cardinality(Open(g)) = 0
      BY <2>1, FS_EmptySet DEF Open, Owes
    <2>4. Balanced(events[g], lost[g], Cardinality(Open(g)), reads[g])
      <3> HIDE DEF Open
      <3> QED BY <2>2, <2>3 DEF Balanced
    <2>5. \A h \in Handlers : g \notin handlers[h].set
      BY <2>1
    <2> HIDE DEF Open
    <2> QED BY <2>2, <2>4, <2>5, ZenonT(30) DEF LedgerOK
  <1>2. TypeOK /\ Ledger /\ [Next]_vars => Ledger'
    <2> SUFFICES ASSUME TypeOK, Ledger, [Next]_vars PROVE Ledger'
      OBVIOUS
    <2>1. \A g \in Grants : grants[g] \in GrantRows
      BY DEF TypeOK
    <2>2. CASE UNCHANGED vars
      BY <2>2, QuietSteady, SteadyLedger DEF vars
    <2>3. CASE Tick \/ LeaveOrg \/ \E r \in Requests, s \in load.scopes, e \in {0, 1} : CreateRequest(r, s, e)
      <3>1. UNCHANGED <<load, grants, handlers, events, lost, reads>>
        BY <2>3, ZenonT(30) DEF Tick, LeaveOrg, CreateRequest
      <3> QED BY <3>1, QuietSteady, SteadyLedger
    <2>4. ASSUME NEW r \in Requests, EraseSubject(r) PROVE Ledger'
      <3>1. UNCHANGED <<load, handlers, lost, reads>> /\ Cascade(r)
        BY <2>4 DEF EraseSubject
      <3> QED BY <3>1, CascadeGone, QuietSteady, SteadyLedger
    <2>5. ASSUME NEW g \in Grants, AdminRevokeGrant(g) PROVE Ledger'
      <3>1. UNCHANGED <<load, handlers, events, lost, reads>>
        BY <2>5 DEF AdminRevokeGrant
      <3>2. \A x \in Grants : grants'[x].state = grants[x].state
        BY <2>1, <2>5 DEF AdminRevokeGrant, TypeOK, GrantRows
      <3> QED BY <3>1, <3>2, QuietSteady, SteadyLedger
    <2>6. ASSUME NEW h \in Handlers, Decide(h) PROVE Ledger'
      BY <2>6, DecideSteady, SteadyLedger
    <2>7. ASSUME NEW h \in Handlers, Read(h) PROVE Ledger'
      BY <2>7, CheckSteady, SteadyLedger, AnswerLedger, RecordLedger, RecoverLedger DEF Read
    <2> QED BY <2>2, <2>3, <2>4, <2>5, <2>6, <2>7 DEF Next
  <1> QED BY <1>1, <1>2, TypeCorrect, PTL DEF Spec

(* Every read is recorded once, for any number of viewers' handlers, grants and         *)
(* requests: however the batch of events, its recovery one by one, the timeout and the  *)
(* deletion of a grant interleave, no read becomes two events                           *)
(* (insertDisclosureEventsWithRecovery), what is not recorded of a stored grant was     *)
(* logged, and without a failing statement nothing is missing.                          *)
THEOREM EveryReadRecorded == Spec => []ReadsRecorded
  <1>1. Ledger => ReadsRecorded
    BY ZenonT(30) DEF Ledger, LedgerOK, Balanced, Open, Owes, ReadsRecorded
  <1> QED BY <1>1, LedgerAlways, PTL
=============================================================================
