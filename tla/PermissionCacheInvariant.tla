---------------------- MODULE PermissionCacheInvariant ----------------------
(***************************************************************************)
(* The inductive invariant of the permission caches, and that the steps    *)
(* which look permissions up keep it.  It has three parts:                 *)
(*                                                                         *)
(*   Inv      of every history: a row of the shared cache is right, or an  *)
(*            invalidation that removes it is still to come; what a        *)
(*            computation has read under the current generation is right,  *)
(*            or the change it missed has not moved the generation yet;    *)
(*   Shape    who waits for whom, whose a single-flight slot is, and that  *)
(*            no entry outlives the membership it shows;                   *)
(*   Current  of a quiet history: every entry in front, and every answer,  *)
(*            is what the tables say, or is about to be cleared.           *)
(***************************************************************************)
EXTENDS PermissionCache, TLAPS

USE ZenonT(10), SMTT(30), SMTT(40)

\* The places a call can be at.
Stages == {"start", "get", "select", "claim", "wait", "snapshot", "memberships", "grants", "lock",
           "upsert", "broadcast", "remove", "store", "end", "write", "clear", "bump", "delete",
           "commit", "bumpOnly", "deleteOnly"}

\* The progress of a call.
CallState ==
    [pc : Stages, perms : PermsType, ok : BOOLEAN, err : BOOLEAN, snap : Nat, known : BOOLEAN,
     own : BOOLEAN, done : BOOLEAN, retry : BOOLEAN, wait : Calls \cup {"none"}, readAt : Nat,
     share : BOOLEAN, counter : BOOLEAN, del : SUBSET Users, owes : SUBSET Users,
     fit : BOOLEAN, before : SUBSET Calls]

\* The variables have values of their kinds.
Types ==
    /\ load \in Loads /\ members \subseteq Users /\ grant \in Grants /\ gen \in Nat
    /\ rows \in [Users -> EntryType] /\ upper \in [Places -> [Users -> EntryType]]
    /\ flight \in [Replicas -> [Users -> Calls \cup {"none"}]]
    /\ now \in 0..load.ticks /\ faults \in 0..load.faults
    /\ st \in [Calls -> CallState]

\* A request that has not been answered.
Reading == {"get", "select", "claim", "wait", "snapshot", "memberships", "grants", "lock",
            "upsert", "broadcast", "remove", "store"}

\* An administrator's call that has not been answered.
Writing == {"write", "clear", "bump", "delete", "commit", "bumpOnly", "deleteOnly"}

\* What the request holds is what was due to it when it was read.
FitAt(c) == \E v \in Due(c, st[c].readAt) : View(st[c].perms) \in Shown(v)

\* What a workload fixes: the calls, the ends of the memberships and the times to live.
LEMMA LoadFacts ==
    ASSUME load \in Loads
    PROVE  /\ load.until \in [Users -> Nat] /\ load.ttl \in Nat \ {0} /\ load.ticks \in Nat
           /\ load.ticks <= MaxTime /\ MaxTime \in Nat /\ load.faults \in Nat
           /\ load.redis \in BOOLEAN /\ load.members \subseteq Users /\ load.grant \in Grants
           /\ \A c \in Calls : /\ Op(c) \in Ops /\ User(c) \in Users /\ Home(c) \in Replicas
                               /\ Place(c) \in Places /\ load.calls[c].grant \in Grants
  <1>1. /\ load.calls \in [Calls -> CallType] /\ MaxTime \in Nat /\ load.ticks \in 0..MaxTime
        /\ load.until \in [Users -> Nat] /\ load.ttl \in Nat \ {0} /\ load.faults \in Nat
        /\ load.redis \in BOOLEAN /\ load.members \subseteq Users /\ load.grant \in Grants
    BY PermissionCacheAssumption
  <1>2. ASSUME NEW c \in Calls
        PROVE  /\ Op(c) \in Ops /\ User(c) \in Users /\ Home(c) \in Replicas
               /\ load.calls[c].grant \in Grants
    BY <1>1 DEF CallType, Op, User, Home
  <1>3. \A c \in Calls : Place(c) \in Places
    BY <1>2 DEF Place, Places
  <1>4. load.ticks \in Nat /\ load.ticks <= MaxTime
    BY <1>1
  <1> QED BY <1>1, <1>2, <1>3, <1>4

\* The step is one of call c: no other call moves.
Others(c) == \A d \in Calls : d # c => st'[d] = st[d]

\* Set moves one call.
LEMMA SetFacts ==
    ASSUME st \in [Calls -> CallState], NEW c \in Calls, NEW rec \in CallState, Set(c, rec)
    PROVE  st' \in [Calls -> CallState] /\ st'[c] = rec /\ Others(c)
  BY DEF Set, Others

\* The same locks and the same owed invalidations.
Same(r, s) ==
    /\ r.share = s.share /\ r.counter = s.counter /\ r.del = s.del /\ r.owes = s.owes

\* The same result of the computation.
SameRead(r, s) ==
    /\ r.perms = s.perms /\ r.readAt = s.readAt /\ r.snap = s.snap /\ r.known = s.known

\* The same slot, wake-up and history.
SameNotes(r, s) ==
    /\ r.own = s.own /\ r.done = s.done /\ r.before = s.before

\* Goto only moves the call on.
LEMMA GotoFacts ==
    ASSUME st \in [Calls -> CallState], NEW c \in Calls, NEW p \in Stages, Goto(c, p)
    PROVE  /\ st' \in [Calls -> CallState] /\ Others(c) /\ st'[c].pc = p
           /\ Same(st'[c], st[c]) /\ SameRead(st'[c], st[c]) /\ SameNotes(st'[c], st[c])
           /\ st'[c].err = st[c].err /\ st'[c].fit = st[c].fit /\ st'[c].wait = st[c].wait
  <1> DEFINE rec == [st[c] EXCEPT !.pc = p]
  <1>1. rec \in CallState
    BY DEF CallState
  <1>2. /\ rec.pc = p /\ Same(rec, st[c]) /\ SameRead(rec, st[c]) /\ SameNotes(rec, st[c])
        /\ rec.err = st[c].err /\ rec.fit = st[c].fit /\ rec.wait = st[c].wait
    BY DEF CallState, Same, SameRead, SameNotes
  <1>3. Set(c, rec)
    BY DEF Goto
  <1> HIDE DEF rec
  <1>4. st' \in [Calls -> CallState] /\ st'[c] = rec /\ Others(c)
    BY <1>1, <1>3, SetFacts
  <1> QED BY <1>2, <1>4

\* AnswerError ends the call with an error.
LEMMA AnswerErrorFacts ==
    ASSUME st \in [Calls -> CallState], NEW c \in Calls, AnswerError(c)
    PROVE  /\ st' \in [Calls -> CallState] /\ Others(c) /\ st'[c].pc = "end"
           /\ Same(st'[c], st[c]) /\ SameRead(st'[c], st[c]) /\ SameNotes(st'[c], st[c])
           /\ st'[c].err /\ st'[c].fit = st[c].fit /\ st'[c].wait = "none"
  <1> DEFINE yes == TRUE
             r == st[c]
             rec == [r EXCEPT !.pc = "end", !.err = yes, !.wait = "none"]
  <1>0. r \in CallState /\ yes \in BOOLEAN /\ yes
    OBVIOUS
  <1>3. Set(c, rec)
    BY DEF AnswerError
  <1> HIDE DEF yes, r
  <1>1. rec \in CallState
    BY <1>0, Zenon DEF CallState, Stages
  <1>2. /\ rec.pc = "end" /\ Same(rec, r) /\ SameRead(rec, r) /\ SameNotes(rec, r)
        /\ rec.err /\ rec.fit = r.fit /\ rec.wait = "none"
    BY <1>0 DEF CallState, Same, SameRead, SameNotes
  <1> HIDE DEF rec
  <1>4. st' \in [Calls -> CallState] /\ st'[c] = rec /\ Others(c)
    BY <1>1, <1>3, SetFacts
  <1> QED BY <1>2, <1>4 DEF r

\* Answer ends the call and notes whether the answer fits.
LEMMA AnswerFacts ==
    ASSUME st \in [Calls -> CallState], NEW c \in Calls, NEW r \in CallState, Answer(c, r)
    PROVE  /\ st' \in [Calls -> CallState] /\ Others(c) /\ st'[c].pc = "end"
           /\ Same(st'[c], r) /\ SameRead(st'[c], r) /\ SameNotes(st'[c], r)
           /\ st'[c].err = r.err /\ st'[c].wait = "none"
           /\ st'[c].fit <=> r.err \/ \E v \in Due(c, r.readAt) : View(r.perms) \in Shown(v)
  <1> DEFINE ft == r.err \/ \E v \in Due(c, r.readAt) : View(r.perms) \in Shown(v)
             rec == [r EXCEPT !.pc = "end", !.wait = "none", !.fit = ft]
  <1>0. ft \in BOOLEAN
    BY DEF CallState
  <1>3. Set(c, rec)
    BY DEF Answer
  <1> SUFFICES /\ st' \in [Calls -> CallState] /\ Others(c) /\ st'[c].pc = "end"
               /\ Same(st'[c], r) /\ SameRead(st'[c], r) /\ SameNotes(st'[c], r)
               /\ st'[c].err = r.err /\ st'[c].wait = "none" /\ st'[c].fit = ft
    BY ZenonT(30)
  <1> HIDE DEF ft
  <1>1. rec \in CallState
    BY <1>0, Zenon DEF CallState, Stages
  <1>2. /\ rec.pc = "end" /\ Same(rec, r) /\ SameRead(rec, r) /\ SameNotes(rec, r)
        /\ rec.err = r.err /\ rec.wait = "none" /\ rec.fit = ft
    BY DEF CallState, Same, SameRead, SameNotes
  <1> HIDE DEF rec
  <1>4. st' \in [Calls -> CallState] /\ st'[c] = rec /\ Others(c)
    BY <1>1, <1>3, SetFacts
  <1> QED BY <1>2, <1>4

\* Begin starts a call with a fresh state and the calls finished before it.
LEMMA BeginFacts ==
    ASSUME st \in [Calls -> CallState], NEW c \in Calls, NEW p \in Stages, Begin(c, p)
    PROVE  /\ st' \in [Calls -> CallState] /\ Others(c) /\ st'[c].pc = p
           /\ ~st'[c].share /\ ~st'[c].counter /\ st'[c].del = {} /\ st'[c].owes = {}
           /\ st'[c].perms = NoPerms /\ st'[c].readAt = 0 /\ st'[c].snap = 0 /\ ~st'[c].known
           /\ ~st'[c].own /\ ~st'[c].done /\ ~st'[c].err /\ st'[c].fit /\ st'[c].wait = "none"
           /\ st'[c].before = {d \in Calls : Finished(d)}
  <1> DEFINE bf == {d \in Calls : Finished(d)}
             rec == [Fresh EXCEPT !.pc = p, !.before = bf]
  <1>1. bf \in SUBSET Calls
    OBVIOUS
  <1>3. Set(c, rec)
    BY DEF Begin
  <1> SUFFICES /\ st' \in [Calls -> CallState] /\ Others(c) /\ st'[c] = rec
    BY DEF Fresh
  <1> HIDE DEF bf
  <1>2. rec \in CallState
    <2>1. NoPerms \in PermsType
      BY DEF NoPerms, PermsType, Grants
    <2> QED BY <1>1, <2>1, Zenon DEF CallState, Fresh
  <1> HIDE DEF rec
  <1> QED BY <1>2, <1>3, SetFacts

\* What a call asks for never changes.
LEMMA Rigid ==
    ASSUME load' = load
    PROVE  \A d \in Calls : /\ Op(d)' = Op(d) /\ User(d)' = User(d) /\ Home(d)' = Home(d)
                            /\ Place(d)' = Place(d)
  BY DEF Op, User, Home, Place

\* Types, for a step that leaves the tables and the rows alone.
LEMMA LightTypes ==
    ASSUME Types, UNCHANGED <<load, members, grant, gen, rows, now>>, Fault \/ NoFault,
           st' \in [Calls -> CallState], upper' \in [Places -> [Users -> EntryType]],
           flight' \in [Replicas -> [Users -> Calls \cup {"none"}]]
    PROVE  Types'
  <1>1. faults' \in 0..load.faults
    BY LoadFacts DEF Types, Fault, NoFault
  <1> QED BY <1>1 DEF Types

\* What each step of a request does to its call.
Frozen == UNCHANGED <<load, members, grant, gen, rows, now>>

\* The same error, fitness and slot waited for.
SameEnd(r, s) == r.err = s.err /\ r.fit = s.fit /\ r.wait = s.wait

\* What a call holds and how far it is agree; its snapshot is not of the future.
CallOK(c) ==
    /\ st[c].share <=> st[c].pc = "upsert"
    /\ st[c].counter <=> st[c].pc \in {"delete", "commit"}
    /\ st[c].del # {} => st[c].pc = "commit"
    /\ st[c].snap <= gen
    /\ st[c].pc = "upsert" => st[c].known /\ st[c].snap = gen
    /\ st[c].pc = "lock" => st[c].known
    /\ st[c].pc = "write" => Op(c) \in Separate
    /\ st[c].pc = "clear" => Op(c) \in Separate \cup Inline
    /\ st[c].pc \in {"bump", "delete", "commit"} => Op(c) \in UserWrites \cup Inline
    /\ st[c].pc \in {"bumpOnly", "deleteOnly"} => Op(c) \in GroupWrites \cup OrgWrites \cup {"disband"}
    /\ st[c].pc \in {"start", "write"} => st[c].owes = {}
    /\ st[c].owes # {} => Op(c) \in Separate
    /\ Op(c) \in UserWrites => st[c].owes \subseteq {User(c)}

\* The lock on the counter: one holder of the update, or any number of sharers.
Exclusive ==
    \A c, d \in Calls : st[c].counter => ~st[d].share /\ (st[d].counter => c = d)

\* The permissions are those of the tables, at any time until they expire.
Right(u, p) ==
    IF p.member THEN u \in members /\ p.grant = grant /\ p.exp <= load.until[u]
    ELSE p.grant = "none" /\ (u \notin members \/ load.until[u] <= now)

\* The call's invalidation will reach u; a grant's only reaches the members.
Reaches(c, u) == u \in st[c].owes /\ (Op(c) = "regrant" => u \in members)

\* Some invalidation that concerns u is still to come.
Owing(u) == \E c \in Calls : Reaches(c, u)

\* The generation has yet to move for a change that concerns u.
Pending(u) == \E c \in Calls : Reaches(c, u) /\ st[c].pc # "deleteOnly"

\* A membership of u is committed and its invalidation still to come.
Joining(u) == \E c \in Calls : Op(c) = "join" /\ u \in st[c].owes

\* The rows a transaction is about to delete are those its change concerns.
SweptBy(c) ==
    st[c].pc = "commit" =>
      /\ Op(c) \in UserWrites /\ rows[User(c)].some => User(c) \in st[c].del
      /\ Op(c) \in {"unshare", "dissolve"} =>
            \A u \in members : rows[u].some => u \in st[c].del \/ Joining(u)
      /\ Op(c) \in {"drop", "disband"} => \A u \in Users : rows[u].some => u \in st[c].del

\* A row shows what the tables say, or an invalidation that removes it is still to come.
RowOK(u) ==
    rows[u].some => rows[u].exp = rows[u].perms.exp /\ (Right(u, rows[u].perms) \/ Owing(u))

\* What a computation under the current generation has read is right, or the change it
\* missed has not moved the generation yet.
ReadOK(c) ==
    st[c].known /\ st[c].snap = gen =>
      /\ st[c].pc = "grants" => User(c) \in members \/ Pending(User(c))
      /\ st[c].pc \in {"lock", "upsert"} => Right(User(c), st[c].perms) \/ Pending(User(c))

\* The invariant behind RowFresh.
Inv ==
    /\ Types
    /\ \A c \in Calls : CallOK(c) /\ SweptBy(c) /\ ReadOK(c)
    /\ Exclusive
    /\ \A u \in Users : RowOK(u)

\* The call holds no lock and is about to delete nothing.
Free(r) == ~r.share /\ ~r.counter /\ r.del = {}

\* A step of c that changes neither the tables nor the rows, and holds no lock after it.
Light(c) ==
    /\ Others(c) /\ UNCHANGED <<load, members, grant, gen, rows, now>>
    /\ Free(st'[c]) /\ st'[c].owes = st[c].owes
    /\ st'[c].pc \notin {"upsert", "delete", "commit", "deleteOnly"}

\* A step of c that changes no table leaves the debts and the other calls' claims as they were.
LEMMA SteadyFacts ==
    ASSUME Inv, NEW c \in Calls, Others(c), UNCHANGED <<load, members, grant, gen, now>>,
           st'[c].owes = st[c].owes, st'[c].pc # "deleteOnly"
    PROVE  /\ \A d \in Calls : Op(d)' = Op(d) /\ User(d)' = User(d)
           /\ \A u : (Owing(u)' <=> Owing(u)) /\ (Joining(u)' <=> Joining(u)) /\ (Pending(u) => Pending(u)')
           /\ \A d \in Calls : d # c => CallOK(d)' /\ ReadOK(d)'
  <1>1. /\ \A d \in Calls : Op(d)' = Op(d) /\ User(d)' = User(d)
        /\ \A d \in Calls : d # c => st'[d] = st[d]
        /\ load' = load /\ members' = members /\ grant' = grant /\ gen' = gen /\ now' = now
        /\ \A d \in Calls : st'[d].owes = st[d].owes
    BY Rigid DEF Others
  <1>2. \A u : \A d \in Calls : Reaches(d, u)' <=> Reaches(d, u)
    BY <1>1 DEF Reaches
  <1>3. \A u : (Owing(u)' <=> Owing(u)) /\ (Joining(u)' <=> Joining(u)) /\ (Pending(u) => Pending(u)')
    <2>1. \A d \in Calls : st[d].pc # "deleteOnly" => st'[d].pc # "deleteOnly"
      BY <1>1
    <2> QED BY <1>1, <1>2, <2>1 DEF Owing, Joining, Pending
  <1>4. ASSUME NEW d \in Calls, d # c PROVE CallOK(d)'
    BY <1>1, <1>4 DEF Inv, CallOK
  <1>5. ASSUME NEW d \in Calls, d # c PROVE ReadOK(d)'
    <2>1. ReadOK(d)
      BY DEF Inv
    <2>2. Pending(User(d)) => Pending(User(d))'
      BY <1>1, <1>3
    <2>3. Right(User(d), st[d].perms)' <=> Right(User(d), st[d].perms)
      BY <1>1, <1>5 DEF Right
    <2> QED BY <1>1, <1>5, <2>1, <2>2, <2>3 DEF ReadOK
  <1> QED BY <1>1, <1>3, <1>4, <1>5

\* A step that leaves the tables, the rows and the generation alone keeps Inv.
LEMMA SteadyInv ==
    ASSUME Inv, NEW c \in Calls, Others(c), UNCHANGED <<load, members, grant, gen, rows, now>>,
           st'[c].owes = st[c].owes, st'[c].pc # "deleteOnly",
           Types', CallOK(c)', SweptBy(c)', ReadOK(c)', Exclusive'
    PROVE  Inv'
  <1>1. /\ \A d \in Calls : Op(d)' = Op(d) /\ User(d)' = User(d)
        /\ \A u : (Owing(u)' <=> Owing(u)) /\ (Joining(u)' <=> Joining(u))
        /\ \A d \in Calls : d # c => CallOK(d)' /\ ReadOK(d)'
    BY SteadyFacts
  <1>2. ASSUME NEW d \in Calls, d # c PROVE SweptBy(d)'
    <2>1. SweptBy(d) /\ st'[d] = st[d]
      BY <1>2 DEF Inv, Others
    <2> QED BY <1>1, <2>1 DEF SweptBy
  <1>3. ASSUME NEW u \in Users PROVE RowOK(u)'
    <2>1. RowOK(u)
      BY DEF Inv
    <2>2. Right(u, rows[u].perms)' <=> Right(u, rows[u].perms)
      BY DEF Right
    <2> QED BY <1>1, <2>1, <2>2 DEF RowOK
  <1>4. \A d \in Calls : CallOK(d)' /\ SweptBy(d)' /\ ReadOK(d)'
    BY <1>1, <1>2
  <1> QED BY <1>3, <1>4 DEF Inv

\* A light step keeps Inv, given what it must show of its own call.
LEMMA LightInv ==
    ASSUME Inv, NEW c \in Calls, Light(c), Types', CallOK(c)', ReadOK(c)'
    PROVE  Inv'
  <1>1. /\ Others(c) /\ UNCHANGED <<load, members, grant, gen, rows, now>>
        /\ st'[c].owes = st[c].owes /\ st'[c].pc \notin {"commit", "deleteOnly"}
        /\ ~st'[c].share /\ ~st'[c].counter
    BY DEF Light, Free
  <1>2. Exclusive'
    BY <1>1 DEF Inv, Exclusive, Others
  <1>3. SweptBy(c)'
    BY <1>1 DEF SweptBy
  <1> QED BY <1>1, <1>2, <1>3, SteadyInv

\* Only a writer of a row and a transaction hold locks.
LEMMA FreeNow ==
    ASSUME Inv, NEW c \in Calls, st[c].pc \notin {"upsert", "delete", "commit"}
    PROVE  Free(st[c])
  <1>1. CallOK(c) /\ st[c] \in CallState
    BY DEF Inv, Types
  <1> QED BY <1>1 DEF CallOK, Free

\* The owner of a slot computes.
Slotted == {"snapshot", "memberships", "grants", "lock", "upsert", "broadcast", "remove"}

\* The computation has read all it reads.
Past == {"lock", "upsert", "broadcast", "remove", "store", "end"}

\* The call has begun and has not been answered.
Active(c) == Begun(c) /\ ~Finished(c)

\* Somebody waits for the call.
Waited(c) == \E d \in Calls : At(d, "wait") /\ st[d].wait = c

\* A waiter waits for a computation for the same user; a slot is held while it computes.
ShapeOK(c) ==
    /\ st[c].pc \in Reading => Op(c) \in Reads
    /\ \A d \in st[c].before : Finished(d)
    /\ st[c].done => st[c].pc \in {"remove", "store", "end"}
    /\ st[c].err /\ st[c].pc \in Reading => st[c].pc \in {"broadcast", "remove"}
    /\ st[c].pc = "grants" => st[c].perms.member
    /\ st[c].wait # "none" => User(st[c].wait) = User(c)
    /\ st[c].pc = "wait" => /\ st[c].wait # "none" /\ Op(st[c].wait) \in Reads

\* A slot names the computation under way for its user.
FlightOK ==
    \A r \in Replicas, u \in Users : flight[r][u] # "none" =>
        LET c == flight[r][u]
        IN  User(c) = u /\ Home(c) = r /\ Op(c) \in Reads /\ st[c].own /\ st[c].pc \in Slotted

\* In memory, what a request holds had not ended when it was read.
WindowOK(c) ==
    ~load.redis /\ st[c].perms.member =>
        st[c].perms.exp <= load.until[User(c)] /\ st[c].readAt <= load.until[User(c)]

\* A row expires no later than the membership it shows.
RowWindow(u) == ~load.redis /\ rows[u].some /\ rows[u].perms.member => rows[u].perms.exp <= load.until[u]

\* An entry in front was put there by a call, and expires no later than its membership.
UpperOK(p, u) ==
    upper[p][u].some =>
      /\ \E c \in Calls : Begun(c) /\ Place(c) = p
      /\ ~load.redis /\ upper[p][u].perms.member =>
            upper[p][u].exp <= load.until[u] /\ upper[p][u].perms.exp <= load.until[u]

\* What holds of every history: who waits for whom, and until when an entry is good.
Shape ==
    /\ \A c \in Calls : ShapeOK(c) /\ WindowOK(c)
    /\ FlightOK
    /\ \A u \in Users : RowWindow(u) /\ \A p \in Places : UpperOK(p, u)

\* Like Right, for permissions that went through a cache.
Sound(u, p) ==
    IF p.member
    THEN u \in members /\ p.grant \in {grant, Coded(grant)} /\ 0 < load.until[u]
    ELSE p.grant = "none" /\ (u \notin members \/ load.until[u] <= now)

\* A call is about to clear u's entry in front.
Clearing(u) == \E d \in Calls : At(d, "clear") /\ (Op(d) \in Inline \/ u \in st[d].owes)

\* What holds of a quiet history: what is cached or answered is what the tables say.
Current ==
    /\ \A c \in Calls : Op(c) \in Reads =>
          /\ st[c].fit
          /\ (Active(c) \/ Waited(c)) /\ ~st[c].err /\ st[c].pc \in Past =>
                FitAt(c) /\ Sound(User(c), st[c].perms)
          /\ At(c, "grants") => Holds(User(c), st[c].readAt)
    /\ \A c \in Calls : Finished(c) => st[c].owes = {}
    /\ \A p \in Places, u \in Users : upper[p][u].some => Sound(u, upper[p][u].perms) \/ Clearing(u)

\* The inductive invariant.
Full == Inv /\ Shape /\ (Quiet => Current)

\* Slots, waiters, and the ends of memberships.
LEMMA ShapeStep ==
    ASSUME Inv, Shape, NEW c \in Calls, Others(c), load' = load, st[c].pc # "end",
           ShapeOK(c)', WindowOK(c)', FlightOK', \A u \in Users : RowWindow(u)',
           \A p \in Places, u \in Users : UpperOK(p, u)'
    PROVE  Shape'
  <1>1. /\ \A d \in Calls : Op(d)' = Op(d) /\ User(d)' = User(d)
        /\ \A d \in Calls : d # c => st'[d] = st[d]
        /\ \A d \in Calls : st[d].before \subseteq Calls /\ st[d].wait \in Calls \cup {"none"}
    BY Rigid DEF Others, Inv, Types, CallState
  <1>2. \A d \in Calls : Finished(d) => Finished(d)'
    BY <1>1 DEF Finished
  <1>3. ASSUME NEW d \in Calls, d # c PROVE ShapeOK(d)' /\ WindowOK(d)'
    <2>1. ShapeOK(d) /\ WindowOK(d) /\ st'[d] = st[d]
      BY <1>1, <1>3 DEF Shape
    <2>2. \A e \in st'[d].before : Finished(e)'
      BY <1>1, <1>2, <2>1 DEF ShapeOK
    <2>3. /\ st'[d].wait # "none" => User(st[d].wait)' = User(d)'
          /\ st'[d].pc = "wait" => st'[d].wait # "none" /\ Op(st[d].wait)' \in Reads
      BY <1>1, <2>1 DEF ShapeOK
    <2>4. ShapeOK(d)'
      BY <1>1, <2>1, <2>2, <2>3 DEF ShapeOK
    <2>5. WindowOK(d)'
      BY <1>1, <2>1 DEF WindowOK
    <2> QED BY <2>4, <2>5
  <1>4. \A d \in Calls : ShapeOK(d)' /\ WindowOK(d)'
    BY <1>3
  <1> QED BY <1>4 DEF Shape

\* Entries and rows that stay, or go.
LEMMA UpperShrinks ==
    ASSUME Inv, Shape, NEW c \in Calls, Others(c), load' = load, st'[c].pc # "start",
           \A p \in Places, u \in Users : upper'[p][u] = upper[p][u] \/ ~upper'[p][u].some
    PROVE  \A p \in Places, u \in Users : UpperOK(p, u)'
  <1>1. \A d \in Calls : Begun(d) => Begun(d)' /\ Place(d)' = Place(d)
    BY Rigid DEF Others, Begun
  <1> SUFFICES ASSUME NEW p \in Places, NEW u \in Users, upper'[p][u].some PROVE UpperOK(p, u)'
    BY DEF UpperOK
  <1>2. upper'[p][u] = upper[p][u] /\ UpperOK(p, u)
    BY DEF Shape
  <1> QED BY <1>1, <1>2 DEF UpperOK

\* Dropping rows keeps what is said of them.
LEMMA RowsShrink ==
    ASSUME Shape, load' = load, \A u \in Users : rows'[u] = rows[u] \/ ~rows'[u].some
    PROVE  \A u \in Users : RowWindow(u)'
  BY DEF Shape, RowWindow

\* Slots stay right while their owners compute.
LEMMA FlightStays ==
    ASSUME Inv, Shape, NEW c \in Calls, Others(c), load' = load, flight' = flight,
           st[c].pc \in Slotted => st'[c].pc \in Slotted /\ st'[c].own = st[c].own
    PROVE  FlightOK'
  <1> SUFFICES ASSUME NEW r \in Replicas, NEW u \in Users, NEW d \in Calls, flight[r][u] = d
               PROVE  /\ User(d)' = u /\ Home(d)' = r /\ Op(d)' \in Reads
                      /\ st'[d].own /\ st'[d].pc \in Slotted
    <2>1. \A r \in Replicas, u \in Users : flight'[r][u] # "none" => flight'[r][u] \in Calls
      BY DEF Inv, Types
    <2> QED BY <2>1 DEF FlightOK
  <1>1. /\ User(d) = u /\ Home(d) = r /\ Op(d) \in Reads /\ st[d].own /\ st[d].pc \in Slotted
    <2>1. flight[r][u] # "none"
      BY PermissionCacheAssumption
    <2> QED BY <2>1 DEF Shape, FlightOK
  <1>2. User(d)' = User(d) /\ Home(d)' = Home(d) /\ Op(d)' = Op(d)
    BY Rigid
  <1>3. st'[d].own /\ st'[d].pc \in Slotted
    BY <1>1 DEF Others
  <1> QED BY <1>1, <1>2, <1>3

\* A step of one call that adds no entry, row or slot keeps Shape.
LEMMA ShapeMove ==
    ASSUME Inv, Shape, NEW c \in Calls, Others(c), load' = load,
           st[c].pc # "end", st'[c].pc # "start", flight' = flight,
           st[c].pc \in Slotted => st'[c].pc \in Slotted /\ st'[c].own = st[c].own,
           \A u \in Users : rows'[u] = rows[u] \/ ~rows'[u].some,
           \A p \in Places, u \in Users : upper'[p][u] = upper[p][u] \/ ~upper'[p][u].some,
           ShapeOK(c)', WindowOK(c)'
    PROVE  Shape'
  <1>1. \A p \in Places, u \in Users : UpperOK(p, u)'
    BY UpperShrinks
  <1>2. \A u \in Users : RowWindow(u)'
    BY RowsShrink
  <1>3. FlightOK'
    BY FlightStays
  <1> QED BY <1>1, <1>2, <1>3, ShapeStep

\* What a step must show of its own call.
LEMMA ShapeSelf ==
    ASSUME Inv, Shape, NEW c \in Calls, Others(c), load' = load, st[c].pc # "end",
           st'[c].pc \in Reading => Op(c) \in Reads,
           st'[c].before \in {st[c].before, {d \in Calls : Finished(d)}},
           st'[c].done => st'[c].pc \in {"remove", "store", "end"},
           st'[c].err /\ st'[c].pc \in Reading => st'[c].pc \in {"broadcast", "remove"},
           st'[c].pc = "grants" => st'[c].perms.member,
           st'[c].pc # "wait", st'[c].wait \in {st[c].wait, "none"}
    PROVE  ShapeOK(c)'
  <1>1. /\ \A d \in Calls : Op(d)' = Op(d) /\ User(d)' = User(d)
        /\ st[c].wait \in Calls \cup {"none"} /\ st[c].before \subseteq Calls /\ ShapeOK(c)
    BY Rigid DEF Inv, Types, CallState, Shape
  <1>2. \A d \in Calls : Finished(d) => Finished(d)'
    BY DEF Finished, Others
  <1>3. \A e \in st'[c].before : Finished(e)'
    BY <1>1, <1>2 DEF ShapeOK
  <1>4. st'[c].wait # "none" => User(st[c].wait)' = User(c)'
    BY <1>1 DEF ShapeOK
  <1> QED BY <1>1, <1>3, <1>4 DEF ShapeOK

\* A request that keeps what it holds keeps WindowOK.
LEMMA WindowSelf ==
    ASSUME Shape, NEW c \in Calls, load' = load, st'[c].perms = st[c].perms,
           st'[c].readAt = st[c].readAt
    PROVE  WindowOK(c)'
  <1>1. WindowOK(c) /\ User(c)' = User(c)
    BY Rigid DEF Shape
  <1> QED BY <1>1 DEF WindowOK

\* A history that is quiet after a step was quiet before it, and the step did not fail.
LEMMA QuietBefore ==
    ASSUME Types, Types', Fault \/ NoFault, load' = load, NEW c \in Calls, Others(c),
           st'[c].pc # "start", st[c].pc = "start" \/ st'[c].before = st[c].before, Quiet'
    PROVE  Quiet /\ ~Fault
  <1>1. faults = 0 /\ ~Fault
    <2>1. faults \in Nat /\ faults' = 0
      BY DEF Types, Quiet
    <2> QED BY <2>1 DEF Fault, NoFault
  <1>2. \A d \in Calls : Op(d)' = Op(d) /\ Place(d)' = Place(d) /\ (Begun(d) => Begun(d)')
    BY Rigid DEF Begun, Others
  <1>3. ASSUME NEW d \in Calls, NEW e \in Calls, Begun(d), Begun(e)
        PROVE  Place(d) = Place(e)
    BY <1>2, <1>3 DEF Quiet
  <1>4. ASSUME NEW d \in Calls, NEW e \in Calls, Op(d) \in Reads, Writes(e)
        PROVE  Apart(d, e)
    <2>1. Op(d)' \in Reads /\ Writes(e)'
      BY <1>2, <1>4 DEF Writes
    <2>2. Apart(d, e)'
      BY <2>1 DEF Quiet
    <2>3. \A x \in Calls : Begun(x) => st'[x].before = st[x].before
      BY DEF Others, Begun
    <2> QED BY <1>2, <2>2, <2>3 DEF Apart
  <1>5. load.redis => \A u \in Users : load.until[u] > MaxTime
    BY DEF Quiet
  <1> QED BY <1>1, <1>3, <1>4, <1>5 DEF Quiet

\* In a quiet history a request and an administrator's call are never both under way.
LEMMA NoOverlap ==
    ASSUME Shape, Quiet, NEW c \in Calls, NEW d \in Calls, Op(c) \in Reads, Writes(d)
    PROVE  ~(Active(c) /\ Active(d))
  <1>1. Apart(c, d)
    BY DEF Quiet
  <1>2. ShapeOK(c) /\ ShapeOK(d)
    BY DEF Shape
  <1> QED BY <1>1, <1>2 DEF Apart, ShapeOK, Active

\* Administrators' calls run only between their start and their answer.
LEMMA WritersActive ==
    ASSUME Inv, NEW d \in Calls, st[d].pc \in Writing
    PROVE  Writes(d) /\ Active(d)
  <1>1. CallOK(d)
    BY DEF Inv
  <1> QED BY <1>1 DEF CallOK, Writing, Writes, Active, Begun, Finished, Separate, Inline, UserWrites,
             GroupWrites, OrgWrites

\* Requests run only between their start and their answer.
LEMMA ReadersActive ==
    ASSUME Shape, NEW d \in Calls, st[d].pc \in Reading
    PROVE  Op(d) \in Reads /\ Active(d)
  <1>1. ShapeOK(d)
    BY DEF Shape
  <1> QED BY <1>1 DEF ShapeOK, Reading, Active, Begun, Finished

\* FitAt after a step that leaves the tables alone.
LEMMA SameFit ==
    ASSUME UNCHANGED <<load, members, grant>>, NEW c \in Calls
    PROVE  FitAt(c)' <=> \E v \in Due(c, st'[c].readAt) : View(st'[c].perms) \in Shown(v)
  <1>1. Due(c, st[c].readAt)' = Due(c, st'[c].readAt)
    BY Rigid DEF Due, Facts, Holds
  <1>2. View(st[c].perms)' = View(st'[c].perms)
    BY DEF View
  <1>3. \A v : Shown(v)' = Shown(v)
    BY DEF Shown, Coded
  <1> QED BY <1>1, <1>2, <1>3 DEF FitAt

\* A step of one call: Inv and Shape are kept, and Current is as long as the history is quiet.
LEMMA FullStep ==
    ASSUME Full, Inv', Shape', Fault \/ NoFault, NEW c \in Calls, Others(c), load' = load,
           st'[c].pc # "start", st[c].pc = "start" \/ st'[c].before = st[c].before,
           Quiet /\ ~Fault /\ Current /\ Quiet' => Current'
    PROVE  Full'
  <1>1. Quiet' => Quiet /\ ~Fault
    BY QuietBefore DEF Full, Inv
  <1> QED BY <1>1 DEF Full

\* An entry expires no later than the membership it shows.
LEMMA ExpiryFacts ==
    ASSUME Types, NEW u \in Users, NEW h \in BOOLEAN
    PROVE  /\ Expiry(u, h) \in Nat
           /\ h => Expiry(u, h) <= load.until[u]
  <1>1. now \in Nat /\ load.ttl \in Nat /\ load.until[u] \in Nat
    BY LoadFacts DEF Types
  <1> QED BY <1>1 DEF Expiry, Least

\* What changes when a statement of the computation fails.
LEMMA FailedStep ==
    ASSUME Types, NEW c \in Calls, Failed(c), Frozen, UNCHANGED <<upper, flight>>
    PROVE  /\ Types' /\ Others(c) /\ Fault /\ Same(st'[c], st[c]) /\ SameNotes(st'[c], st[c])
           /\ SameRead(st'[c], st[c]) /\ st'[c].fit = st[c].fit /\ st'[c].wait = st[c].wait
           /\ st'[c].pc = "broadcast" /\ st'[c].err
  <1>1. Fault /\ Set(c, [st[c] EXCEPT !.pc = "broadcast", !.err = TRUE]) /\ "broadcast" \in Stages /\ st \in [Calls -> CallState]
    BY DEF Failed, Stages, Types
  <1> USE <1>1
  <1>2. /\ st' \in [Calls -> CallState] /\ Others(c) /\ Same(st'[c], st[c]) /\ SameNotes(st'[c], st[c])
        /\ SameRead(st'[c], st[c]) /\ st'[c].fit = st[c].fit /\ st'[c].wait = st[c].wait
        /\ st'[c].pc = "broadcast" /\ st'[c].err
    <2> DEFINE s == st[c]
               yes == TRUE
               rec == [s EXCEPT !.pc = "broadcast", !.err = yes]
    <2>1. s \in CallState /\ Set(c, rec) /\ yes \in BOOLEAN /\ yes
      BY DEF Types
    <2> USE <2>1
    <2> HIDE DEF s, yes
    <2>2. rec \in CallState
      BY Zenon DEF CallState, Stages
    <2>3. /\ rec.pc = "broadcast" /\ rec.err /\ Same(rec, s) /\ SameRead(rec, s)
          /\ SameNotes(rec, s) /\ rec.fit = s.fit /\ rec.wait = s.wait
      BY DEF CallState, Same, SameRead, SameNotes
    <2> HIDE DEF rec
    <2>4. st' \in [Calls -> CallState] /\ st'[c] = rec /\ Others(c)
      BY <2>2, SetFacts DEF Types
    <2> QED BY <2>3, <2>4 DEF s
  <1>3. Types'
    BY <1>2, LightTypes DEF Types, Frozen
  <1> QED BY <1>2, <1>3

\* A light step to a stage at which nothing is claimed of what was read.
LEMMA LightStep ==
    ASSUME Inv, NEW c \in Calls, Light(c), Types', st'[c].snap <= gen,
           st'[c].pc \in (Reading \cup {"end"}) \ {"grants", "lock"}
    PROVE  Inv'
  <1>1. CallOK(c) /\ Op(c)' = Op(c) /\ User(c)' = User(c) /\ gen' = gen /\ Free(st'[c])
        /\ st'[c].owes = st[c].owes /\ st'[c].pc # "upsert"
    BY Rigid DEF Inv, Light
  <1>2. CallOK(c)'
    BY <1>1 DEF CallOK, Reading, Free
  <1>3. ReadOK(c)'
    BY <1>1 DEF ReadOK
  <1> QED BY <1>2, <1>3, LightInv

\* A step of a reader that keeps what it holds.
LEMMA MoveInv ==
    ASSUME Inv, NEW c \in Calls, Types', Others(c), Frozen, Same(st'[c], st[c]),
           st[c].pc \notin {"upsert", "delete", "commit"},
           st'[c].snap \in {st[c].snap, gen},
           st'[c].pc \in (Reading \cup {"end"}) \ {"grants", "lock", "upsert"}
    PROVE  Inv'
  <1>1. st'[c].snap <= gen
    <2>1. gen \in Nat /\ st[c].snap <= gen
      BY ZenonT(30) DEF Inv, CallOK, Types
    <2> QED BY <2>1
  <1>2. Light(c)
    <2>1. Free(st[c])
      BY FreeNow
    <2> QED BY <2>1 DEF Light, Free, Same, Reading, Frozen
  <1> QED BY <1>1, <1>2, LightStep

\* While a request is under way nothing is about to be cleared, and no invalidation is owed.
LEMMA NothingOwed ==
    ASSUME Inv, Shape, Quiet, Current, NEW c \in Calls, st[c].pc \in Reading
    PROVE  \A u \in Users : ~Clearing(u) /\ ~Owing(u)
  <1>1. Op(c) \in Reads /\ Active(c)
    BY ReadersActive
  <1>2. ASSUME NEW u \in Users, NEW d \in Calls, At(d, "clear") PROVE FALSE
    BY <1>1, <1>2, WritersActive, NoOverlap DEF At, Writing
  <1>3. ASSUME NEW u \in Users, NEW d \in Calls, u \in st[d].owes PROVE FALSE
    <2>1. CallOK(d) /\ (Finished(d) => st[d].owes = {})
      BY DEF Inv, Current
    <2>2. Op(d) \in Separate /\ Active(d)
      BY <1>3, <2>1 DEF CallOK, Active, Begun
    <2> QED BY <1>1, <2>2, NoOverlap DEF Writes
  <1> QED BY <1>2, <1>3 DEF Clearing, Owing, Reaches

\* Sound permissions that have not ended are due to the request.
LEMMA SoundFits ==
    ASSUME Types, NEW c \in Calls, NEW p \in PermsType, Sound(User(c), p),
           p.member => now <= load.until[User(c)]
    PROVE  \E v \in Due(c, now) : View(p) \in Shown(v)
  <1> DEFINE u == User(c)
             t == IF now = 0 THEN 0 ELSE now - 1
  <1>1. now \in Nat /\ u \in Users /\ load.until[u] \in Nat
    BY LoadFacts DEF Types
  <1>2. CASE p.member
    <2>1. t < load.until[u]
      BY <1>1, <1>2 DEF Sound
    <2>2. Holds(u, t) /\ p.grant \in {grant, Coded(grant)}
      BY <1>2, <2>1 DEF Holds, Sound
    <2>3. Facts(u, t) = [member |-> TRUE, grant |-> grant]
      BY <2>2, Zenon DEF Facts
    <2>4. View(p) = [member |-> TRUE, grant |-> p.grant]
      BY <1>2 DEF View, PermsType
    <2>5. View(p) \in Shown(Facts(u, t))
      <3> DEFINE yes == TRUE
                 v == [member |-> yes, grant |-> grant]
      <3>1. [v EXCEPT !.grant = Coded(grant)] = [member |-> yes, grant |-> Coded(grant)]
        <4> HIDE DEF yes
        <4> QED OBVIOUS
      <3>2. v.grant = grant
        OBVIOUS
      <3>3. View(p) \in {v, [v EXCEPT !.grant = Coded(v.grant)]}
        BY <2>2, <2>4, <3>1, <3>2, Zenon
      <3> QED BY <2>3, <3>3, Zenon DEF Shown
    <2> QED BY <2>5 DEF Due
  <1>3. CASE ~p.member
    <2>1. p.grant = "none" /\ ~Holds(u, now)
      BY <1>1, <1>3 DEF Sound, Holds
    <2>2. Facts(u, now) = [member |-> FALSE, grant |-> "none"]
      <3>1. Holds(u, now) = FALSE
        BY <2>1 DEF Holds
      <3> QED BY <3>1, Zenon DEF Facts
    <2>3. View(p) = [member |-> FALSE, grant |-> "none"]
      BY <1>3, <2>1, Zenon DEF View, PermsType
    <2>4. View(p) \in Shown(Facts(u, now))
      BY <2>2, <2>3 DEF Shown
    <2> QED BY <2>4 DEF Due
  <1> QED BY <1>2, <1>3

\* Sound permissions stay sound through the JSON of a row or of Redis (Coded).
LEMMA DecodedSound ==
    ASSUME NEW u \in Users, NEW p \in PermsType, Sound(u, p)
    PROVE  /\ Sound(u, Decoded(p)) /\ Decoded(p) \in PermsType /\ Decoded(p).member = p.member
           /\ Decoded(p).exp = p.exp
  <1>1. /\ Decoded(p).member = p.member /\ Decoded(p).grant = Coded(p.grant) /\ Decoded(p).exp = p.exp
        /\ Decoded(p) \in PermsType
    BY DEF Decoded, PermsType, Coded, Grants
  <1>2. Coded(Coded(grant)) = Coded(grant) /\ Coded("none") = "none"
    BY DEF Coded
  <1> QED BY <1>1, <1>2 DEF Sound

\* Neither what is due to a request nor what is sound changes while the tables stay.
LEMMA SameFacts ==
    ASSUME UNCHANGED <<load, members, grant, now>>
    PROVE  /\ \A t : \A c \in Calls : Due(c, t)' = Due(c, t)
           /\ \A t : \A u \in Users : Holds(u, t)' = Holds(u, t)
           /\ \A p : \A u \in Users : Sound(u, p)' = Sound(u, p)
  BY Rigid DEF Due, Facts, Holds, Sound

\* What a step of a request must establish: its own answer is fit, what it caches is sound,
\* and it only waits for a computation under way.
LEMMA CurrentReader ==
    ASSUME Inv, Shape, Current, Inv', NEW c \in Calls, Op(c) \in Reads, Others(c),
           UNCHANGED <<load, members, grant, now>>, st'[c].fit,
           ~st'[c].err /\ st'[c].pc \in Past =>
               /\ \E v \in Due(c, st'[c].readAt) : View(st'[c].perms) \in Shown(v)
               /\ Sound(User(c), st'[c].perms),
           st'[c].pc = "grants" => Holds(User(c), st'[c].readAt),
           st'[c].pc = "wait" => \A d \in Calls : st'[c].wait = d => Active(d),
           \A p \in Places, u \in Users :
               \/ upper'[p][u] = upper[p][u]
               \/ upper'[p][u].some => Sound(u, upper'[p][u].perms)
    PROVE  Current'
  <1>0. /\ \A d \in Calls : Op(d)' = Op(d) /\ User(d)' = User(d) /\ User(d) \in Users
        /\ \A t : \A d \in Calls : Due(d, t)' = Due(d, t)
        /\ \A t : \A u \in Users : Holds(u, t)' = Holds(u, t)
        /\ \A p : \A u \in Users : Sound(u, p)' = Sound(u, p)
    BY Rigid, SameFacts, LoadFacts, ZenonT(30) DEF Inv, Types
  <1>1. /\ st'[c].fit
        /\ ~st'[c].err /\ st'[c].pc \in Past => FitAt(c)' /\ Sound(User(c), st[c].perms)'
        /\ At(c, "grants")' => Holds(User(c), st[c].readAt)'
    <2>1. FitAt(c)' <=> \E v \in Due(c, st'[c].readAt) : View(st'[c].perms) \in Shown(v)
      BY SameFit, ZenonT(30)
    <2>2. Sound(User(c), st[c].perms)' <=> Sound(User(c), st'[c].perms)
      BY <1>0, ZenonT(30) DEF Sound
    <2>3. Holds(User(c), st[c].readAt)' <=> Holds(User(c), st'[c].readAt)
      BY <1>0, ZenonT(30) DEF Holds
    <2> QED BY <2>1, <2>2, <2>3, ZenonT(30) DEF At
  <1>2. ASSUME NEW d \in Calls, Op(d) \in Reads, d # c
        PROVE  /\ st'[d].fit
               /\ (Active(d) \/ Waited(d))' /\ ~st'[d].err /\ st'[d].pc \in Past =>
                      FitAt(d)' /\ Sound(User(d), st[d].perms)'
               /\ At(d, "grants")' => Holds(User(d), st[d].readAt)'
    <2>1. st'[d] = st[d]
      BY <1>2 DEF Others
    <2>2. Active(d)' <=> Active(d)
      BY <2>1 DEF Active, Begun, Finished
    <2>3. Waited(d)' => Waited(d) \/ Active(d)
      <3> SUFFICES ASSUME NEW e \in Calls, st'[e].pc = "wait", st'[e].wait = d
                   PROVE  Waited(d) \/ Active(d)
        BY DEF Waited, At
      <3>1. CASE e = c
        BY <3>1, ZenonT(30)
      <3>2. CASE e # c
        BY <3>2 DEF Others, Waited, At
      <3> QED BY <3>1, <3>2
    <2>4. FitAt(d)' <=> FitAt(d)
      BY <2>1, SameFit DEF FitAt
    <2>5. Sound(User(d), st[d].perms)' <=> Sound(User(d), st[d].perms)
      BY <1>0, <2>1, ZenonT(30) DEF Sound
    <2>6. Holds(User(d), st[d].readAt)' <=> Holds(User(d), st[d].readAt)
      BY <1>0, <2>1, ZenonT(30) DEF Holds
    <2> QED BY <1>2, <2>1, <2>2, <2>3, <2>4, <2>5, <2>6, Zenon DEF Current, At
  <1>3. ASSUME NEW d \in Calls, Finished(d)' PROVE st'[d].owes = {}
    <2>1. CASE d = c
      <3>1. CallOK(c)'
        BY ZenonT(30) DEF Inv
      <3> QED BY <1>0, <2>1, <3>1, ZenonT(30) DEF CallOK, Reads, Separate, UserWrites, GroupWrites, OrgWrites
    <2>2. CASE d # c
      BY <1>3, <2>2, ZenonT(30) DEF Others, Current, Finished
    <2> QED BY <2>1, <2>2, ZenonT(30)
  <1>4. ASSUME NEW p \in Places, NEW u \in Users, upper'[p][u].some
        PROVE  Sound(u, upper[p][u].perms)' \/ Clearing(u)'
    <2>1. Sound(u, upper[p][u].perms)' <=> Sound(u, upper'[p][u].perms)
      BY <1>0, ZenonT(30) DEF Sound
    <2>2. CASE Sound(u, upper'[p][u].perms)
      BY <2>1, <2>2
    <2>3. CASE upper'[p][u] = upper[p][u] /\ ~Sound(u, upper[p][u].perms)
      <3>1. PICK d \in Calls : At(d, "clear") /\ (Op(d) \in Inline \/ u \in st[d].owes)
        BY <1>4, <2>3, ZenonT(30) DEF Current, Clearing
      <3>2. d # c
        <4>1. CallOK(d)
          BY ZenonT(30) DEF Inv
        <4> QED BY <3>1, <4>1, ZenonT(30) DEF CallOK, At, Reads, Separate, Inline, UserWrites, GroupWrites, OrgWrites
      <3> QED BY <1>0, <3>1, <3>2, ZenonT(30) DEF Clearing, At, Others
    <2> QED BY <1>4, <2>2, <2>3
  <1> QED BY <1>0, <1>1, <1>2, <1>3, <1>4, ZenonT(30) DEF Current

\* Once it has read, a request keeps what it read until it is answered.
LEMMA CurrentKeep ==
    ASSUME Inv, Shape, Current, Inv', NEW c \in Calls, Op(c) \in Reads, Others(c),
           UNCHANGED <<load, members, grant, now>>, st[c].pc \in Past \ {"end"}, st'[c].pc \in Past,
           st'[c].perms = st[c].perms, st'[c].readAt = st[c].readAt, st'[c].err = st[c].err,
           st'[c].fit,
           \A p \in Places, u \in Users :
               \/ upper'[p][u] = upper[p][u]
               \/ upper'[p][u].some => Sound(u, upper'[p][u].perms)
    PROVE  Current'
  <1>1. Active(c)
    BY DEF Active, Begun, Finished, Past
  <1>2. ~st'[c].err => FitAt(c) /\ Sound(User(c), st[c].perms)
    BY <1>1 DEF Current
  <1> QED BY <1>2, CurrentReader, ZenonT(30) DEF FitAt, Past

\* While a request has read nothing, or has failed, it has nothing to answer for.
LEMMA CurrentBlank ==
    ASSUME Inv, Shape, Current, Inv', NEW c \in Calls, Op(c) \in Reads, Others(c),
           UNCHANGED <<load, members, grant, now, upper>>, st'[c].fit = st[c].fit \/ st'[c].fit,
           st'[c].pc \notin Past \cup {"grants", "wait"} \/ (st'[c].err /\ st'[c].pc \in Past)
    PROVE  Current'
  <1>1. st'[c].fit
    BY DEF Current
  <1> QED BY <1>1, CurrentReader DEF Past

\* The invariant is kept when a request arrives (resolvePermissionsForRequest).
LEMMA StartReadKept == ASSUME Full, NEW c \in Calls, StartRead(c) PROVE Full'
  <1>0. Inv /\ Shape /\ Types
    BY DEF Full, Inv
  <1> USE <1>0
  <1>1. /\ Types' /\ Others(c) /\ Frozen /\ UNCHANGED <<upper, flight, faults>>
        /\ Op(c) \in Reads /\ st[c].pc = "start" /\ st'[c].pc \in {"get", "select"}
        /\ ~st'[c].share /\ ~st'[c].counter /\ st'[c].del = {} /\ st'[c].owes = {}
        /\ st'[c].perms = NoPerms /\ st'[c].readAt = 0 /\ st'[c].snap = 0
        /\ ~st'[c].done /\ ~st'[c].err /\ st'[c].fit /\ st'[c].wait = "none"
        /\ st'[c].before = {d \in Calls : Finished(d)}
    <2> DEFINE p == IF Op(c) = "check" THEN "get" ELSE "select"
    <2>1. p \in Stages /\ p \in {"get", "select"} /\ Begin(c, p)
      BY DEF Stages, StartRead
    <2> HIDE DEF p
    <2>2. Frozen /\ UNCHANGED <<upper, flight, faults>> /\ NoFault /\ Op(c) \in Reads /\ st[c].pc = "start"
      BY DEF StartRead, Frozen, Rest, tables, shared, NoFault, At
    <2>3. /\ st' \in [Calls -> CallState] /\ Others(c) /\ st'[c].pc = p
          /\ ~st'[c].share /\ ~st'[c].counter /\ st'[c].del = {} /\ st'[c].owes = {}
          /\ st'[c].perms = NoPerms /\ st'[c].readAt = 0 /\ st'[c].snap = 0
          /\ ~st'[c].done /\ ~st'[c].err /\ st'[c].fit /\ st'[c].wait = "none"
          /\ st'[c].before = {d \in Calls : Finished(d)}
      BY <2>1, BeginFacts, ZenonT(30) DEF Types
    <2>4. Types'
      BY <2>2, <2>3, LightTypes, ZenonT(30) DEF Types, Frozen
    <2> QED BY <2>1, <2>2, <2>3, <2>4, ZenonT(30)
  <1>2. Inv'
    <2>1. Types /\ CallOK(c) /\ gen \in Nat
      BY DEF Inv, Types
    <2> USE <2>1
    <2>2. /\ Types' /\ Others(c) /\ Frozen /\ st[c].pc = "start" /\ st'[c].pc \in {"get", "select"}
          /\ ~st'[c].share /\ ~st'[c].counter /\ st'[c].del = {} /\ st'[c].owes = {} /\ st'[c].snap = 0
      BY <1>1
    <2>3. Light(c)
      BY <2>2 DEF Light, Free, Frozen, CallOK
    <2> QED BY <2>2, <2>3, LightStep DEF Reading
  <1>3. Shape'
    <2>1. /\ Others(c) /\ Frozen /\ UNCHANGED <<upper, flight>> /\ Op(c) \in Reads
          /\ st[c].pc = "start" /\ st'[c].pc \in {"get", "select"}
          /\ st'[c].perms = NoPerms /\ ~st'[c].done /\ ~st'[c].err /\ st'[c].wait = "none"
          /\ st'[c].before = {d \in Calls : Finished(d)}
      BY <1>1 DEF Inv
    <2>2. ShapeOK(c)'
      BY <2>1, ShapeSelf, ZenonT(30) DEF Frozen
    <2>3. ~st'[c].perms.member
      BY <2>1 DEF NoPerms
    <2>4. WindowOK(c)'
      BY <2>3 DEF WindowOK
    <2> QED BY <2>1, <2>2, <2>4, ShapeMove, ZenonT(30) DEF Frozen, Slotted
  <1>4. ASSUME Current PROVE Current'
    <2> USE <1>2, <1>4
    <2>1. /\ Others(c) /\ Frozen /\ UNCHANGED upper /\ Op(c) \in Reads
          /\ st'[c].pc \in {"get", "select"} /\ st'[c].fit
      BY <1>1 DEF Inv
    <2> QED BY <2>1, CurrentBlank DEF Frozen, Past
  <1>5. Others(c) /\ load' = load /\ NoFault /\ st[c].pc = "start" /\ st'[c].pc \in {"get", "select"}
    BY <1>1, ZenonT(30) DEF Frozen, NoFault
  <1> QED BY <1>2, <1>3, <1>4, <1>5, FullStep

\* The invariant is kept when the cache in front is asked (cache.Get).
LEMMA GetUpperKept == ASSUME Full, NEW c \in Calls, GetUpper(c) PROVE Full'
  <1>0. Inv /\ Shape /\ Types
    BY DEF Full, Inv
  <1> USE <1>0
  <1>1. /\ Types' /\ Others(c) /\ Frozen /\ UNCHANGED <<upper, flight, faults>>
        /\ st[c].pc = "get" /\ Same(st'[c], st[c]) /\ SameNotes(st'[c], st[c])
        /\ st'[c].snap = st[c].snap
        /\ LET e == upper[Place(c)][User(c)]
           IN  \/ /\ Live(e) /\ st'[c].pc = "end" /\ st'[c].readAt = now
                  /\ st'[c].perms = IF load.redis THEN Decoded(e.perms) ELSE e.perms
                  /\ st'[c].err = st[c].err /\ st'[c].wait = "none"
                  /\ st'[c].fit <=> \/ st[c].err
                                    \/ \E v \in Due(c, now) : View(st'[c].perms) \in Shown(v)
               \/ /\ st'[c].pc = "select" /\ SameRead(st'[c], st[c]) /\ SameEnd(st'[c], st[c])
    <2> DEFINE e == upper[Place(c)][User(c)]
               m == IF load.redis THEN Decoded(e.perms) ELSE e.perms
               r == st[c]
               rec == [r EXCEPT !.perms = m, !.readAt = now]
    <2>1. r \in CallState /\ st[c].pc = "get" /\ now \in Nat
      BY LoadFacts DEF Types, GetUpper, At
    <2>2. m \in PermsType
      <3>1. e \in EntryType
        BY <2>1, LoadFacts DEF Types
      <3> QED BY <3>1 DEF EntryType, PermsType, Decoded, Coded, Grants
    <2>3. (Live(e) /\ Answer(c, rec)) \/ Goto(c, "select")
      BY DEF GetUpper
    <2>4. Frozen /\ UNCHANGED <<upper, flight, faults>> /\ NoFault
      BY DEF GetUpper, Rest, tables, shared, NoFault, Frozen
    <2> HIDE DEF m, r
    <2>5. /\ rec \in CallState /\ Same(rec, r) /\ SameNotes(rec, r) /\ rec.snap = r.snap
          /\ rec.perms = m /\ rec.readAt = now /\ rec.err = r.err
      BY <2>1, <2>2, Zenon DEF CallState, Same, SameNotes
    <2> HIDE DEF rec, e
    <2>6. CASE Live(e) /\ Answer(c, rec)
      <3> USE <2>5
      <3>1. /\ st' \in [Calls -> CallState] /\ Others(c) /\ st'[c].pc = "end"
            /\ Same(st'[c], rec) /\ SameRead(st'[c], rec) /\ SameNotes(st'[c], rec)
            /\ st'[c].err = rec.err /\ st'[c].wait = "none"
            /\ st'[c].fit <=> rec.err \/ \E v \in Due(c, rec.readAt) : View(rec.perms) \in Shown(v)
        BY <2>1, <2>6, AnswerFacts DEF Types
      <3> USE <3>1
      <3>2. Types'
        BY <2>4, LightTypes DEF Types, Frozen
      <3>3. /\ Same(st'[c], st[c]) /\ SameNotes(st'[c], st[c]) /\ st'[c].snap = st[c].snap
            /\ st'[c].readAt = now /\ st'[c].perms = m /\ st'[c].err = st[c].err
        BY ZenonT(30) DEF Same, SameNotes, SameRead, r
      <3>4. st'[c].fit <=> st[c].err \/ \E v \in Due(c, now) : View(st'[c].perms) \in Shown(v)
        BY <3>3 DEF r
      <3> QED BY <2>1, <2>4, <2>6, <3>2, <3>3, <3>4, Zenon DEF e, m
    <2>7. CASE Goto(c, "select")
      <3>1. /\ st' \in [Calls -> CallState] /\ Others(c) /\ st'[c].pc = "select"
            /\ Same(st'[c], st[c]) /\ SameRead(st'[c], st[c]) /\ SameNotes(st'[c], st[c])
            /\ SameEnd(st'[c], st[c])
        BY <2>7, GotoFacts DEF Types, Stages, SameEnd
      <3>2. Types'
        BY <2>4, <3>1, LightTypes DEF Types, Frozen
      <3> QED BY <2>1, <2>4, <3>1, <3>2, ZenonT(30) DEF SameRead
    <2> QED BY <2>3, <2>6, <2>7, Zenon
  <1>2. Inv'
    <2>1. /\ Types' /\ Others(c) /\ Frozen /\ st[c].pc = "get" /\ Same(st'[c], st[c])
          /\ st'[c].snap = st[c].snap /\ st'[c].pc \in {"end", "select"}
      BY <1>1, ZenonT(30) DEF Inv
    <2> QED BY <2>1, MoveInv, ZenonT(30) DEF Reading
  <1>3. Shape'
    <2> DEFINE e == upper[Place(c)][User(c)]
               Hit == /\ Live(e) /\ st'[c].pc = "end" /\ st'[c].readAt = now
                      /\ st'[c].perms = IF load.redis THEN Decoded(e.perms) ELSE e.perms
                      /\ st'[c].wait = "none"
               Miss == /\ st'[c].pc = "select" /\ SameRead(st'[c], st[c]) /\ SameEnd(st'[c], st[c])
    <2>1. /\ Others(c) /\ Frozen /\ UNCHANGED <<upper, flight>> /\ st[c].pc = "get"
          /\ SameNotes(st'[c], st[c]) /\ (Hit \/ Miss)
      BY <1>1, Zenon DEF Inv
    <2>2. ShapeOK(c) /\ WindowOK(c) /\ Place(c) \in Places /\ User(c) \in Users
          /\ now \in Nat /\ load.until[User(c)] \in Nat
      <3>1. ShapeOK(c) /\ WindowOK(c) /\ Types /\ load \in Loads
        BY Zenon DEF Shape, Inv, Types
      <3>2. Place(c) \in Places /\ User(c) \in Users /\ load.until[User(c)] \in Nat
        BY <3>1, LoadFacts
      <3>3. now \in Nat
        BY <3>1, LoadFacts DEF Types
      <3> QED BY <3>1, <3>2, <3>3
    <2>3. ShapeOK(c)'
      <3>1. Op(c) \in Reads /\ ~st[c].done /\ (st'[c].pc = "select" => ~st'[c].err)
        BY <2>1, <2>2, Zenon DEF ShapeOK, Reading, SameEnd
      <3>2. st'[c].wait \in {st[c].wait, "none"} /\ st'[c].pc \in {"end", "select"}
        BY <2>1 DEF SameEnd
      <3>3. ~st'[c].done /\ st'[c].before = st[c].before
        BY <2>1, <3>1 DEF SameNotes
      <3> QED BY <2>1, <3>1, <3>2, <3>3, ShapeSelf, Zenon DEF Frozen, Reading
    <2>4. WindowOK(c)'
      <3>1. CASE Hit
        <4>1. UpperOK(Place(c), User(c)) /\ User(c)' = User(c) /\ load' = load
          BY <2>1, <2>2, Rigid, ZenonT(30) DEF Shape, Frozen
        <4>2. e \in EntryType
          BY <2>2, ZenonT(30) DEF Inv, Types
        <4>3. ~load.redis => e.some /\ now <= e.exp /\ e.exp \in Nat
          BY <3>1, <4>2 DEF Live, EntryType
        <4>4. ~load.redis /\ e.perms.member =>
                  e.exp <= load.until[User(c)] /\ e.perms.exp <= load.until[User(c)]
          BY <4>1, <4>3, Zenon DEF UpperOK
        <4>5. ~load.redis => st'[c].perms = e.perms /\ st'[c].readAt = now
          BY <3>1, Zenon
        <4> HIDE DEF e
        <4>6. ~load.redis /\ e.perms.member => now <= load.until[User(c)]
          BY <2>2, <4>3, <4>4
        <4> QED BY <4>1, <4>4, <4>5, <4>6, ZenonT(30) DEF WindowOK
      <3>2. CASE Miss
        BY <2>1, <3>2, WindowSelf, ZenonT(30) DEF Frozen, SameRead
      <3> QED BY <2>1, <3>1, <3>2, ZenonT(30)
    <2> QED BY <2>1, <2>3, <2>4, ShapeMove, ZenonT(30) DEF Frozen, Slotted
  <1>4. ASSUME Quiet, Current PROVE Current'
    <2> USE <1>2, <1>4
    <2> DEFINE e == upper[Place(c)][User(c)]
               m == IF load.redis THEN Decoded(e.perms) ELSE e.perms
               Hit == /\ Live(e) /\ st'[c].pc = "end" /\ st'[c].readAt = now /\ st'[c].perms = m
                      /\ st'[c].fit <=> \/ st[c].err
                                        \/ \E v \in Due(c, now) : View(st'[c].perms) \in Shown(v)
               Miss == st'[c].pc = "select" /\ st'[c].fit = st[c].fit
    <2>1. /\ Others(c) /\ Frozen /\ UNCHANGED upper /\ st[c].pc = "get" /\ (Hit \/ Miss)
      BY <1>1, Zenon DEF Inv, SameEnd
    <2>2. Op(c) \in Reads
      BY <2>1, ReadersActive, ZenonT(30) DEF Reading
    <2>3. CASE Miss
      BY <2>1, <2>2, <2>3, CurrentBlank, ZenonT(30) DEF Frozen, Past
    <2>4. CASE Hit
      <3>1. /\ Place(c) \in Places /\ User(c) \in Users /\ now \in Nat /\ load.until[User(c)] \in Nat
            /\ e \in EntryType /\ e.perms \in PermsType /\ e.exp \in Nat /\ Types
            /\ MaxTime \in Nat /\ now <= MaxTime
        <4>1. Types /\ load \in Loads /\ Place(c) \in Places /\ User(c) \in Users
          BY LoadFacts, ZenonT(30) DEF Inv, Types
        <4> USE <4>1
        <4>2. e \in EntryType
          BY DEF Types
        <4>3. now \in Nat /\ MaxTime \in Nat /\ now <= MaxTime
          BY LoadFacts DEF Types
        <4> QED BY <4>2, <4>3, LoadFacts DEF EntryType
      <3> USE <3>1
      <3>2. e.some
        BY <2>4, ZenonT(30) DEF Live
      <3>3. Sound(User(c), e.perms)
        BY <2>1, <3>2, NothingOwed, Zenon DEF Current, Reading
      <3>4. Sound(User(c), m) /\ m \in PermsType /\ m.member = e.perms.member
        BY <3>3, DecodedSound, Zenon
      <3>5. m.member => now <= load.until[User(c)]
        <4>1. CASE load.redis
          BY <4>1 DEF Quiet
        <4>2. CASE ~load.redis
          <5>1. now <= e.exp
            BY <2>4, <4>2, ZenonT(30) DEF Live
          <5>2. m.member => e.exp <= load.until[User(c)]
            BY <3>2, <3>4, <4>2, Zenon DEF Shape, UpperOK
          <5> QED BY <5>1, <5>2
        <4> QED BY <4>1, <4>2
      <3>6. \E v \in Due(c, now) : View(m) \in Shown(v)
        BY <3>4, <3>5, SoundFits, Zenon
      <3> HIDE DEF m
      <3> QED BY <2>1, <2>2, <2>4, <3>4, <3>6, CurrentReader, Zenon DEF Frozen
    <2> QED BY <2>1, <2>3, <2>4, ZenonT(30)
  <1>5. Others(c) /\ load' = load /\ NoFault /\ st'[c].before = st[c].before
        /\ st'[c].pc \in {"end", "select"}
    BY <1>1, Zenon DEF Frozen, NoFault, SameNotes
  <1> QED BY <1>2, <1>3, <1>4, <1>5, FullStep

\* The invariant is kept when the row is selected (GetCachedPermissions).
LEMMA GetCachedKept == ASSUME Full, NEW c \in Calls, GetCachedPermissions(c) PROVE Full'
  <1>0. Inv /\ Shape /\ Types
    BY DEF Full, Inv
  <1> USE <1>0
  <1>1. /\ Types' /\ Others(c) /\ Frozen /\ UNCHANGED <<upper, flight>> /\ (Fault \/ NoFault)
        /\ st[c].pc = "select" /\ Same(st'[c], st[c]) /\ SameNotes(st'[c], st[c])
        /\ st'[c].snap = st[c].snap
        /\ \/ /\ rows[User(c)].some /\ now < rows[User(c)].exp
              /\ st'[c].pc = "store" /\ st'[c].perms = Decoded(rows[User(c)].perms)
              /\ st'[c].readAt = now /\ SameEnd(st'[c], st[c])
           \/ st'[c].pc = "claim" /\ SameRead(st'[c], st[c]) /\ SameEnd(st'[c], st[c])
           \/ /\ st'[c].pc = "end" /\ SameRead(st'[c], st[c])
              /\ st'[c].err /\ st'[c].fit = st[c].fit /\ st'[c].wait = "none"
    <2> DEFINE e == rows[User(c)]
               m == Decoded(e.perms)
    <2>1. st[c].pc = "select" /\ now \in Nat /\ Frozen /\ UNCHANGED <<upper, flight>>
      BY LoadFacts DEF Types, GetCachedPermissions, At, Frozen, Rest, tables, shared
    <2>2. m \in PermsType
      <3>1. e \in EntryType
        BY LoadFacts DEF Types
      <3> QED BY <3>1 DEF EntryType, PermsType, Decoded, Coded, Grants
    <2>3. \/ /\ e.some /\ now < e.exp /\ NoFault
             /\ Set(c, [st[c] EXCEPT !.pc = "store", !.perms = m, !.ok = TRUE, !.readAt = now])
          \/ NoFault /\ Goto(c, "claim")
          \/ Fault /\ AnswerError(c)
      BY DEF GetCachedPermissions
    <2> HIDE DEF m
    <2>5. CASE /\ e.some /\ now < e.exp /\ NoFault
               /\ Set(c, [st[c] EXCEPT !.pc = "store", !.perms = m, !.ok = TRUE, !.readAt = now])
      <3> USE <2>1, <2>5
      <3>1. "store" \in Stages /\ Set(c, [st[c] EXCEPT !.pc = "store", !.perms = m, !.ok = TRUE, !.readAt = now])
        BY DEF Stages
      <3>2. /\ st' \in [Calls -> CallState] /\ Others(c) /\ st'[c].pc = "store"
            /\ st'[c].perms = m /\ st'[c].readAt = now /\ st'[c].snap = st[c].snap
            /\ Same(st'[c], st[c]) /\ SameNotes(st'[c], st[c]) /\ SameEnd(st'[c], st[c])
        <4> USE <2>2, <3>1
        <4> DEFINE s == st[c]
                   yes == TRUE
                   rec == [s EXCEPT !.pc = "store", !.perms = m, !.ok = yes, !.readAt = now]
        <4>1. s \in CallState /\ Set(c, rec) /\ yes \in BOOLEAN /\ yes
          BY DEF Types
        <4> USE <4>1
        <4> HIDE DEF s, yes
        <4>2. rec \in CallState
          BY Zenon DEF CallState, Stages
        <4>3. /\ rec.pc = "store" /\ rec.perms = m /\ rec.readAt = now /\ Same(rec, s)
              /\ rec.snap = s.snap /\ rec.known = s.known /\ SameNotes(rec, s)
              /\ rec.err = s.err /\ rec.fit = s.fit /\ rec.wait = s.wait
          BY DEF CallState, Same, SameNotes
        <4> HIDE DEF rec
        <4>4. st' \in [Calls -> CallState] /\ st'[c] = rec /\ Others(c)
          BY <4>2, SetFacts DEF Types
        <4> QED BY <4>3, <4>4 DEF s, SameEnd
      <3>3. Types'
        BY <3>2, LightTypes DEF Types, Frozen
      <3> QED BY <3>2, <3>3 DEF m
    <2>6. CASE NoFault /\ Goto(c, "claim")
      <3> USE <2>6
      <3>1. /\ st' \in [Calls -> CallState] /\ Others(c) /\ st'[c].pc = "claim"
            /\ Same(st'[c], st[c]) /\ SameRead(st'[c], st[c]) /\ SameNotes(st'[c], st[c])
            /\ SameEnd(st'[c], st[c])
        BY GotoFacts DEF Types, Stages, SameEnd
      <3>2. Types'
        BY <2>1, <3>1, LightTypes DEF Types, Frozen
      <3> QED BY <2>1, <3>1, <3>2, Zenon DEF SameRead
    <2>7. CASE Fault /\ AnswerError(c)
      <3> USE <2>7
      <3>1. /\ st' \in [Calls -> CallState] /\ Others(c) /\ st'[c].pc = "end"
            /\ Same(st'[c], st[c]) /\ SameRead(st'[c], st[c]) /\ SameNotes(st'[c], st[c])
            /\ st'[c].err /\ st'[c].fit = st[c].fit /\ st'[c].wait = "none"
        BY AnswerErrorFacts DEF Types
      <3>2. Types'
        BY <2>1, <3>1, LightTypes DEF Types, Frozen
      <3> QED BY <2>1, <3>1, <3>2, Zenon DEF SameRead
    <2> QED BY <2>3, <2>5, <2>6, <2>7
  <1>2. Inv'
    <2>1. /\ Types' /\ Others(c) /\ Frozen /\ st[c].pc = "select" /\ Same(st'[c], st[c])
          /\ st'[c].snap = st[c].snap /\ st'[c].pc \in {"store", "claim", "end"}
      BY <1>1 DEF Inv
    <2> QED BY <2>1, MoveInv DEF Reading
  <1>3. Shape'
    <2> DEFINE e == rows[User(c)]
               Hit == /\ e.some /\ now < e.exp /\ st'[c].pc = "store"
                      /\ st'[c].perms = Decoded(e.perms) /\ st'[c].readAt = now
                      /\ SameEnd(st'[c], st[c])
               Miss == /\ SameRead(st'[c], st[c]) /\ st'[c].wait \in {st[c].wait, "none"}
                       /\ \/ st'[c].pc = "claim" /\ st'[c].err = st[c].err
                          \/ st'[c].pc = "end"
    <2>1. /\ Others(c) /\ Frozen /\ UNCHANGED <<upper, flight>> /\ st[c].pc = "select"
          /\ SameNotes(st'[c], st[c]) /\ (Hit \/ Miss)
      BY <1>1, Zenon DEF Inv, SameEnd
    <2>2. ShapeOK(c) /\ User(c) \in Users /\ Types
      BY LoadFacts, Zenon DEF Shape, Inv, Types
    <2>3. ShapeOK(c)'
      <3> USE <2>1
      <3>1. Op(c) \in Reads /\ ~st[c].done /\ ~st[c].err
        BY <2>2, Zenon DEF ShapeOK, Reading
      <3> USE <3>1
      <3>2. st'[c].wait \in {st[c].wait, "none"} /\ st'[c].pc \in {"store", "claim", "end"}
            /\ (st'[c].pc # "end" => ~st'[c].err)
        BY Zenon DEF SameEnd
      <3>3. ~st'[c].done /\ st'[c].before = st[c].before
        BY DEF SameNotes
      <3> QED BY <3>2, <3>3, ShapeSelf, Zenon DEF Frozen, Reading
    <2>4. WindowOK(c)'
      <3>1. CASE Hit
        <4>1. RowWindow(User(c)) /\ RowOK(User(c)) /\ User(c)' = User(c) /\ load' = load
          BY <2>1, <2>2, Rigid DEF Shape, Frozen, Inv
        <4>2. e \in EntryType /\ now \in Nat /\ load.until[User(c)] \in Nat
          <5>1. e \in EntryType
            BY <2>2 DEF Types
          <5>0. load \in Loads
            BY <2>2, Zenon DEF Types
          <5>2. load.until[User(c)] \in Nat
            BY <5>0, LoadFacts
          <5>3. now \in Nat
            BY <2>2, LoadFacts DEF Types
          <5> QED BY <5>1, <5>2, <5>3
        <4>3. e.exp = e.perms.exp /\ e.perms.exp \in Nat /\ e.perms \in PermsType
          BY <3>1, <4>1, <4>2, Zenon DEF RowOK, EntryType, PermsType
        <4>4. Decoded(e.perms).member = e.perms.member /\ Decoded(e.perms).exp = e.perms.exp
          BY <4>3 DEF Decoded, PermsType
        <4>5. ~load.redis /\ e.perms.member => e.perms.exp <= load.until[User(c)]
          BY <3>1, <4>1, Zenon DEF RowWindow
        <4>6. now < e.perms.exp /\ st'[c].perms = Decoded(e.perms) /\ st'[c].readAt = now
          BY <3>1, <4>3, Zenon
        <4> HIDE DEF e
        <4>7. ~load.redis /\ e.perms.member => now <= load.until[User(c)]
          <5> SUFFICES ASSUME ~load.redis /\ e.perms.member PROVE now <= load.until[User(c)]
            OBVIOUS
          <5>1. PICK x \in Nat : x = e.perms.exp
            BY <4>3, Zenon
          <5>2. PICK y \in Nat : y = load.until[User(c)]
            BY <4>2, Zenon
          <5>3. now < x /\ x <= y
            BY <4>5, <4>6, <5>1, <5>2, Zenon
          <5>4. now <= y
            BY <4>2, <5>3
          <5> QED BY <5>2, <5>4, Zenon
        <4> QED BY <4>1, <4>4, <4>5, <4>6, <4>7 DEF WindowOK
      <3>2. CASE Miss
        BY <2>1, <3>2, WindowSelf DEF Frozen, SameRead
      <3> QED BY <2>1, <3>1, <3>2
    <2> QED BY <2>1, <2>3, <2>4, ShapeMove DEF Frozen, Slotted
  <1>4. ASSUME Quiet, Current PROVE Current'
    <2> USE <1>2, <1>4
    <2> DEFINE e == rows[User(c)]
               m == Decoded(e.perms)
               Hit == /\ e.some /\ now < e.exp /\ st'[c].pc = "store" /\ st'[c].perms = m
                      /\ st'[c].readAt = now
               Miss == st'[c].pc = "claim" \/ (st'[c].pc = "end" /\ st'[c].err)
    <2>1. /\ Others(c) /\ Frozen /\ UNCHANGED upper /\ st[c].pc = "select" /\ st'[c].fit = st[c].fit
          /\ (Hit \/ Miss)
      BY <1>1, Zenon DEF Inv, SameEnd
    <2>2. Op(c) \in Reads /\ st'[c].fit
      BY <2>1, ReadersActive, Zenon DEF Reading, Current
    <2>3. CASE Miss
      BY <2>1, <2>2, <2>3, CurrentBlank DEF Frozen, Past
    <2>4. CASE Hit
      <3>1. /\ User(c) \in Users /\ now \in Nat /\ load.until[User(c)] \in Nat
            /\ e \in EntryType /\ e.perms \in PermsType /\ e.exp \in Nat /\ e.perms.exp \in Nat /\ Types
        <4>1. Types /\ load \in Loads /\ User(c) \in Users
          BY LoadFacts, Zenon DEF Inv, Types
        <4>2. e \in EntryType
          BY <4>1 DEF Types
        <4>3. now \in Nat /\ load.until[User(c)] \in Nat
          BY <4>1, LoadFacts DEF Types
        <4> HIDE DEF e
        <4>4. e.perms \in PermsType /\ e.exp \in Nat
          BY <4>2 DEF EntryType
        <4>5. e.perms.exp \in Nat
          BY <4>4 DEF PermsType
        <4> QED BY <4>1, <4>2, <4>3, <4>4, <4>5
      <3> USE <3>1
      <3>2. e.exp = e.perms.exp /\ Right(User(c), e.perms)
        BY <2>1, <2>4, NothingOwed, Zenon DEF Inv, RowOK, Reading
      <3>3. e.perms.member => now < load.until[User(c)]
        BY <2>4, <3>2 DEF Right
      <3>4. e.perms.member => 0 < load.until[User(c)]
        BY <3>3
      <3>5. Sound(User(c), e.perms)
        BY <3>2, <3>4 DEF Right, Sound
      <3>6. Sound(User(c), m) /\ m \in PermsType /\ m.member = e.perms.member
        BY <3>5, DecodedSound
      <3> USE <3>6
      <3>7. m.member => now <= load.until[User(c)]
        BY <3>3
      <3>8. \E v \in Due(c, now) : View(m) \in Shown(v)
        BY <3>7, SoundFits
      <3> HIDE DEF m
      <3> QED BY <2>1, <2>2, <2>4, <3>8, CurrentReader, Zenon DEF Frozen
    <2> QED BY <2>1, <2>3, <2>4
  <1>5. Others(c) /\ load' = load /\ (Fault \/ NoFault) /\ st'[c].before = st[c].before
        /\ st'[c].pc \in {"store", "claim", "end"}
    BY <1>1 DEF Frozen, SameNotes
  <1> QED BY <1>2, <1>3, <1>4, <1>5, FullStep, ZenonT(30)

\* The invariant is kept when a computation is joined or begun (resolveCacheable).
LEMMA ClaimKept == ASSUME Full, NEW c \in Calls, Claim(c) PROVE Full'
  <1>0. Inv /\ Shape /\ Types
    BY DEF Full, Inv
  <1> USE <1>0
  <1>1. /\ Types' /\ Others(c) /\ Frozen /\ UNCHANGED <<upper, faults>>
        /\ st[c].pc = "claim" /\ Same(st'[c], st[c]) /\ SameRead(st'[c], st[c])
        /\ st'[c].done = st[c].done /\ st'[c].before = st[c].before
        /\ st'[c].err = st[c].err /\ st'[c].fit = st[c].fit
        /\ \/ /\ st'[c].pc = "wait" /\ st'[c].wait = flight[Home(c)][User(c)]
              /\ st'[c].wait # "none" /\ flight' = flight
           \/ /\ st'[c].pc = "snapshot" /\ st'[c].wait = st[c].wait /\ flight' = flight
           \/ /\ st'[c].pc = "snapshot" /\ st'[c].wait = st[c].wait /\ st'[c].own
              /\ flight' = [flight EXCEPT ![Home(c)][User(c)] = c]
    <2> DEFINE slot == flight[Home(c)][User(c)]
    <2>1. st[c].pc = "claim" /\ Frozen /\ UNCHANGED <<upper, faults>> /\ NoFault
      BY DEF Claim, At, Frozen, Rest, tables, shared, NoFault
    <2>2. slot \in Calls \cup {"none"}
      BY LoadFacts DEF Types
    <2>3. \/ slot # "none" /\ Set(c, [st[c] EXCEPT !.pc = "wait", !.wait = slot]) /\ UNCHANGED flight
          \/ Goto(c, "snapshot") /\ UNCHANGED flight
          \/ /\ flight' = [flight EXCEPT ![Home(c)][User(c)] = c] /\ Set(c, [st[c] EXCEPT !.pc = "snapshot", !.own = TRUE])
      BY DEF Claim
    <2>4. "wait" \in Stages /\ "snapshot" \in Stages /\ st \in [Calls -> CallState]
      BY DEF Stages, Types
    <2> HIDE DEF slot
    <2>5. CASE slot # "none" /\ Set(c, [st[c] EXCEPT !.pc = "wait", !.wait = slot]) /\ UNCHANGED flight
      <3> USE <2>5
      <3>1. /\ st' \in [Calls -> CallState] /\ Others(c) /\ st'[c].pc = "wait" /\ st'[c].wait = slot
            /\ Same(st'[c], st[c]) /\ SameRead(st'[c], st[c]) /\ SameNotes(st'[c], st[c])
            /\ st'[c].err = st[c].err /\ st'[c].fit = st[c].fit
        <4> USE <2>2, <2>4
        <4> DEFINE s == st[c]
                   rec == [s EXCEPT !.pc = "wait", !.wait = slot]
        <4>1. s \in CallState /\ Set(c, rec)
          BY DEF Types
        <4> USE <4>1
        <4> HIDE DEF s
        <4>2. rec \in CallState
          BY Zenon DEF CallState, Stages
        <4>3. /\ rec.pc = "wait" /\ rec.wait = slot /\ Same(rec, s) /\ SameRead(rec, s)
              /\ SameNotes(rec, s) /\ rec.err = s.err /\ rec.fit = s.fit
          BY DEF CallState, Same, SameRead, SameNotes
        <4> HIDE DEF rec
        <4>4. st' \in [Calls -> CallState] /\ st'[c] = rec /\ Others(c)
          BY <4>2, SetFacts DEF Types
        <4> QED BY <4>3, <4>4 DEF s
      <3>2. Types'
        BY <2>1, <3>1, LightTypes DEF Types, Frozen
      <3> QED BY <2>1, <3>1, <3>2 DEF SameNotes, slot
    <2>6. CASE Goto(c, "snapshot") /\ UNCHANGED flight
      <3> USE <2>6
      <3>1. /\ st' \in [Calls -> CallState] /\ Others(c) /\ st'[c].pc = "snapshot"
            /\ Same(st'[c], st[c]) /\ SameRead(st'[c], st[c]) /\ SameNotes(st'[c], st[c])
            /\ st'[c].err = st[c].err /\ st'[c].fit = st[c].fit /\ st'[c].wait = st[c].wait
        BY <2>4, GotoFacts
      <3>2. Types'
        BY <2>1, <3>1, LightTypes DEF Types, Frozen
      <3> QED BY <2>1, <3>1, <3>2 DEF SameNotes
    <2>7. CASE flight' = [flight EXCEPT ![Home(c)][User(c)] = c] /\ Set(c, [st[c] EXCEPT !.pc = "snapshot", !.own = TRUE])
      <3> USE <2>7
      <3>1. /\ st' \in [Calls -> CallState] /\ Others(c) /\ st'[c].pc = "snapshot"
            /\ st'[c].own /\ Same(st'[c], st[c]) /\ SameRead(st'[c], st[c])
            /\ st'[c].done = st[c].done /\ st'[c].before = st[c].before
            /\ st'[c].err = st[c].err /\ st'[c].fit = st[c].fit /\ st'[c].wait = st[c].wait
        <4> USE <2>4
        <4> DEFINE s == st[c]
                   yes == TRUE
                   rec == [s EXCEPT !.pc = "snapshot", !.own = yes]
        <4>1. s \in CallState /\ Set(c, rec) /\ yes \in BOOLEAN /\ yes
          BY DEF Types
        <4> USE <4>1
        <4> HIDE DEF s, yes
        <4>2. rec \in CallState
          BY Zenon DEF CallState, Stages
        <4>3. /\ rec.pc = "snapshot" /\ rec.own /\ Same(rec, s) /\ SameRead(rec, s)
              /\ rec.done = s.done /\ rec.before = s.before /\ rec.err = s.err
              /\ rec.fit = s.fit /\ rec.wait = s.wait
          BY DEF CallState, Same, SameRead
        <4> HIDE DEF rec
        <4>4. st' \in [Calls -> CallState] /\ st'[c] = rec /\ Others(c)
          BY <4>2, SetFacts DEF Types
        <4> QED BY <4>3, <4>4 DEF s
      <3>2. flight' \in [Replicas -> [Users -> Calls \cup {"none"}]]
        BY LoadFacts DEF Types
      <3>3. Types'
        BY <2>1, <3>1, <3>2, LightTypes DEF Types, Frozen
      <3> QED BY <2>1, <3>1, <3>3
    <2> QED BY <2>3, <2>5, <2>6, <2>7
  <1>2. Inv'
    <2>1. /\ Types' /\ Others(c) /\ Frozen /\ st[c].pc = "claim" /\ Same(st'[c], st[c])
          /\ st'[c].snap = st[c].snap /\ st'[c].pc \in {"wait", "snapshot"}
      BY <1>1 DEF Inv, SameRead
    <2> QED BY <2>1, MoveInv DEF Reading
  <1>3. Shape'
    <2> DEFINE Wait == /\ st'[c].pc = "wait" /\ st'[c].wait = flight[Home(c)][User(c)]
                       /\ st'[c].wait # "none" /\ flight' = flight
               Alone == st'[c].pc = "snapshot" /\ st'[c].wait = st[c].wait /\ flight' = flight
               Own == /\ st'[c].pc = "snapshot" /\ st'[c].wait = st[c].wait /\ st'[c].own
                      /\ flight' = [flight EXCEPT ![Home(c)][User(c)] = c]
    <2>1. /\ Others(c) /\ Frozen /\ UNCHANGED upper /\ st[c].pc = "claim" /\ SameRead(st'[c], st[c])
          /\ st'[c].done = st[c].done /\ st'[c].before = st[c].before /\ st'[c].err = st[c].err
          /\ (Wait \/ Alone \/ Own)
      BY <1>1 DEF Inv
    <2>2. ShapeOK(c) /\ User(c) \in Users /\ Home(c) \in Replicas /\ Types
      BY LoadFacts DEF Shape, Inv, Types
    <2>3. Op(c) \in Reads /\ ~st[c].done /\ ~st[c].err
      BY <2>1, <2>2 DEF ShapeOK, Reading
    <2>4. WindowOK(c)'
      BY <2>1, WindowSelf DEF Frozen, SameRead
    <2>5. CASE Wait
      <3>0. flight[Home(c)][User(c)] \in Calls \cup {"none"}
        BY <2>2 DEF Types
      <3>1. PICK w \in Calls : w = flight[Home(c)][User(c)]
        BY <2>5, <3>0, Zenon
      <3>2. User(w) = User(c) /\ Op(w) \in Reads
        BY <2>2, <2>5, <3>1, Zenon DEF Shape, FlightOK
      <3>3. User(w)' = User(w) /\ Op(w)' = Op(w) /\ User(c)' = User(c) /\ Op(c)' = Op(c)
        BY <2>1, Rigid DEF Frozen
      <3>4. st'[c].wait = w /\ w # "none" /\ st'[c].pc = "wait"
        BY <2>5, <3>1
      <3>5. \A d \in st'[c].before : Finished(d)'
        <4>1. st[c].before \subseteq Calls
          BY <2>2 DEF Types, CallState
        <4> QED BY <2>1, <2>2, <4>1 DEF ShapeOK, Finished, Others
      <3>6. ShapeOK(c)'
        BY <2>1, <2>3, <3>2, <3>3, <3>4, <3>5 DEF ShapeOK
      <3> QED BY <2>1, <2>4, <2>5, <3>6, ShapeMove DEF Frozen, Slotted
    <2>6. CASE Alone
      <3>1. ShapeOK(c)'
        BY <2>1, <2>3, <2>6, ShapeSelf DEF Frozen
      <3> QED BY <2>1, <2>4, <2>6, <3>1, ShapeMove DEF Frozen, Slotted
    <2>7. CASE Own
      <3>1. ShapeOK(c)'
        BY <2>1, <2>3, <2>7, ShapeSelf DEF Frozen
      <3>2. \A p \in Places, u \in Users : UpperOK(p, u)'
        BY <2>1, <2>7, UpperShrinks DEF Frozen
      <3>3. \A u \in Users : RowWindow(u)'
        BY <2>1, RowsShrink DEF Frozen
      <3>4. FlightOK'
        <4> SUFFICES ASSUME NEW r \in Replicas, NEW u \in Users, NEW d \in Calls, flight'[r][u] = d
                     PROVE  /\ User(d)' = u /\ Home(d)' = r /\ Op(d)' \in Reads
                            /\ st'[d].own /\ st'[d].pc \in Slotted
          <5>1. \A r \in Replicas, u \in Users : flight'[r][u] # "none" => flight'[r][u] \in Calls
            BY <2>2, <2>7 DEF Types
          <5> QED BY <5>1 DEF FlightOK
        <4>1. User(d)' = User(d) /\ Home(d)' = Home(d) /\ Op(d)' = Op(d)
          BY <2>1, Rigid DEF Frozen
        <4>2. CASE r = Home(c) /\ u = User(c)
          <5>1. d = c
            BY <2>2, <2>7, <4>2 DEF Types
          <5> QED BY <2>3, <2>7, <4>1, <4>2, <5>1 DEF Slotted
        <4>3. CASE ~(r = Home(c) /\ u = User(c))
          <5>1. flight[r][u] = d
            BY <2>2, <2>7, <4>3 DEF Types
          <5>2. flight[r][u] # "none"
            BY <5>1, PermissionCacheAssumption
          <5>3. User(d) = u /\ Home(d) = r /\ Op(d) \in Reads /\ st[d].own /\ st[d].pc \in Slotted
            BY <5>1, <5>2 DEF Shape, FlightOK
          <5>4. d # c
            BY <2>1, <5>3 DEF Slotted
          <5> QED BY <2>1, <4>1, <5>3, <5>4 DEF Others
        <4> QED BY <4>2, <4>3
      <3> QED BY <2>1, <2>4, <3>1, <3>2, <3>3, <3>4, ShapeStep DEF Frozen
    <2> QED BY <2>1, <2>5, <2>6, <2>7
  <1>4. ASSUME Current PROVE Current'
    <2> USE <1>2, <1>4
    <2>1. /\ Others(c) /\ Frozen /\ UNCHANGED upper /\ st[c].pc = "claim" /\ st'[c].fit = st[c].fit
          /\ \/ st'[c].pc = "wait" /\ st'[c].wait = flight[Home(c)][User(c)] /\ st'[c].wait # "none"
             \/ st'[c].pc = "snapshot"
      BY <1>1 DEF Inv
    <2> USE <2>1
    <2>2. Op(c) \in Reads /\ st'[c].fit
      BY ReadersActive, Zenon DEF Reading, Current
    <2>3. CASE st'[c].pc = "snapshot"
      BY <2>2, <2>3, CurrentBlank, Zenon DEF Frozen, Past
    <2>4. CASE st'[c].pc = "wait"
      <3>1. Home(c) \in Replicas /\ User(c) \in Users
        BY LoadFacts, Zenon DEF Inv, Types
      <3>2. ASSUME NEW d \in Calls, st'[c].wait = d PROVE Active(d)
        <4>1. st[d].pc \in Slotted
          BY <2>4, <3>1, <3>2, Zenon DEF Shape, FlightOK
        <4> QED BY <4>1 DEF Active, Slotted, Begun, Finished
      <3> QED BY <2>2, <2>4, <3>2, CurrentReader, Zenon DEF Frozen, Past
    <2> QED BY <2>3, <2>4
  <1>5. Others(c) /\ load' = load /\ NoFault /\ st'[c].before = st[c].before
        /\ st'[c].pc \in {"wait", "snapshot"}
    BY <1>1 DEF Frozen, NoFault
  <1> QED BY <1>2, <1>3, <1>4, <1>5, FullStep

\* The invariant is kept when a waiter leaves (awaitEntry).
LEMMA AwaitKept == ASSUME Full, NEW c \in Calls, Await(c) PROVE Full'
  <1>0. Inv /\ Shape /\ Types
    BY DEF Full, Inv
  <1> USE <1>0
  <1>w. st[c].wait # "none"
    BY DEF Await, At, Shape, ShapeOK
  <1> USE <1>w
  <1>1. /\ Types' /\ Others(c) /\ Frozen /\ UNCHANGED <<upper, flight>> /\ (Fault \/ NoFault)
        /\ st[c].pc = "wait" /\ Same(st'[c], st[c]) /\ SameNotes(st'[c], st[c])
        /\ st'[c].snap = st[c].snap /\ st'[c].fit = st[c].fit /\ st'[c].wait = "none"
        /\ \/ st'[c].pc = "end" /\ SameRead(st'[c], st[c]) /\ st'[c].err
           \/ st'[c].pc = "select" /\ SameRead(st'[c], st[c]) /\ st'[c].err = st[c].err
           \/ LET e == st[st[c].wait]
              IN  /\ e.done /\ ~e.err /\ st'[c].pc = "store" /\ st'[c].perms = e.perms
                  /\ st'[c].readAt = e.readAt /\ st'[c].err = st[c].err
    <2> DEFINE w == st[c].wait
               e == st[w]
    <2>1. st[c].pc = "wait" /\ Frozen /\ UNCHANGED <<upper, flight>> /\ st \in [Calls -> CallState]
      BY DEF Await, At, Frozen, Rest, tables, shared, Types
    <2> USE <2>1
    <2>2. w \in Calls
      BY DEF CallState
    <2>3. e.perms \in PermsType /\ e.readAt \in Nat
      BY <2>2 DEF CallState
    <2>4. /\ Fault \/ NoFault
          /\ \/ AnswerError(c)
             \/ Set(c, [st[c] EXCEPT !.pc = "select", !.retry = TRUE, !.wait = "none"])
             \/ e.done /\ ~e.err /\ Set(c, [st[c] EXCEPT !.pc = "store", !.perms = e.perms, !.ok = TRUE, !.readAt = e.readAt, !.wait = "none"])
      BY DEF Await
    <2>5. "select" \in Stages /\ "store" \in Stages /\ "none" \in Calls \cup {"none"}
      BY DEF Stages
    <2> HIDE DEF w, e
    <2>6. CASE AnswerError(c)
      <3>1. /\ st' \in [Calls -> CallState] /\ Others(c) /\ st'[c].pc = "end"
            /\ Same(st'[c], st[c]) /\ SameRead(st'[c], st[c]) /\ SameNotes(st'[c], st[c])
            /\ st'[c].err /\ st'[c].fit = st[c].fit /\ st'[c].wait = "none"
        BY <2>6, AnswerErrorFacts
      <3>2. Types'
        BY <2>4, <3>1, LightTypes DEF Types, Frozen
      <3> QED BY <2>4, <3>1, <3>2 DEF SameRead
    <2>7. CASE Set(c, [st[c] EXCEPT !.pc = "select", !.retry = TRUE, !.wait = "none"])
      <3>1. /\ st' \in [Calls -> CallState] /\ Others(c) /\ st'[c].pc = "select"
            /\ Same(st'[c], st[c]) /\ SameRead(st'[c], st[c]) /\ SameNotes(st'[c], st[c])
            /\ st'[c].err = st[c].err /\ st'[c].fit = st[c].fit /\ st'[c].wait = "none"
        <4> USE <2>5, <2>7
        <4> DEFINE s == st[c]
                   yes == TRUE
                   rec == [s EXCEPT !.pc = "select", !.retry = yes, !.wait = "none"]
        <4>1. s \in CallState /\ Set(c, rec) /\ yes \in BOOLEAN /\ yes
          BY DEF Types
        <4> USE <4>1
        <4> HIDE DEF s, yes
        <4>2. rec \in CallState
          BY Zenon DEF CallState, Stages
        <4>3. /\ rec.pc = "select" /\ rec.wait = "none" /\ Same(rec, s) /\ SameRead(rec, s)
              /\ SameNotes(rec, s) /\ rec.err = s.err /\ rec.fit = s.fit
          BY DEF CallState, Same, SameRead, SameNotes
        <4> HIDE DEF rec
        <4>4. st' \in [Calls -> CallState] /\ st'[c] = rec /\ Others(c)
          BY <4>2, SetFacts DEF Types
        <4> QED BY <4>3, <4>4 DEF s
      <3>2. Types'
        BY <2>4, <3>1, LightTypes DEF Types, Frozen
      <3> QED BY <2>4, <3>1, <3>2 DEF SameRead
    <2>8. CASE e.done /\ ~e.err /\ Set(c, [st[c] EXCEPT !.pc = "store", !.perms = e.perms, !.ok = TRUE, !.readAt = e.readAt, !.wait = "none"])
      <3> USE <2>8
      <3>1. /\ st' \in [Calls -> CallState] /\ Others(c) /\ st'[c].pc = "store"
            /\ st'[c].perms = e.perms /\ st'[c].readAt = e.readAt /\ st'[c].snap = st[c].snap
            /\ Same(st'[c], st[c]) /\ SameNotes(st'[c], st[c])
            /\ st'[c].err = st[c].err /\ st'[c].fit = st[c].fit /\ st'[c].wait = "none"
        <4> USE <2>3, <2>5
        <4> DEFINE s == st[c]
                   yes == TRUE
                   rec == [s EXCEPT !.pc = "store", !.perms = e.perms, !.ok = yes, !.readAt = e.readAt, !.wait = "none"]
        <4>1. s \in CallState /\ Set(c, rec) /\ yes \in BOOLEAN /\ yes
          BY DEF Types
        <4> USE <4>1
        <4> HIDE DEF s, yes
        <4>2. rec \in CallState
          BY Zenon DEF CallState, Stages
        <4>3. /\ rec.pc = "store" /\ rec.perms = e.perms /\ rec.readAt = e.readAt
              /\ rec.wait = "none" /\ Same(rec, s) /\ rec.snap = s.snap /\ rec.known = s.known
              /\ SameNotes(rec, s) /\ rec.err = s.err /\ rec.fit = s.fit
          BY DEF CallState, Same, SameNotes
        <4> HIDE DEF rec
        <4>4. st' \in [Calls -> CallState] /\ st'[c] = rec /\ Others(c)
          BY <4>2, SetFacts DEF Types
        <4> QED BY <4>3, <4>4 DEF s
      <3>2. Types'
        BY <2>4, <3>1, LightTypes DEF Types, Frozen
      <3> QED BY <2>4, <3>1, <3>2 DEF w, e
    <2> QED BY <2>4, <2>6, <2>7, <2>8
  <1>2. Inv'
    <2>1. /\ Types' /\ Others(c) /\ Frozen /\ st[c].pc = "wait" /\ Same(st'[c], st[c])
          /\ st'[c].snap = st[c].snap /\ st'[c].pc \in {"end", "select", "store"}
      BY <1>1, Zenon DEF Inv
    <2> QED BY <2>1, MoveInv DEF Reading
  <1>3. Shape'
    <2> DEFINE w == st[c].wait
               Take == /\ st[w].done /\ ~st[w].err /\ st'[c].pc = "store" /\ st'[c].perms = st[w].perms
                       /\ st'[c].readAt = st[w].readAt /\ st'[c].err = st[c].err
               Leave == /\ SameRead(st'[c], st[c])
                        /\ \/ st'[c].pc = "end" /\ st'[c].err
                           \/ st'[c].pc = "select" /\ st'[c].err = st[c].err
    <2>1. /\ Others(c) /\ Frozen /\ UNCHANGED <<upper, flight>> /\ st[c].pc = "wait"
          /\ SameNotes(st'[c], st[c]) /\ st'[c].wait = "none" /\ (Take \/ Leave)
      BY <1>1, Zenon DEF Inv
    <2> USE <2>1
    <2>2. ShapeOK(c) /\ w \in Calls
      BY DEF Shape, Inv, Types, CallState
    <2>3. ShapeOK(c)'
      <3>1. Op(c) \in Reads /\ ~st[c].done /\ ~st[c].err
        BY <2>2, Zenon DEF ShapeOK, Reading
      <3> USE <3>1
      <3>2. st'[c].pc \in {"store", "select", "end"} /\ (st'[c].pc # "end" => ~st'[c].err)
        OBVIOUS
      <3>3. ~st'[c].done /\ st'[c].before = st[c].before
        BY DEF SameNotes
      <3> QED BY <3>2, <3>3, ShapeSelf, Zenon DEF Frozen, Reading
    <2>4. WindowOK(c)'
      <3>1. CASE Take
        <4>1. WindowOK(w) /\ User(w) = User(c) /\ User(c)' = User(c) /\ load' = load
          BY <2>2, Rigid, Zenon DEF Shape, Frozen, ShapeOK
        <4> QED BY <3>1, <4>1 DEF WindowOK
      <3>2. CASE Leave
        BY <3>2, WindowSelf, Zenon DEF Frozen, SameRead
      <3> QED BY <3>1, <3>2, Zenon
    <2> QED BY <2>3, <2>4, ShapeMove, Zenon DEF Frozen, Slotted
  <1>4. ASSUME Current PROVE Current'
    <2> USE <1>2, <1>4
    <2> DEFINE w == st[c].wait
               Take == /\ st[w].done /\ ~st[w].err /\ st'[c].pc = "store" /\ st'[c].perms = st[w].perms
                       /\ st'[c].readAt = st[w].readAt
               Leave == (st'[c].pc = "end" /\ st'[c].err) \/ st'[c].pc = "select"
    <2>1. /\ Others(c) /\ Frozen /\ UNCHANGED upper /\ st[c].pc = "wait" /\ st'[c].fit = st[c].fit
          /\ (Take \/ Leave)
      BY <1>1, Zenon DEF Inv
    <2> USE <2>1
    <2>2. Op(c) \in Reads /\ st'[c].fit
      BY ReadersActive, Zenon DEF Reading, Current
    <2>3. CASE Leave
      BY <2>2, <2>3, CurrentBlank DEF Frozen, Past
    <2>4. CASE Take
      <3>1. w \in Calls /\ ShapeOK(c) /\ ShapeOK(w)
        BY DEF Shape, Inv, Types, CallState
      <3>2. User(w) = User(c) /\ Op(w) \in Reads /\ st[w].pc \in Past
        BY <2>4, <3>1, Zenon DEF ShapeOK, Past
      <3> USE <3>2
      <3>3. Waited(w)
        BY Zenon DEF Waited, At
      <3>4. FitAt(w) /\ Sound(User(w), st[w].perms)
        BY <2>4, <3>1, <3>3, Zenon DEF Current
      <3>5. Due(w, st[w].readAt) = Due(c, st[w].readAt)
        BY Zenon DEF Due
      <3>6. /\ \E v \in Due(c, st'[c].readAt) : View(st'[c].perms) \in Shown(v)
            /\ Sound(User(c), st'[c].perms)
        BY <2>4, <3>4, <3>5, Zenon DEF FitAt
      <3> QED BY <2>2, <2>4, <3>6, CurrentReader, Zenon DEF Frozen
    <2> QED BY <2>3, <2>4, Zenon
  <1>5. Others(c) /\ load' = load /\ (Fault \/ NoFault) /\ st'[c].before = st[c].before
        /\ st'[c].pc \in {"end", "select", "store"}
    BY <1>1 DEF Frozen, SameNotes
  <1> QED BY <1>2, <1>3, <1>4, <1>5, FullStep
=============================================================================
