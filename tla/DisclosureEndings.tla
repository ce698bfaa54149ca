-------------------------- MODULE DisclosureEndings ------------------------
(***************************************************************************)
(* Access ends: a read that begins after the end is not served, a request *)
(* that was revoked has no active grant, a rejected or revoked one is not  *)
(* approved again, and the subject and the administrators are listed what  *)
(* is there, for any number of requests, grants and handlers.              *)
(*                                                                         *)
(* None of this is inductive: a revocation, an approval and a read are     *)
(* each several statements long.  The invariant Endings says that the      *)
(* decisions on a request do not overlap, that a read which began too late *)
(* has a check ahead of it that stops it, and what a revocation has found  *)
(* of the request's grants at each of its statements.                      *)
(***************************************************************************)
EXTENDS DisclosureProofs, DisclosureLists

USE ZenonT(10), SMTT(30), SMTT(40)

\* Operations that decide on a request, and at most one of them at a time.
Deciders == {"approve", "reject", "revoke"}

OneDecider ==
    \A h, k \in Handlers :
        /\ handlers[h].op \in Deciders /\ handlers[k].op \in Deciders
        /\ handlers[h].request = handlers[k].request
        => h = k

\* Where decisions do not overlap: what is being approved or rejected is still pending,
\* and what was revoked stays so.
Serial ==
    /\ OneDecider
    /\ \A h \in Handlers : handlers[h].op \in {"approve", "reject"} =>
          requests[handlers[h].request].status \in {"pending", "deleted"}
    /\ \A h \in Handlers : handlers[h].op = "revoke" => requests[handlers[h].request].status # "none"
    /\ \A r \in ended : requests[r].status \in {"revoked", "deleted"}

\* A late read is stopped by one of the checks that are still ahead of it.
LateOK(do) ==
    do.late =>
      /\ do.op \in Routes
      /\ \/ do.at = "request" /\ (~IsActive(do.row) \/ ~member \/ do.request \in ended)
         \/ do.at = "member" /\ (~IsActive(do.row) \/ ~member)

\* g is a stored grant of r.
GrantOf(g, r) == Live(g) /\ grants[g].request = r
NoneActive(r) == \A g \in Grants : GrantOf(g, r) => ~IsActive(grants[g])

\* Where, moreover, no statement fails: a request has at most one grant, and none before
\* it is approved but while the approval is being written; a revocation has found it.
Settled ==
    /\ \A g, k \in Grants : Live(g) /\ Live(k) /\ grants[g].request = grants[k].request => g = k
    /\ \A r \in Requests : requests[r].status \in {"none", "pending", "rejected"} =>
          \A g \in Grants : GrantOf(g, r) =>
              \E h \in Handlers : At(h, "approve", "mark") /\ handlers[h].request = r
    /\ \A h \in Handlers :
          /\ At(h, "approve", "insert") => \A g \in Grants : ~GrantOf(g, handlers[h].request)
          /\ At(h, "revoke", "unset") =>
                \A g \in Grants : GrantOf(g, handlers[h].request) =>
                    g \in handlers[h].set \/ ~IsActive(grants[g])
          /\ At(h, "revoke", "mark") => NoneActive(handlers[h].request)
    /\ \A r \in ended : NoneActive(r)

\* A request that waits for an answer has a scope the service accepts.
AskedValid ==
    \A r \in Requests : requests[r].status = "pending" => IsValid(requests[r].scope, Addresses)

\* The inductive invariant behind AccessEnds.
Endings ==
    /\ AskedValid
    /\ "double" \notin load.events => Serial /\ \A h \in Handlers : LateOK(handlers[h])
    /\ load.events \cap {"double", "fault"} = {} => Settled

\* Steps that keep each part.
StatusMoves(r) ==
    /\ requests[r].status = "pending" => requests'[r].status \in {"pending", "deleted"}
    /\ requests[r].status = "revoked" => requests'[r].status \in {"revoked", "deleted"}
    /\ requests[r].status = "deleted" => requests'[r].status = "deleted"
    /\ requests[r].status # "none" => requests'[r].status # "none"

SerialStep ==
    /\ ended' = ended
    /\ \A k \in Handlers : handlers'[k].op \in Deciders =>
          handlers'[k].op = handlers[k].op /\ handlers'[k].request = handlers[k].request
    /\ \A r \in Requests : StatusMoves(r)

LEMMA SerialKept ==
    ASSUME Inv, Serial, SerialStep PROVE Serial'
  <1>1. ended \subseteq Requests
    BY DEF Inv, TypeOK
  <1>2. \A h \in Handlers : handlers[h].op \in Deciders => handlers[h].request \in Requests
    BY DEF Inv, HandlerOK, Deciders
  <1>3. OneDecider'
    BY DEF Serial, OneDecider, SerialStep
  <1>4. ASSUME NEW h \in Handlers, handlers'[h].op \in {"approve", "reject"}
        PROVE  requests'[handlers'[h].request].status \in {"pending", "deleted"}
    <2>1. handlers'[h].op = handlers[h].op /\ handlers'[h].request = handlers[h].request
      BY <1>4 DEF SerialStep, Deciders
    <2>2. handlers[h].request \in Requests
      BY <1>2, <1>4, <2>1 DEF Deciders
    <2>3. requests[handlers[h].request].status \in {"pending", "deleted"}
      BY <1>4, <2>1 DEF Serial
    <2> QED BY <2>1, <2>2, <2>3 DEF SerialStep, StatusMoves
  <1>5. ASSUME NEW r \in ended' PROVE requests'[r].status \in {"revoked", "deleted"}
    BY <1>1, <1>5 DEF Serial, SerialStep, StatusMoves
  <1>6. ASSUME NEW h \in Handlers, handlers'[h].op = "revoke"
        PROVE  requests'[handlers'[h].request].status # "none"
    BY <1>2, <1>6 DEF Serial, SerialStep, StatusMoves, Deciders
  <1> QED BY <1>3, <1>4, <1>5, <1>6 DEF Serial

Late == \A h \in Handlers : LateOK(handlers[h])

LateStep ==
    /\ now <= now' /\ (member' => member) /\ ended \subseteq ended'
    /\ \A k \in Handlers : handlers'[k].late =>
          /\ handlers[k].late
          /\ handlers'[k].op = handlers[k].op /\ handlers'[k].at = handlers[k].at
          /\ handlers'[k].row = handlers[k].row /\ handlers'[k].request = handlers[k].request

\* The clock only makes a row inactive.
LEMMA InactiveStays ==
    ASSUME now \in Nat, now' \in Nat, now <= now', NEW row \in GrantRows, ~IsActive(row)
    PROVE  ~(~row.revoked /\ now' < row.expires)
  BY DEF IsActive, GrantRows

LEMMA LateKept ==
    ASSUME Inv, now' \in Nat, Late, LateStep PROVE Late'
  <1> SUFFICES ASSUME NEW h \in Handlers, handlers'[h].late PROVE LateOK(handlers[h])'
    BY DEF Late, LateOK
  <1>1. /\ handlers[h].late /\ handlers'[h].op = handlers[h].op /\ handlers'[h].at = handlers[h].at
        /\ handlers'[h].row = handlers[h].row /\ handlers'[h].request = handlers[h].request
    BY DEF LateStep
  <1>2. LateOK(handlers[h])
    BY DEF Late
  <1>3. now \in Nat /\ handlers[h].row \in GrantRows
    BY DEF Inv, TypeOK, HandlerStates
  <1>4. ~IsActive(handlers[h].row) => ~IsActive(handlers[h].row)'
    BY <1>1, <1>3, InactiveStays DEF LateStep, IsActive
  <1> QED BY <1>1, <1>2, <1>4 DEF LateOK, LateStep

\* A request without an approval.
Early == {"none", "pending", "rejected"}

SettledStep ==
    /\ \A g \in Grants : Live(g)' =>
          /\ Live(g) /\ grants'[g].request = grants[g].request
          /\ ~IsActive(grants[g]) => ~IsActive(grants[g])'
    /\ \A r \in Requests : requests'[r].status \in Early => requests[r].status \in Early
    /\ \A h \in Handlers :
          At(h, "approve", "mark") /\ requests'[handlers[h].request].status \in Early
          => At(h, "approve", "mark")' /\ handlers'[h].request = handlers[h].request
    /\ \A h \in Handlers : At(h, "approve", "insert")' =>
          \/ \A g \in Grants : ~GrantOf(g, handlers[h].request)'
          \/ At(h, "approve", "insert") /\ handlers'[h].request = handlers[h].request
    /\ \A h \in Handlers : At(h, "revoke", "unset")' =>
          \/ \A g \in Grants : GrantOf(g, handlers[h].request)' =>
                g \in handlers'[h].set \/ ~IsActive(grants[g])'
          \/ /\ At(h, "revoke", "unset") /\ handlers'[h].request = handlers[h].request
             /\ handlers'[h].set = handlers[h].set
    /\ \A h \in Handlers : At(h, "revoke", "mark")' =>
          \/ NoneActive(handlers[h].request)'
          \/ At(h, "revoke", "mark") /\ handlers'[h].request = handlers[h].request
    /\ \A r \in ended' : r \in ended \/ NoneActive(r)

LEMMA SettledKept ==
    ASSUME Settled, SettledStep PROVE Settled'
  <1>1. ASSUME NEW g \in Grants, NEW k \in Grants, Live(g)', Live(k)',
               grants'[g].request = grants'[k].request
        PROVE  g = k
    BY <1>1, ZenonT(30) DEF SettledStep, Settled
  <1>2. ASSUME NEW r \in Requests, requests'[r].status \in {"none", "pending", "rejected"},
               NEW g \in Grants, GrantOf(g, r)'
        PROVE  \E h \in Handlers : At(h, "approve", "mark")' /\ handlers'[h].request = r
    <2>1. GrantOf(g, r) /\ requests[r].status \in Early
      BY <1>2, ZenonT(30) DEF SettledStep, GrantOf, Early
    <2>2. PICK h \in Handlers : At(h, "approve", "mark") /\ handlers[h].request = r
      BY <2>1, ZenonT(30) DEF Settled, Early
    <2> QED BY <1>2, <2>2, ZenonT(30) DEF SettledStep, Early
  <1>3. ASSUME NEW r, NoneActive(r) PROVE NoneActive(r)'
    BY <1>3, ZenonT(30) DEF NoneActive, SettledStep, GrantOf
  <1>4. ASSUME NEW h \in Handlers, At(h, "approve", "insert")', NEW g \in Grants
        PROVE  ~GrantOf(g, handlers[h].request)'
    BY <1>4, ZenonT(30) DEF SettledStep, Settled, GrantOf
  <1>5. ASSUME NEW h \in Handlers, At(h, "revoke", "unset")', NEW g \in Grants,
               GrantOf(g, handlers[h].request)'
        PROVE  g \in handlers'[h].set \/ ~IsActive(grants[g])'
    BY <1>5, ZenonT(30) DEF SettledStep, Settled, GrantOf
  <1>6. ASSUME NEW h \in Handlers, At(h, "revoke", "mark")' PROVE NoneActive(handlers[h].request)'
    <2>1. CASE At(h, "revoke", "mark") /\ handlers'[h].request = handlers[h].request
      <3>1. NoneActive(handlers[h].request)
        BY <2>1 DEF Settled
      <3> QED BY <1>3, <2>1, <3>1 DEF NoneActive
    <2> QED BY <1>6, <2>1, ZenonT(30) DEF SettledStep
  <1>7. ASSUME NEW r \in ended' PROVE NoneActive(r)'
    BY <1>3, <1>7, ZenonT(30) DEF SettledStep, Settled
  <1> QED BY <1>1, <1>2, <1>4, <1>5, <1>6, <1>7, ZenonT(30) DEF Settled

\* A handler that is not at an approval's or a revocation's writes, and moves while
\* requests and grants rest.
LEMMA BesideEndings ==
    ASSUME Inv, Endings, NEW h \in Handlers, Only(h),
           UNCHANGED <<load, now, requests, grants, member, ended>>,
           handlers'[h].op \in Deciders =>
               handlers'[h].op = handlers[h].op /\ handlers'[h].request = handlers[h].request,
           At(h, "approve", "mark") => "fault" \in load.events,
           handlers'[h].at \notin {"insert", "unset", "mark"},
           "double" \notin load.events => LateOK(handlers[h])'
    PROVE  Endings'
  <1>1. AskedValid'
    BY ZenonT(30) DEF Endings, AskedValid
  <1>2. ASSUME "double" \notin load.events PROVE Serial' /\ Late'
    <2>1. Serial /\ Late
      BY <1>2, ZenonT(30) DEF Endings, Late
    <2>2. SerialStep
      BY DEF SerialStep, StatusMoves, Only
    <2>3. ASSUME NEW k \in Handlers, k # h PROVE LateOK(handlers[k])'
      <3>1. LateOK(handlers[k]) /\ handlers'[k] = handlers[k]
        BY <2>1, <2>3, ZenonT(30) DEF Late, Only
      <3> QED BY <3>1, ZenonT(30) DEF LateOK, IsActive
    <2>4. Late'
      BY <1>2, <2>3, ZenonT(30) DEF Late
    <2> QED BY <2>1, <2>2, <2>4, SerialKept, ZenonT(30)
  <1>3. ASSUME load.events \cap {"double", "fault"} = {} PROVE Settled'
    <2>1. Settled
      BY <1>3 DEF Endings
    <2>2. \A g \in Grants : /\ Live(g)' <=> Live(g)
                            /\ IsActive(grants[g])' <=> IsActive(grants[g])
      BY DEF Live, IsActive
    <2>3. \A k \in Handlers : k # h => handlers'[k] = handlers[k]
      BY DEF Only
    <2>4. \A k \in Handlers : k = h => ~At(k, "approve", "mark")
      BY <1>3
    <2>5. \A k \in Handlers : /\ At(k, "approve", "insert")' => k # h
                              /\ At(k, "revoke", "unset")' => k # h
                              /\ At(k, "revoke", "mark")' => k # h
      BY DEF At
    <2>6. SettledStep
      BY <2>2, <2>3, <2>4, <2>5, ZenonT(30) DEF SettledStep, At
    <2> QED BY <2>1, <2>6, SettledKept
  <1> QED BY <1>1, <1>2, <1>3 DEF Endings, Late

\* The handler of a decision is not a late read, before or after its step.
LEMMA DeciderLate ==
    ASSUME Inv, NEW h \in Handlers, Only(h), Late, handlers[h].op \notin Routes,
           handlers'[h].late => handlers[h].late,
           UNCHANGED <<now, member>>, ended \subseteq ended'
    PROVE  Late'
  <1>1. ~handlers'[h].late
    BY ZenonT(30) DEF Late, LateOK
  <1>2. LateStep
    <2>1. now <= now'
      BY DEF Inv, TypeOK
    <2> QED BY <1>1, <2>1 DEF LateStep, Only
  <1>3. now' \in Nat
    BY DEF Inv, TypeOK
  <1> QED BY <1>2, <1>3, LateKept

\* The start of a decision: where decisions do not overlap, nobody else decides on r.
LEMMA DecisionStarts ==
    ASSUME Inv, Endings, NEW h \in Handlers, NEW r \in Requests, NEW op \in Deciders,
           NEW at, NEW sc, BeginDecision(h, op, at, r, sc),
           requests[r].status # "none",
           op \in {"approve", "reject"} => requests[r].status = "pending",
           <<op, at>> \in {<<"approve", "insert">>, <<"reject", "mark">>, <<"revoke", "find">>},
           UNCHANGED <<load, now, requests, grants, member, events, lost, reads, ended>>
    PROVE  Endings'
  <1>1. /\ Only(h) /\ handlers[h].at = "idle" /\ handlers[h].op = "none"
        /\ handlers'[h].at = at /\ handlers'[h].op = op
        /\ handlers'[h].request = r /\ ~handlers'[h].late
    BY DecisionMoves, ZenonT(30) DEF Inv
  <1>2. AskedValid'
    BY ZenonT(30) DEF Endings, AskedValid
  <1>3. ASSUME "double" \notin load.events
        PROVE  \A k \in Handlers : handlers[k].op \in Deciders => handlers[k].request # r
    BY <1>3 DEF BeginDecision, Deciding, Deciders
  <1>4. ASSUME "double" \notin load.events PROVE Serial' /\ Late'
    <2>1. Serial /\ Late
      BY <1>4 DEF Endings, Late
    <2>2. OneDecider'
      BY <1>1, <1>3, <1>4, <2>1, ZenonT(30) DEF Serial, OneDecider, Only
    <2>3. Serial'
      BY <1>1, <2>1, <2>2, ZenonT(30) DEF Serial, Only
    <2>4. Late'
      BY <1>1, <2>1, DeciderLate, ZenonT(30) DEF Routes
    <2> QED BY <2>3, <2>4
  <1>5. ASSUME load.events \cap {"double", "fault"} = {} PROVE Settled'
    <2>1. Settled /\ "double" \notin load.events
      BY <1>5 DEF Endings
    <2>2. \A g \in Grants : /\ Live(g)' <=> Live(g)
                            /\ IsActive(grants[g])' <=> IsActive(grants[g])
      BY DEF Live, IsActive
    <2>3. ASSUME op = "approve", NEW g \in Grants PROVE ~GrantOf(g, r)'
      BY <1>3, <2>1, <2>2, <2>3, ZenonT(30) DEF Settled, GrantOf, At, Deciders
    <2>4. SettledStep
      BY <1>1, <2>2, <2>3, ZenonT(30) DEF SettledStep, At, Only, GrantOf
    <2> QED BY <2>1, <2>4, SettledKept
  <1> QED BY <1>2, <1>4, <1>5, ZenonT(30) DEF Endings, Late

\* A decision's write leaves the request decided.
LEMMA StatusSet ==
    ASSUME Inv, NEW r \in Requests, NEW status, SetStatus(r, status)
    PROVE  /\ \A k \in Requests : k # r => requests'[k] = requests[k]
           /\ requests'[r].scope = requests[r].scope
           /\ requests'[r].status = IF Stored(r) THEN status ELSE requests[r].status
  BY DEF Inv, TypeOK, SetStatus

\* Approved or rejected: it was pending, and nobody else is deciding on it.
LEMMA AnswerEndings ==
    ASSUME Inv, Endings, NEW h \in Handlers, ApproveMark(h) \/ RejectMark(h)
    PROVE  Endings'
  <1> DEFINE r == handlers[h].request
             status == IF handlers[h].op = "approve" THEN "approved" ELSE "rejected"
  <1>1. r \in Requests /\ handlers[h].op \in {"approve", "reject"}
    BY ZenonT(30) DEF Inv, HandlerOK, ApproveMark, RejectMark, At
  <1>2. SetStatus(r, status)
    BY ZenonT(30) DEF ApproveMark, RejectMark, At
  <1>3. Done(h) /\ UNCHANGED <<load, now, grants, member, starts, events, lost, reads, ended>>
    BY DEF ApproveMark, RejectMark
  <1>4. /\ Only(h) /\ handlers'[h].op = "none" /\ handlers'[h].at = "idle" /\ ~handlers'[h].late
    BY <1>3, DoneMoves DEF Inv
  <1>5. /\ \A k \in Requests : k # r => requests'[k] = requests[k]
        /\ requests'[r].scope = requests[r].scope
        /\ requests'[r].status = IF Stored(r) THEN status ELSE requests[r].status
    <2> HIDE DEF r, status
    <2> QED BY <1>1, <1>2, StatusSet
  <1>9. status \in {"approved", "rejected"} /\ (At(h, "approve", "mark") => status = "approved")
    BY DEF At
  <1> HIDE DEF r, status
  <1>6. AskedValid'
    BY <1>1, <1>5, <1>9 DEF Endings, AskedValid
  <1>7. ASSUME "double" \notin load.events PROVE Serial' /\ Late'
    <2>1. Serial /\ Late
      BY <1>7 DEF Endings, Late
    <2>2. \A k \in Handlers : handlers'[k].op \in Deciders =>
              k # h /\ handlers'[k] = handlers[k] /\ handlers[k].request # r
      BY <1>1, <1>4, <2>1 DEF Only, Serial, OneDecider, Deciders, r
    <2>3. OneDecider'
      BY <2>1, <2>2 DEF Serial, OneDecider
    <2>4. \A k \in Handlers : handlers'[k].op \in {"approve", "reject"} =>
              requests'[handlers'[k].request].status \in {"pending", "deleted"}
      <3>1. \A k \in Handlers : handlers[k].op \in Deciders => handlers[k].request \in Requests
        BY ZenonT(30) DEF Inv, HandlerOK, Deciders
      <3> QED BY <1>5, <2>1, <2>2, <3>1 DEF Serial, Deciders
    <2>8. \A k \in Handlers : handlers'[k].op = "revoke" =>
              requests'[handlers'[k].request].status # "none"
      <3>1. \A k \in Handlers : handlers[k].op \in Deciders => handlers[k].request \in Requests
        BY ZenonT(30) DEF Inv, HandlerOK, Deciders
      <3> QED BY <1>5, <2>1, <2>2, <3>1 DEF Serial, Deciders
    <2>5. \A q \in ended' : requests'[q].status \in {"revoked", "deleted"}
      <3>1. requests[r].status \in {"pending", "deleted"}
        BY <1>1, <2>1 DEF Serial, r
      <3>2. ended \subseteq Requests
        BY DEF Inv, TypeOK
      <3> QED BY <1>3, <1>5, <2>1, <3>1, <3>2, ZenonT(30) DEF Serial, Stored
    <2>6. Serial'
      BY <2>3, <2>4, <2>5, <2>8 DEF Serial
    <2>7. Late'
      BY <1>1, <1>3, <1>4, <2>1, DeciderLate, ZenonT(30) DEF Routes
    <2> QED BY <2>6, <2>7
  <1>8. ASSUME load.events \cap {"double", "fault"} = {} PROVE Settled'
    <2>1. Settled /\ Serial
      BY <1>8 DEF Endings
    <2>2. \A g \in Grants : /\ Live(g)' <=> Live(g)
                            /\ IsActive(grants[g])' <=> IsActive(grants[g])
      BY <1>3 DEF Live, IsActive
    <2>3. requests[r].status \in {"pending", "deleted"}
      BY <1>1, <2>1 DEF Serial, r
    <2>4. \A q \in Requests : requests'[q].status \in Early => requests[q].status \in Early
      BY <1>5, <1>9, <2>3, ZenonT(30) DEF Early, Stored
    <2>5. At(h, "approve", "mark") => requests'[r].status \notin Early
      BY <1>5, <1>9, <2>3 DEF Early, Stored
    <2>6. SettledStep
      BY <1>3, <1>4, <2>2, <2>4, <2>5 DEF SettledStep, At, Only, r
    <2> QED BY <2>1, <2>6, SettledKept
  <1> QED BY <1>3, <1>6, <1>7, <1>8, ZenonT(30) DEF Endings, Late

\* Revoked: no grant of it is active any more.
LEMMA RevokeMarkEndings ==
    ASSUME Inv, Endings, NEW h \in Handlers, RevokeMark(h) PROVE Endings'
  <1> DEFINE r == handlers[h].request
  <1>1. r \in Requests /\ At(h, "revoke", "mark")
    BY DEF Inv, HandlerOK, RevokeMark, At
  <1>2. /\ SetStatus(r, "revoked") /\ Done(h) /\ ended' = ended \cup {r}
        /\ UNCHANGED <<load, now, grants, member, starts, events, lost, reads>>
    BY DEF RevokeMark
  <1>3. /\ Only(h) /\ handlers'[h].op = "none" /\ handlers'[h].at = "idle" /\ ~handlers'[h].late
    BY <1>2, DoneMoves DEF Inv
  <1>4. /\ \A k \in Requests : k # r => requests'[k] = requests[k]
        /\ requests'[r].scope = requests[r].scope
        /\ requests'[r].status = IF Stored(r) THEN "revoked" ELSE requests[r].status
    BY <1>1, <1>2, StatusSet
  <1> HIDE DEF r
  <1>6. AskedValid'
    BY <1>1, <1>4 DEF Endings, AskedValid
  <1>7. ASSUME "double" \notin load.events PROVE Serial' /\ Late'
    <2>1. Serial /\ Late
      BY <1>7 DEF Endings, Late
    <2>2. \A k \in Handlers : handlers'[k].op \in Deciders =>
              k # h /\ handlers'[k] = handlers[k] /\ handlers[k].request # r
      BY <1>1, <1>3, <2>1 DEF Only, Serial, OneDecider, Deciders, r, At
    <2>3. OneDecider'
      BY <2>1, <2>2 DEF Serial, OneDecider
    <2>4. \A k \in Handlers : handlers'[k].op \in {"approve", "reject"} =>
              requests'[handlers'[k].request].status \in {"pending", "deleted"}
      <3>1. \A k \in Handlers : handlers[k].op \in Deciders => handlers[k].request \in Requests
        BY DEF Inv, HandlerOK, Deciders
      <3> QED BY <1>4, <2>1, <2>2, <3>1 DEF Serial, Deciders
    <2>8. \A k \in Handlers : handlers'[k].op = "revoke" =>
              requests'[handlers'[k].request].status # "none"
      <3>1. \A k \in Handlers : handlers[k].op \in Deciders => handlers[k].request \in Requests
        BY DEF Inv, HandlerOK, Deciders
      <3> QED BY <1>4, <2>1, <2>2, <3>1 DEF Serial, Deciders
    <2>5. \A q \in ended' : requests'[q].status \in {"revoked", "deleted"}
      <3>1. ended \subseteq Requests
        BY DEF Inv, TypeOK
      <3>2. requests[r].status # "none"
        BY <1>1, <2>1 DEF Serial, At, r
      <3> QED BY <1>2, <1>4, <2>1, <3>1, <3>2 DEF Serial, Stored
    <2>6. Serial'
      BY <2>3, <2>4, <2>5, <2>8 DEF Serial
    <2>7. Late'
      BY <1>1, <1>2, <1>3, <2>1, DeciderLate DEF Routes, At
    <2> QED BY <2>6, <2>7
  <1>8. ASSUME load.events \cap {"double", "fault"} = {} PROVE Settled'
    <2>1. Settled
      BY <1>8 DEF Endings
    <2>2. \A g \in Grants : /\ Live(g)' <=> Live(g)
                            /\ IsActive(grants[g])' <=> IsActive(grants[g])
      BY <1>2 DEF Live, IsActive
    <2>3. NoneActive(r)
      BY <1>1, <2>1 DEF Settled, r
    <2>4. \A q \in Requests : requests'[q].status \in Early => requests[q].status \in Early
      BY <1>4 DEF Early, Stored
    <2>5. \A q \in ended' : q \in ended \/ NoneActive(q)
      BY <1>2, <2>3
    <2>6. /\ \A k \in Handlers : k # h => handlers'[k] = handlers[k]
          /\ ~At(h, "approve", "mark") /\ handlers'[h].at = "idle"
      BY <1>1, <1>3 DEF At, Only
    <2>7. UNCHANGED grants
      BY <1>2
    <2>8. SettledStep
      BY <2>2, <2>4, <2>5, <2>6, <2>7 DEF SettledStep, At
    <2> QED BY <2>1, <2>8, SettledKept
  <1> QED BY <1>2, <1>6, <1>7, <1>8 DEF Endings, Late

\* CreateGrant: the request had no grant, and its approval will be written next.
LEMMA InsertEndings ==
    ASSUME Inv, Endings, NEW h \in Handlers, NEW g \in Grants, ApproveInsert(h, g)
    PROVE  Endings'
  <1> DEFINE r == handlers[h].request
  <1>1. r \in Requests /\ At(h, "approve", "insert")
    BY DEF Inv, HandlerOK, ApproveInsert, At
  <1>2. UNCHANGED <<load, now, requests, member, starts, events, lost, reads, ended>>
    BY DEF ApproveInsert
  <1>3. CASE ~Stored(r)
    <2>1. Done(h) /\ UNCHANGED grants
      BY <1>3 DEF ApproveInsert
    <2>2. /\ Only(h) /\ handlers'[h].op = "none" /\ handlers'[h].at = "idle" /\ ~handlers'[h].late
      BY <2>1, DoneMoves DEF Inv
    <2>3. handlers'[h].op \notin Deciders /\ ~At(h, "approve", "mark") /\ LateOK(handlers[h])'
      BY <1>1, <2>2 DEF Deciders, At, LateOK
    <2> QED BY <1>2, <2>1, <2>2, <2>3, BesideEndings
  <1>4. CASE Stored(r)
    <2>1. Goto(h, "mark")
      BY <1>4 DEF ApproveInsert
    <2>2. /\ Only(h) /\ handlers'[h].at = "mark" /\ handlers'[h].op = handlers[h].op
          /\ handlers'[h].request = r /\ handlers'[h].late = handlers[h].late
      BY <2>1, GotoMoves DEF Inv
    <2>3. /\ Live(g)' /\ grants'[g].request = r /\ ~Live(g)
          /\ \A k \in Grants : k # g => grants'[k] = grants[k]
      BY <1>4 DEF ApproveInsert, Inv, TypeOK, Live
    <2>4. \A k \in Grants : k # g => /\ Live(k)' <=> Live(k)
                                     /\ IsActive(grants[k])' <=> IsActive(grants[k])
      BY <1>2, <2>3 DEF Live, IsActive
    <2>5. AskedValid'
      BY <1>2 DEF Endings, AskedValid
    <2>8. r' = r
      BY <2>2
    <2> HIDE DEF r
    <2>6. ASSUME "double" \notin load.events PROVE Serial' /\ Late'
      <3>1. Serial /\ Late
        BY <2>6 DEF Endings, Late
      <3>2. SerialStep
        BY <1>2, <2>2 DEF SerialStep, StatusMoves, Only, r
      <3>3. Late'
        BY <1>1, <1>2, <2>2, <3>1, DeciderLate DEF Routes, At
      <3> QED BY <3>1, <3>2, <3>3, SerialKept
    <2>7. ASSUME load.events \cap {"double", "fault"} = {} PROVE Settled'
      <3>1. Settled /\ Serial
        BY <2>7 DEF Endings
      <3>2. \A k \in Grants : ~GrantOf(k, r)
        BY <1>1, <3>1 DEF Settled, r
      <3>3. \A k \in Handlers : k # h /\ handlers[k].op \in Deciders => handlers[k].request # r
        BY <1>1, <3>1 DEF Serial, OneDecider, At, Deciders, r
      <3>4. r \notin ended
        BY <1>1, <1>4, <3>1 DEF Serial, At, Stored, r
      <3>5. \A k \in Handlers : k # h => handlers'[k] = handlers[k]
        BY <2>2 DEF Only
      <3>6. \A q : \A k \in Grants : q # r => (GrantOf(k, q)' <=> GrantOf(k, q))
        BY <2>3, <2>4 DEF GrantOf
      <3>7. \A k \in Grants : GrantOf(k, r)' => k = g
        BY <2>3, <2>4, <2>8, <3>2 DEF GrantOf
      <3>8. \A q : q # r /\ NoneActive(q) => NoneActive(q)'
        BY <2>3, <2>4 DEF NoneActive, GrantOf
      <3>9. ASSUME NEW a \in Grants, NEW b \in Grants, Live(a)', Live(b)',
                   grants'[a].request = grants'[b].request
            PROVE  a = b
        <4>1. CASE a = g \/ b = g
          <5>1. GrantOf(a, r)' /\ GrantOf(b, r)'
            BY <2>3, <2>8, <3>9, <4>1 DEF GrantOf
          <5> QED BY <3>7, <5>1
        <4>2. CASE a # g /\ b # g
          BY <2>3, <2>4, <3>1, <3>9, <4>2 DEF Settled
        <4> QED BY <4>1, <4>2
      <3>10. ASSUME NEW q \in Requests, requests'[q].status \in {"none", "pending", "rejected"},
                    NEW a \in Grants, GrantOf(a, q)'
             PROVE  \E k \in Handlers : At(k, "approve", "mark")' /\ handlers'[k].request = q
        <4>1. CASE q = r
          BY <1>1, <2>2, <4>1 DEF At
        <4>2. CASE q # r
          <5>1. PICK k \in Handlers : At(k, "approve", "mark") /\ handlers[k].request = q
            BY <1>2, <3>1, <3>6, <3>10, <4>2 DEF Settled
          <5> QED BY <1>1, <3>5, <5>1 DEF At
        <4> QED BY <4>1, <4>2
      <3>11. ASSUME NEW k \in Handlers
             PROVE  /\ At(k, "approve", "insert")' => \A a \in Grants : ~GrantOf(a, handlers[k].request)'
                    /\ At(k, "revoke", "unset")' =>
                          \A a \in Grants : GrantOf(a, handlers[k].request)' =>
                              a \in handlers'[k].set \/ ~IsActive(grants[a])'
                    /\ At(k, "revoke", "mark")' => NoneActive(handlers[k].request)'
        <4>1. CASE k = h
          BY <1>1, <2>2, <4>1 DEF At
        <4>2. CASE k # h
          <5>1. handlers'[k] = handlers[k]
            BY <3>5, <4>2
          <5>2. At(k, "approve", "insert")' \/ At(k, "revoke", "unset")' \/ At(k, "revoke", "mark")'
                => handlers[k].request # r
            BY <3>3, <4>2, <5>1 DEF At, Deciders
          <5>3. ASSUME At(k, "approve", "insert")', NEW a \in Grants
                PROVE  ~GrantOf(a, handlers[k].request)'
            <6>1. ~GrantOf(a, handlers[k].request)
              BY <3>1, <5>1, <5>3 DEF Settled, At
            <6> QED BY <2>3, <2>4, <5>1, <5>2, <5>3, <6>1 DEF GrantOf
          <5>4. ASSUME At(k, "revoke", "unset")', NEW a \in Grants, GrantOf(a, handlers[k].request)'
                PROVE  a \in handlers'[k].set \/ ~IsActive(grants[a])'
            <6>1. a # g
              BY <2>3, <5>1, <5>2, <5>4 DEF GrantOf
            <6>2. GrantOf(a, handlers[k].request)
              BY <2>3, <2>4, <5>1, <5>4, <6>1 DEF GrantOf
            <6> QED BY <2>4, <3>1, <5>1, <5>4, <6>1, <6>2 DEF Settled, At
          <5>5. ASSUME At(k, "revoke", "mark")' PROVE NoneActive(handlers[k].request)'
            <6>1. NoneActive(handlers[k].request)
              BY <3>1, <5>1, <5>5 DEF Settled, At
            <6> QED BY <2>3, <2>4, <5>1, <5>2, <5>5, <6>1 DEF NoneActive, GrantOf
          <5> QED BY <5>3, <5>4, <5>5
        <4> QED BY <4>1, <4>2
      <3>12. \A q \in ended' : NoneActive(q)'
        BY <1>2, <3>1, <3>4, <3>8 DEF Settled
      <3> QED BY <3>9, <3>10, <3>11, <3>12 DEF Settled
    <2> QED BY <1>2, <2>5, <2>6, <2>7 DEF Endings, Late
  <1> QED BY <1>3, <1>4

\* Revoking looks the one active grant up, and takes it back.
LEMMA RevokeEndings ==
    ASSUME Inv, Endings, NEW h \in Handlers, RevokeFind(h) \/ RevokeUnset(h)
    PROVE  Endings'
  <1> DEFINE r == handlers[h].request
  <1>1. r \in Requests /\ handlers[h].op = "revoke"
    BY DEF Inv, HandlerOK, RevokeFind, RevokeUnset, At
  <1>2. UNCHANGED <<load, now, requests, member, starts, events, lost, reads, ended>>
    BY DEF RevokeFind, RevokeUnset
  <1>3. /\ Only(h) /\ handlers'[h].op = "revoke" /\ handlers'[h].request = r
        /\ handlers'[h].late = handlers[h].late /\ handlers'[h].at \in {"unset", "mark"}
    <2>1. CASE Goto(h, "mark")
      BY <1>1, <2>1, GotoMoves DEF Inv
    <2>2. CASE \E g \in Grants : handlers' = [handlers EXCEPT ![h].at = "unset", ![h].set = {g}]
      <3>1. handlers \in [Handlers -> HandlerStates]
        BY DEF Inv, TypeOK
      <3> QED BY <1>1, <2>2, <3>1 DEF Only, HandlerStates
    <2> QED BY <2>1, <2>2 DEF RevokeFind, RevokeUnset
  <1>4. AskedValid'
    BY <1>2 DEF Endings, AskedValid
  <1>5. ASSUME "double" \notin load.events PROVE Serial' /\ Late'
    <2>1. Serial /\ Late
      BY <1>5 DEF Endings, Late
    <2>2. SerialStep
      BY <1>1, <1>2, <1>3 DEF SerialStep, StatusMoves, Only
    <2>3. Late'
      BY <1>1, <1>2, <1>3, <2>1, DeciderLate DEF Routes
    <2> QED BY <2>1, <2>2, <2>3, SerialKept
  <1>6. \A g \in Grants : /\ Live(g)' <=> Live(g)
                          /\ grants'[g].request = grants[g].request
                          /\ ~IsActive(grants[g]) => ~IsActive(grants[g])'
    <2>1. grants \in [Grants -> GrantRows]
      BY DEF Inv, TypeOK
    <2>2. \A g \in Grants : grants'[g] = grants[g] \/ grants'[g] = [grants[g] EXCEPT !.revoked = TRUE]
      <3>1. CASE RevokeFind(h)
        BY <3>1 DEF RevokeFind
      <3>2. CASE RevokeUnset(h)
        BY <3>2 DEF RevokeUnset
      <3> QED BY <3>1, <3>2
    <2>3. ASSUME NEW g \in Grants, grants'[g] = [grants[g] EXCEPT !.revoked = TRUE]
          PROVE  grants'[g].state = grants[g].state /\ grants'[g].request = grants[g].request
                 /\ grants'[g].revoked
      BY <2>1, <2>3 DEF GrantRows
    <2> QED BY <1>2, <2>2, <2>3 DEF Live, IsActive
  <1>7. ASSUME load.events \cap {"double", "fault"} = {} PROVE Settled'
    <2>1. Settled
      BY <1>7 DEF Endings
    <2>2. At(h, "revoke", "unset")' =>
              \A g \in Grants : GrantOf(g, r) => g \in handlers'[h].set
      <3>1. CASE RevokeUnset(h)
        BY <1>3, <3>1, GotoMoves DEF RevokeUnset, At, Inv
      <3>2. CASE RevokeFind(h) /\ Goto(h, "mark")
        BY <3>2, GotoMoves DEF At, Inv
      <3>3. CASE RevokeFind(h) /\ ~Goto(h, "mark")
        <4>1. PICK g \in Grants : /\ Live(g) /\ grants[g].request = r
                                  /\ handlers' = [handlers EXCEPT ![h].at = "unset", ![h].set = {g}]
          BY <3>3 DEF RevokeFind
        <4>2. handlers'[h].set = {g}
          BY <4>1 DEF Inv, TypeOK, HandlerStates
        <4> HIDE DEF r
        <4>3. \A k \in Grants : GrantOf(k, r) => k = g
          BY <2>1, <4>1 DEF Settled, GrantOf
        <4> QED BY <4>2, <4>3
      <3> QED BY <3>1, <3>2, <3>3
    <2>3. At(h, "revoke", "mark")' => NoneActive(r)'
      <3>1. CASE RevokeUnset(h)
        <4>1. ASSUME NEW g \in Grants, GrantOf(g, r) PROVE ~IsActive(grants[g])'
          <5>1. g \in handlers[h].set \/ ~IsActive(grants[g])
            BY <2>1, <3>1, <4>1 DEF Settled, RevokeUnset
          <5>2. CASE g \in handlers[h].set
            <6>1. grants'[g] = [grants[g] EXCEPT !.revoked = TRUE]
              BY <3>1, <4>1, <5>2 DEF RevokeUnset, GrantOf
            <6>2. grants[g] \in GrantRows
              BY DEF Inv, TypeOK
            <6> QED BY <6>1, <6>2 DEF IsActive, GrantRows
          <5> QED BY <1>6, <5>1, <5>2
        <4> QED BY <1>3, <1>6, <4>1 DEF NoneActive, GrantOf
      <3>2. CASE RevokeFind(h) /\ Goto(h, "mark")
        <4>2. handlers'[h].at = "mark"
          BY <3>2, GotoMoves DEF Inv
        <4>3. ASSUME NEW g, handlers' = [handlers EXCEPT ![h].at = "unset", ![h].set = {g}]
              PROVE  FALSE
          BY <4>2, <4>3 DEF Inv, TypeOK, HandlerStates
        <4>1. \A g \in Grants : GrantOf(g, r) => ~IsActive(grants[g])
          BY <3>2, <4>3 DEF RevokeFind, GrantOf
        <4> QED BY <1>3, <1>6, <4>1 DEF NoneActive, GrantOf
      <3>3. CASE RevokeFind(h) /\ ~Goto(h, "mark")
        <4>1. PICK g \in Grants : handlers' = [handlers EXCEPT ![h].at = "unset", ![h].set = {g}]
          BY <3>3 DEF RevokeFind
        <4>2. handlers'[h].at = "unset"
          BY <4>1 DEF Inv, TypeOK, HandlerStates
        <4> QED BY <4>2 DEF At
      <3> QED BY <3>1, <3>2, <3>3
    <2>4. \A k \in Handlers : k # h => handlers'[k] = handlers[k]
      BY <1>3 DEF Only
    <2>8. r' = r
      BY <1>3
    <2> HIDE DEF r
    <2>5. \A k \in Handlers : At(k, "revoke", "unset")' /\ k = h =>
              \A g \in Grants : GrantOf(g, handlers[k].request)' => g \in handlers'[k].set
      BY <1>3, <1>6, <2>2 DEF GrantOf, r
    <2>6. \A k \in Handlers : At(k, "revoke", "mark")' /\ k = h => NoneActive(handlers[k].request)'
      BY <1>3, <2>3, <2>8 DEF NoneActive, GrantOf
    <2>7. SettledStep
      BY <1>1, <1>2, <1>3, <1>6, <2>4, <2>5, <2>6 DEF SettledStep, At
    <2> QED BY <2>1, <2>7, SettledKept
  <1> QED BY <1>2, <1>4, <1>5, <1>7 DEF Endings, Late

\* A step that decides nothing: requests may be asked for or deleted, grants revoked or
\* deleted with their request, the clock moves and the viewer may leave.
LEMMA OutsideEndings ==
    ASSUME Inv, Endings, load' = load, ended' = ended, now' \in Nat, now <= now', member' => member,
           \A k \in Handlers : handlers'[k] = handlers[k] \/
               (handlers[k].op = "delete" /\ handlers'[k].op = "none" /\ ~handlers'[k].late),
           \A r \in Requests : StatusMoves(r),
           \A r \in Requests : requests'[r].status \in Early => requests[r].status \in Early,
           \A g \in Grants : Live(g)' =>
               /\ Live(g) /\ grants'[g].request = grants[g].request
               /\ ~IsActive(grants[g]) => ~IsActive(grants[g])',
           AskedValid'
    PROVE  Endings'
  <1>1. ASSUME "double" \notin load.events PROVE Serial' /\ Late'
    <2>1. Serial /\ Late
      BY <1>1 DEF Endings, Late
    <2>2. SerialStep
      BY DEF SerialStep, Deciders
    <2>3. LateStep
      BY DEF LateStep
    <2> QED BY <2>1, <2>2, <2>3, SerialKept, LateKept
  <1>2. ASSUME load.events \cap {"double", "fault"} = {} PROVE Settled'
    <2>1. Settled
      BY <1>2 DEF Endings
    <2>2. \A k \in Handlers : handlers[k].op \in Deciders \/ handlers'[k].op \in Deciders =>
              handlers'[k] = handlers[k]
      BY DEF Deciders
    <2>3. SettledStep
      BY <2>2 DEF SettledStep, At, Deciders
    <2> QED BY <2>1, <2>3, SettledKept
  <1> QED BY <1>1, <1>2 DEF Endings, Late

LEMMA ClockEndings ==
    ASSUME Inv, Endings, Tick \/ LeaveOrg \/ UNCHANGED vars PROVE Endings'
  <1>1. UNCHANGED <<load, requests, grants, handlers, ended>>
    BY DEF Tick, LeaveOrg, vars
  <1>2. now' \in Nat /\ now <= now' /\ (member' => member)
    BY DEF Tick, LeaveOrg, vars, Inv, TypeOK
  <1>3. AskedValid'
    BY <1>1 DEF Endings, AskedValid
  <1>4. \A g \in Grants : Live(g)' =>
            /\ Live(g) /\ grants'[g].request = grants[g].request
            /\ ~IsActive(grants[g]) => ~IsActive(grants[g])'
    BY <1>1, <1>2 DEF Live, IsActive, Inv, TypeOK, GrantRows
  <1>5. \A r \in Requests : StatusMoves(r)
    BY <1>1 DEF StatusMoves
  <1> QED BY <1>1, <1>2, <1>3, <1>4, <1>5, OutsideEndings

LEMMA CreateEndings ==
    ASSUME Inv, Endings, NEW r \in Requests, NEW s \in load.scopes, NEW e \in {0, 1},
           CreateRequest(r, s, e)
    PROVE  Endings'
  <1> DEFINE new == [status |-> "pending", scope |-> Normalize(s), expires |-> e]
  <1>1. /\ UNCHANGED <<load, now, grants, member, handlers, ended>> /\ requests[r].status = "none"
        /\ requests' = [requests EXCEPT ![r] = new] /\ IsValid(s, Addresses)
    BY DEF CreateRequest
  <1>2. new.status = "pending" /\ IsValid(new.scope, Addresses)
    BY <1>1 DEF IsValid, Normalize, Levels
  <1> HIDE DEF new
  <1>3. /\ requests'[r] = new
        /\ \A k \in Requests : k # r => requests'[k] = requests[k]
    BY <1>1 DEF Inv, TypeOK
  <1>4. AskedValid'
    BY <1>2, <1>3 DEF Endings, AskedValid
  <1>5. \A k \in Requests : StatusMoves(k) /\ (requests'[k].status \in Early => requests[k].status \in Early)
    BY <1>1, <1>2, <1>3 DEF StatusMoves, Early
  <1>6. \A g \in Grants : Live(g)' =>
            /\ Live(g) /\ grants'[g].request = grants[g].request
            /\ ~IsActive(grants[g]) => ~IsActive(grants[g])'
    BY <1>1 DEF Live, IsActive
  <1>7. now' \in Nat /\ now <= now'
    BY <1>1 DEF Inv, TypeOK
  <1> QED BY <1>1, <1>4, <1>5, <1>6, <1>7, OutsideEndings

LEMMA AdminEndings ==
    ASSUME Inv, Endings, NEW g \in Grants, AdminRevokeGrant(g) PROVE Endings'
  <1>1. /\ UNCHANGED <<load, now, requests, member, handlers, ended>>
        /\ grants' = [grants EXCEPT ![g].revoked = TRUE]
    BY DEF AdminRevokeGrant
  <1>2. grants \in [Grants -> GrantRows]
    BY DEF Inv, TypeOK
  <1>3. /\ grants'[g].state = grants[g].state /\ grants'[g].request = grants[g].request
        /\ grants'[g].revoked
        /\ \A k \in Grants : k # g => grants'[k] = grants[k]
    BY <1>1, <1>2 DEF GrantRows
  <1>4. \A k \in Grants : Live(k)' =>
            /\ Live(k) /\ grants'[k].request = grants[k].request
            /\ ~IsActive(grants[k]) => ~IsActive(grants[k])'
    BY <1>1, <1>3 DEF Live, IsActive
  <1>5. now' \in Nat /\ now <= now'
    BY <1>1 DEF Inv, TypeOK
  <1>6. AskedValid' /\ \A r \in Requests : StatusMoves(r)
    BY <1>1 DEF Endings, AskedValid, StatusMoves
  <1> QED BY <1>1, <1>4, <1>5, <1>6, OutsideEndings

LEMMA CascadeEndings ==
    ASSUME Inv, Endings, NEW r \in Requests, Cascade(r), requests[r].status # "none",
           \A k \in Handlers : handlers'[k] = handlers[k] \/
               (handlers[k].op = "delete" /\ handlers'[k].op = "none" /\ ~handlers'[k].late),
           UNCHANGED <<load, now, member, ended>>
    PROVE  Endings'
  <1>1. /\ requests'[r].status = "deleted" /\ \A k \in Requests : k # r => requests'[k] = requests[k]
    BY DEF Inv, TypeOK, Cascade
  <1>2. ASSUME NEW g \in Grants, Live(g)'
        PROVE  grants'[g] = grants[g]
    <2>1. grants[g] \in GrantRows
      BY DEF Inv, TypeOK
    <2>2. CASE grants[g].request = r
      <3>1. grants'[g] = [grants[g] EXCEPT !.state = "gone"]
        BY <2>2 DEF Cascade
      <3> QED BY <1>2, <2>1, <3>1 DEF Live, GrantRows
    <2> QED BY <2>2 DEF Cascade
  <1>3. \A g \in Grants : Live(g)' =>
            /\ Live(g) /\ grants'[g].request = grants[g].request
            /\ ~IsActive(grants[g]) => ~IsActive(grants[g])'
    BY <1>2 DEF Live, IsActive
  <1>4. now' \in Nat /\ now <= now'
    BY DEF Inv, TypeOK
  <1>5. AskedValid' /\ \A k \in Requests : StatusMoves(k)
    BY <1>1 DEF Endings, AskedValid, StatusMoves
  <1>6. \A k \in Requests : requests'[k].status \in Early => requests[k].status \in Early
    BY <1>1 DEF Early
  <1> QED BY <1>3, <1>4, <1>5, <1>6, OutsideEndings

LEMMA DeleteEndings ==
    ASSUME Inv, Endings, NEW h \in Handlers, DeletePending(h) PROVE Endings'
  <1>1. handlers[h].op = "delete" /\ handlers[h].request \in Requests
    BY DEF Inv, HandlerOK, DeletePending, At
  <1>2. /\ Only(h) /\ handlers'[h].op = "none" /\ handlers'[h].at = "idle" /\ ~handlers'[h].late
    BY DoneMoves DEF Inv, DeletePending
  <1>3. UNCHANGED <<load, now, member, ended>>
    BY DEF DeletePending
  <1>4. CASE requests[handlers[h].request].status = "pending"
    BY <1>1, <1>2, <1>3, <1>4, CascadeEndings DEF DeletePending, Only
  <1>5. CASE requests[handlers[h].request].status # "pending"
    <2>1. UNCHANGED <<requests, grants>>
      BY <1>5 DEF DeletePending
    <2>2. handlers'[h].op \notin Deciders /\ ~At(h, "approve", "mark") /\ LateOK(handlers[h])'
      BY <1>1, <1>2 DEF Deciders, At, LateOK
    <2> QED BY <1>2, <1>3, <2>1, <2>2, BesideEndings
  <1> QED BY <1>4, <1>5

\* A handler that answers, whatever it was doing.
LEMMA DoneEndings ==
    ASSUME Inv, Endings, NEW h \in Handlers, Done(h),
           At(h, "approve", "mark") => "fault" \in load.events,
           UNCHANGED <<load, now, requests, grants, member, ended>>
    PROVE  Endings'
  <1>1. /\ Only(h) /\ handlers'[h].op = "none" /\ handlers'[h].at = "idle" /\ ~handlers'[h].late
    BY DoneMoves DEF Inv
  <1>2. handlers'[h].op \notin Deciders /\ LateOK(handlers[h])'
    BY <1>1 DEF Deciders, LateOK
  <1> QED BY <1>1, <1>2, BesideEndings

LEMMA DeleteStartEndings ==
    ASSUME Inv, Endings, NEW h \in Handlers, NEW r \in Requests, DeleteStart(h, r) PROVE Endings'
  <1> DEFINE do == [Idle EXCEPT !.op = "delete", !.at = "delete", !.request = r]
  <1>1. Begin(h, do) /\ UNCHANGED <<load, now, requests, grants, member, ended>>
    BY DEF DeleteStart
  <1>2. do.op = "delete" /\ do.at = "delete" /\ do.late = FALSE
    BY DEF Idle
  <1> HIDE DEF do
  <1>3. Only(h) /\ handlers'[h] = do /\ handlers[h].at = "idle"
    BY <1>1, BeginMoves DEF Inv
  <1>4. handlers'[h].op \notin Deciders /\ ~At(h, "approve", "mark") /\ LateOK(handlers[h])'
    BY <1>2, <1>3 DEF Deciders, At, LateOK
  <1> QED BY <1>1, <1>2, <1>3, <1>4, BesideEndings

\* Every decision.
LEMMA DecideEndings ==
    ASSUME Inv, Endings, NEW h \in Handlers, Decide(h) PROVE Endings'
  <1>0. load.requests \subseteq Requests
    BY DisclosureAssumption DEF Inv, TypeOK
  <1>1. ASSUME NEW r \in load.requests, NEW n \in load.narrows, ApproveStart(h, r, n) PROVE Endings'
    <2>1. PICK sc : BeginDecision(h, "approve", "insert", r, sc)
      BY <1>1 DEF ApproveStart
    <2>2. requests[r].status = "pending"
          /\ UNCHANGED <<load, now, requests, grants, member, events, lost, reads, ended>>
      BY <1>1 DEF ApproveStart
    <2> QED BY <1>0, <2>1, <2>2, DecisionStarts DEF Deciders
  <1>2. ASSUME NEW r \in load.requests, RejectStart(h, r) PROVE Endings'
    <2>1. /\ BeginDecision(h, "reject", "mark", r, NoScope) /\ requests[r].status = "pending"
          /\ UNCHANGED <<load, now, requests, grants, member, events, lost, reads, ended>>
      BY <1>2 DEF RejectStart
    <2> QED BY <1>0, <2>1, DecisionStarts DEF Deciders
  <1>3. ASSUME NEW r \in load.requests, RevokeStart(h, r) PROVE Endings'
    <2>1. /\ BeginDecision(h, "revoke", "find", r, NoScope) /\ requests[r].status # "none"
          /\ UNCHANGED <<load, now, requests, grants, member, events, lost, reads, ended>>
      BY <1>3 DEF RevokeStart, Stored
    <2> QED BY <1>0, <2>1, DecisionStarts DEF Deciders
  <1>4. ASSUME NEW r \in load.requests, DeleteStart(h, r) PROVE Endings'
    BY <1>0, <1>4, DeleteStartEndings
  <1>5. CASE \E g \in Grants : ApproveInsert(h, g)
    BY <1>5, InsertEndings
  <1>6. CASE ApproveMark(h) \/ RejectMark(h)
    BY <1>6, AnswerEndings
  <1>7. CASE RevokeMark(h)
    BY <1>7, RevokeMarkEndings
  <1>8. CASE RevokeFind(h) \/ RevokeUnset(h)
    BY <1>8, RevokeEndings
  <1>9. CASE DeletePending(h)
    BY <1>9, DeleteEndings
  <1>10. CASE Fails(h)
    BY <1>10, DoneEndings DEF Fails
  <1> QED BY <1>1, <1>2, <1>3, <1>4, <1>5, <1>6, <1>7, <1>8, <1>9, <1>10 DEF Decide

\* A read starts late only with a check ahead that it will not pass.
LEMMA ReadGrantEndings ==
    ASSUME Inv, Endings, NEW h \in Handlers, NEW g \in Grants, NEW route \in Routes,
           ReadGrant(h, g, route)
    PROVE  Endings'
  <1> DEFINE late == ~IsActive(grants[g]) \/ grants[g].request \in ended \/ ~member
             do == [Idle EXCEPT !.op = route, !.at = "request", !.request = grants[g].request,
                       !.set = {g}, !.row = grants[g], !.late = late]
  <1>1. Begin(h, do) /\ UNCHANGED <<load, now, requests, grants, member, ended>>
    BY DEF ReadGrant
  <1>2. late => ~IsActive(grants[g]) \/ grants[g].request \in ended \/ ~member
    OBVIOUS
  <1> HIDE DEF late
  <1>3. /\ do.op = route /\ do.at = "request" /\ do.request = grants[g].request
        /\ do.row = grants[g] /\ do.late = late
    BY DEF Idle
  <1> HIDE DEF do
  <1>4. Only(h) /\ handlers'[h] = do /\ handlers[h].at = "idle"
    BY <1>1, BeginMoves DEF Inv
  <1>5. LateOK(handlers[h])'
    BY <1>1, <1>2, <1>3, <1>4 DEF LateOK, IsActive
  <1>6. handlers'[h].op \notin Deciders /\ ~At(h, "approve", "mark")
    BY <1>3, <1>4 DEF Deciders, Routes, At
  <1> QED BY <1>1, <1>3, <1>4, <1>5, <1>6, BesideEndings

\* A handler of a read that goes on.
LEMMA ReadGoesOn ==
    ASSUME Inv, Endings, NEW h \in Handlers, Only(h), handlers[h].op \in Routes \cup {"list"},
           handlers'[h].op = handlers[h].op, handlers'[h].at \notin {"insert", "unset", "mark"},
           "double" \notin load.events => LateOK(handlers[h])',
           UNCHANGED <<load, now, requests, grants, member, ended>>
    PROVE  Endings'
  <1>1. handlers'[h].op \notin Deciders /\ ~At(h, "approve", "mark")
    BY DEF Deciders, Routes, At
  <1> QED BY <1>1, BesideEndings

\* The checks: a late read fails at one of them.
LEMMA ChecksEndings ==
    ASSUME Inv, Endings, NEW h \in Handlers, ReadRequest(h) \/ ReadMember(h) PROVE Endings'
  <1>1. UNCHANGED <<load, now, requests, grants, member, ended>> /\ handlers[h].op \in Routes
    BY DEF ReadRequest, ReadMember
  <1>2. CASE Done(h)
    BY <1>1, <1>2, DoneEndings DEF At, Routes
  <1>3. CASE ReadRequest(h) /\ ~Done(h)
    <2>1. Goto(h, "member") /\ requests[handlers[h].request].status = "approved"
          /\ handlers[h].at = "request"
      BY <1>3 DEF ReadRequest, EligibleRequest
    <2>2. /\ Only(h) /\ handlers'[h].at = "member" /\ handlers'[h].op = handlers[h].op
          /\ handlers'[h].row = handlers[h].row /\ handlers'[h].late = handlers[h].late
      BY <2>1, GotoMoves DEF Inv
    <2>3. ASSUME "double" \notin load.events PROVE LateOK(handlers[h])'
      <3>1. handlers[h].request \notin ended
        BY <2>1, <2>3 DEF Endings, Serial
      <3>2. handlers[h].late => ~IsActive(handlers[h].row) \/ ~member
        BY <2>1, <2>3, <3>1 DEF Endings, LateOK
      <3> QED BY <1>1, <2>2, <3>2 DEF LateOK, IsActive
    <2> QED BY <1>1, <2>2, <2>3, ReadGoesOn
  <1>4. CASE ReadMember(h) /\ ~Done(h)
    <2> DEFINE sc == ForRead(handlers[h].row.scope)
    <2>1. /\ handlers' = [handlers EXCEPT ![h].at = "fetch", ![h].row.scope = sc]
          /\ member /\ IsActive(handlers[h].row) /\ handlers[h].at = "member"
      BY <1>4 DEF ReadMember
    <2> HIDE DEF sc
    <2>2. /\ Only(h) /\ handlers'[h].at = "fetch" /\ handlers'[h].op = handlers[h].op
          /\ handlers'[h].late = handlers[h].late
      BY <2>1 DEF Only, Inv, TypeOK, HandlerStates
    <2>3. ASSUME "double" \notin load.events PROVE LateOK(handlers[h])'
      BY <2>1, <2>2, <2>3 DEF Endings, LateOK
    <2> QED BY <1>1, <2>2, <2>3, ReadGoesOn
  <1> QED BY <1>2, <1>3, <1>4 DEF ReadRequest, ReadMember

\* Past the checks no read is late.
LEMMA ServedEndings ==
    ASSUME Inv, Endings, NEW h \in Handlers, Only(h),
           handlers[h].at \in {"fetch", "record", "recover"},
           handlers'[h].op = handlers[h].op, handlers'[h].request = handlers[h].request,
           handlers'[h].late = handlers[h].late, handlers'[h].at \in {"record", "recover"},
           UNCHANGED <<load, now, requests, grants, member, ended>>
    PROVE  Endings'
  <1>1. "double" \notin load.events => LateOK(handlers[h])'
    BY DEF Endings, LateOK
  <1>2. ~At(h, "approve", "mark") /\ handlers'[h].at \notin {"insert", "unset", "mark"}
    BY DEF At
  <1> QED BY <1>1, <1>2, BesideEndings

LEMMA FetchEndings ==
    ASSUME Inv, Endings, NEW h \in Handlers, Fetch(h) PROVE Endings'
  <1>1. /\ UNCHANGED <<load, now, requests, grants, member, ended>> /\ handlers[h].at = "fetch"
    BY DEF Fetch
  <1>2. CASE Done(h)
    BY <1>1, <1>2, DoneEndings DEF At
  <1>3. CASE ~Done(h)
    <2>1. PICK data : handlers' = [handlers EXCEPT ![h].at = "record", ![h].data = data]
      BY <1>3, Zenon DEF Fetch
    <2>2. /\ Only(h) /\ handlers'[h].at = "record" /\ handlers'[h].op = handlers[h].op
          /\ handlers'[h].late = handlers[h].late /\ handlers'[h].request = handlers[h].request
      BY <2>1 DEF Only, Inv, TypeOK, HandlerStates
    <2> QED BY <1>1, <2>2, ServedEndings
  <1> QED BY <1>2, <1>3

\* The list shows approved requests only, and an ended one is not.
LEMMA ListEndings ==
    ASSUME Inv, Endings, NEW h \in Handlers, ListAddresses(h) PROVE Endings'
  <1> DEFINE listed == {g \in Grants : Live(g) /\ IsActive(grants[g])
                                        /\ EligibleRequest(grants[g].request) /\ member}
             late == \E g \in listed : grants[g].request \in ended
             do == [Idle EXCEPT !.op = "list", !.at = "record", !.set = listed, !.late = late]
  <1>1. Begin(h, do) /\ UNCHANGED <<load, now, requests, grants, member, ended>>
    BY DEF ListAddresses
  <1>2. ASSUME "double" \notin load.events PROVE ~late
    BY <1>2 DEF Endings, Serial, EligibleRequest
  <1> HIDE DEF late, listed
  <1>3. do.op = "list" /\ do.at = "record" /\ do.late = late
    BY DEF Idle
  <1> HIDE DEF do
  <1>4. Only(h) /\ handlers'[h] = do /\ handlers[h].at = "idle"
    BY <1>1, BeginMoves DEF Inv
  <1>5. "double" \notin load.events => LateOK(handlers[h])'
    BY <1>2, <1>3, <1>4 DEF LateOK
  <1>6. handlers'[h].op \notin Deciders /\ ~At(h, "approve", "mark")
    BY <1>3, <1>4 DEF Deciders, At
  <1> QED BY <1>1, <1>3, <1>4, <1>5, <1>6, BesideEndings

LEMMA RecordEndings ==
    ASSUME Inv, Endings, NEW h \in Handlers,
           \/ Record(h) \/ RecordRefused(h) \/ RecordUnclear(h) \/ RecoverTimeout(h)
           \/ \E g \in Grants : Recover(h, g)
    PROVE  Endings'
  <1>1. /\ UNCHANGED <<load, now, requests, grants, member, ended>>
        /\ handlers[h].at \in {"record", "recover"}
    BY DEF Record, RecordRefused, RecordUnclear, RecoverTimeout, Recover
  <1>2. CASE Done(h)
    BY <1>1, <1>2, DoneEndings DEF At
  <1>3. CASE Goto(h, "recover")
    <2>1. /\ Only(h) /\ handlers'[h].at = "recover" /\ handlers'[h].op = handlers[h].op
          /\ handlers'[h].late = handlers[h].late /\ handlers'[h].request = handlers[h].request
      BY <1>3, GotoMoves DEF Inv
    <2> QED BY <1>1, <2>1, ServedEndings
  <1>4. ASSUME NEW rest, handlers' = [handlers EXCEPT ![h].set = rest] PROVE Endings'
    <2>1. /\ Only(h) /\ handlers'[h].at = handlers[h].at /\ handlers'[h].op = handlers[h].op
          /\ handlers'[h].late = handlers[h].late /\ handlers'[h].request = handlers[h].request
      BY <1>4 DEF Only, Inv, TypeOK, HandlerStates
    <2> QED BY <1>1, <2>1, ServedEndings
  <1>5. Done(h) \/ Goto(h, "recover") \/ \E rest : handlers' = [handlers EXCEPT ![h].set = rest]
    BY Zenon DEF Record, RecordRefused, RecordUnclear, RecoverTimeout, Recover
  <1> QED BY <1>2, <1>3, <1>4, <1>5

\* The endings are kept by every step.
LEMMA NextEndings == Inv /\ Endings /\ [Next]_vars => Endings'
  <1> SUFFICES ASSUME Inv, Endings, [Next]_vars PROVE Endings'
    OBVIOUS
  <1>1. CASE Tick \/ LeaveOrg \/ UNCHANGED vars
    BY <1>1, ClockEndings
  <1>2. CASE \E r \in Requests, s \in load.scopes, e \in {0, 1} : CreateRequest(r, s, e)
    BY <1>2, CreateEndings
  <1>3. ASSUME NEW r \in Requests, EraseSubject(r) PROVE Endings'
    BY <1>3, CascadeEndings DEF EraseSubject, Stored
  <1>4. CASE \E g \in Grants : AdminRevokeGrant(g)
    BY <1>4, AdminEndings
  <1>5. ASSUME NEW h \in Handlers, Decide(h) PROVE Endings'
    BY <1>5, DecideEndings
  <1>6. ASSUME NEW h \in Handlers, Read(h) PROVE Endings'
    BY <1>6, ReadGrantEndings, ChecksEndings, FetchEndings, ListEndings, RecordEndings DEF Read
  <1> QED BY <1>1, <1>2, <1>3, <1>4, <1>5, <1>6 DEF Next

\* At first nothing is asked, granted or ended; a grant of an earlier version is approved.
LEMMA InitEndings == Init => Endings
  <1> SUFFICES ASSUME Init PROVE Endings
    OBVIOUS
  <1>1. /\ handlers = [h \in Handlers |-> Idle] /\ ended = {}
    BY DEF Init
  <1>2. \A h \in Handlers : handlers[h].op = "none" /\ ~handlers[h].late
    BY <1>1 DEF Idle
  <1>3. PICK r0 \in load.requests, g0 \in Grants :
           LET old == "legacy" \in load.events
           IN  /\ requests = [r \in Requests |->
                     IF old /\ r = r0
                     THEN [status |-> "approved", scope |-> LegacyScope, expires |-> 0]
                     ELSE FreshRequest]
               /\ grants = [g \in Grants |->
                     IF old /\ g = g0
                     THEN [state |-> "live", request |-> r0, scope |-> LegacyScope,
                           granted |-> 1, expires |-> load.time, revoked |-> FALSE]
                     ELSE FreshGrant]
    BY DEF Init
  <1>4. \A r \in Requests : requests[r].status \in {"none", "approved"}
    BY <1>3 DEF FreshRequest
  <1>5. \A g \in Grants : Live(g) => g = g0 /\ grants[g].request = r0 /\ "legacy" \in load.events
    BY <1>3 DEF FreshGrant, Live
  <1>6. "legacy" \in load.events /\ r0 \in Requests => requests[r0].status = "approved"
    BY <1>3
  <1>7. AskedValid
    BY <1>4 DEF AskedValid
  <1>8. Serial /\ \A h \in Handlers : LateOK(handlers[h])
    BY <1>1, <1>2 DEF Serial, OneDecider, Deciders, LateOK
  <1>9. Settled
    <2>1. \A h \in Handlers : ~At(h, "approve", "insert") /\ ~At(h, "revoke", "unset")
                              /\ ~At(h, "revoke", "mark")
      BY <1>2 DEF At
    <2> QED BY <1>1, <1>5, <1>6, <2>1 DEF Settled, GrantOf
  <1> QED BY <1>7, <1>8, <1>9 DEF Endings

----------------------------------------------------------------------------
(* What the endings mean.                                                  *)

LEMMA EndedReads == Endings => EndedNotServed
  BY DEF Endings, EndedNotServed, LateOK

LEMMA RevokedReads == Endings => RevokeEndsAccess
  BY DEF Endings, RevokeEndsAccess, Settled, NoneActive, GrantOf, HasAccess

\* A subject's lists show every request and grant in force.
LEMMA SubjectLists == Inv /\ Endings => SubjectSees
  <1> SUFFICES ASSUME Inv, Endings, NEW r \in Requests
               PROVE  /\ \A q \in ListPendingDisclosureRequestsForUser(r) :
                            ~IsExpired(q) /\ IsValid(requests[q].scope, Addresses)
                      /\ \A g \in Grants :
                            /\ Live(g) /\ grants[g].request = r /\ EligibleRequest(r)
                                  /\ IsActive(grants[g])
                               => g \in ListActiveDisclosureGrantsForTarget(r)
                            /\ \A h \in Handlers :
                                  /\ handlers[h].op \in Routes \cup {"list"}
                                  /\ g \in handlers[h].set /\ Live(g) /\ grants[g].request = r
                                  => /\ g \in ListAllDisclosureGrantsForTarget(r)
                                     /\ r \in ListAllDisclosureRequestsForUser(r)
                      /\ (ActiveGrantIDs(r) # {}) = HasAccess(r)
    BY DEF SubjectSees
  <1>1. now \in Nat /\ requests[r].expires \in Nat /\ \A g \in Grants : grants[g].expires \in Nat
    BY DEF Inv, TypeOK, GrantRows
  <1>2. ASSUME NEW q \in ListPendingDisclosureRequestsForUser(r)
        PROVE  ~IsExpired(q) /\ IsValid(requests[q].scope, Addresses)
    <2>1. q = r /\ requests[r].status = "pending" /\ (requests[r].expires = 0 \/ requests[r].expires > now)
      BY <1>2 DEF ListPendingDisclosureRequestsForUser
    <2> QED BY <1>1, <2>1 DEF IsExpired, Endings, AskedValid
  <1>3. \A g \in Grants : (grants[g].expires > now) <=> (now < grants[g].expires)
    BY <1>1
  <1>4. ASSUME NEW g \in Grants, Live(g), grants[g].request = r
        PROVE  /\ IsActive(grants[g]) => g \in ListActiveDisclosureGrantsForTarget(r)
               /\ g \in ListAllDisclosureGrantsForTarget(r)
               /\ r \in ListAllDisclosureRequestsForUser(r)
    <2>1. Stored(r)
      BY <1>4 DEF Inv, TypeOK
    <2> QED BY <1>3, <1>4, <2>1 DEF ListActiveDisclosureGrantsForTarget, IsActive,
              ListAllDisclosureGrantsForTarget, ListAllDisclosureRequestsForUser
  <1>5. (ActiveGrantIDs(r) # {}) <=> HasAccess(r)
    BY <1>3 DEF ActiveGrantIDs, HasAccess, IsActive
  <1>6. HasAccess(r) \in BOOLEAN
    BY DEF HasAccess
  <1> QED BY <1>2, <1>4, <1>5, <1>6

\* The three states of a grant are exclusive and exhaustive.
LEMMA GrantStates == Inv => GrantStatesPartition
  <1> SUFFICES ASSUME Inv PROVE GrantStatesPartition
    OBVIOUS
  <1> DEFINE in(status) == ListDisclosureGrantsWithFilter([NoFilter EXCEPT !.status = status])
  <1>1. ASSUME NEW g \in Grants, NEW status \in {"approved", "revoked", "expired"}
        PROVE  g \in in(status) <=> Live(g) /\ GrantStatus(grants[g], status)
    <2> DEFINE f == [NoFilter EXCEPT !.status = status]
    <2>1. f.status = status /\ f.target = "any" /\ f.level = "any" /\ f.org = "any"
      BY DEF NoFilter
    <2> HIDE DEF f
    <2>2. g \in ListDisclosureGrantsWithFilter(f) <=> Live(g) /\ GrantStatus(grants[g], status)
      BY <2>1 DEF ListDisclosureGrantsWithFilter, Matches
    <2> QED BY <2>2 DEF f
  <1>2. now \in Nat /\ \A g \in Grants : grants[g].expires \in Nat /\ grants[g].revoked \in BOOLEAN
    BY DEF Inv, TypeOK, GrantRows
  <1>3. ASSUME NEW g \in Grants
        PROVE  /\ GrantStatus(grants[g], "approved") <=> IsActive(grants[g])
               /\ GrantStatus(grants[g], "revoked") <=> grants[g].revoked
               /\ GrantStatus(grants[g], "expired") <=> ~grants[g].revoked /\ ~IsActive(grants[g])
    BY <1>2 DEF GrantStatus, IsActive
  <1> HIDE DEF in
  <1>4. ASSUME NEW g \in Grants, Live(g)
        PROVE  Cardinality({s \in {"approved", "revoked", "expired"} : g \in in(s)}) = 1
    <2>1. PICK s \in {"approved", "revoked", "expired"} :
             \A t \in {"approved", "revoked", "expired"} : g \in in(t) <=> t = s
      <3>1. CASE grants[g].revoked
        BY <1>1, <1>3, <1>4, <3>1 DEF IsActive
      <3>2. CASE IsActive(grants[g])
        BY <1>1, <1>3, <1>4, <3>2 DEF IsActive
      <3>3. CASE ~grants[g].revoked /\ ~IsActive(grants[g])
        BY <1>1, <1>3, <1>4, <3>3
      <3> QED BY <3>1, <3>2, <3>3
    <2>2. {t \in {"approved", "revoked", "expired"} : g \in in(t)} = {s}
      BY <2>1
    <2> QED BY <2>2, FS_Singleton
  <1>5. ASSUME NEW r \in Requests
        PROVE  HasAccess(r) = (\E g \in in("approved") : grants[g].request = r)
    <2>1. in("approved") \subseteq Grants
      BY DEF in, ListDisclosureGrantsWithFilter
    <2>2. HasAccess(r) <=> (\E g \in in("approved") : grants[g].request = r)
      BY <1>1, <1>3, <2>1 DEF HasAccess
    <2>3. HasAccess(r) \in BOOLEAN
      BY DEF HasAccess
    <2> QED BY <2>2, <2>3
  <1> QED BY <1>4, <1>5 DEF GrantStatesPartition, in

\* The organization a call is about.
LEMMA ResolvedOrg ==
    ASSUME NEW c \in Callers
    PROVE  /\ resolveAdminOrgID(c, Home) = Home
           /\ c.method # "jwt_admin" => resolveAdminOrgID(c, "any") = "default" /\ c.orgs = {}
           /\ c.method = "jwt_admin" =>
                 \/ c.orgs = {Home} /\ resolveAdminOrgID(c, "any") = Home
                 \/ c.orgs = {"other"} /\ resolveAdminOrgID(c, "any") = "other"
                 \/ c.orgs = {Home, "other"} /\ resolveAdminOrgID(c, "any") = "none"
  <1>1. resolveAdminOrgID(c, Home) = Home
    BY DEF resolveAdminOrgID, Home
  <1>2. ASSUME c.method # "jwt_admin"
        PROVE  resolveAdminOrgID(c, "any") = "default" /\ c.orgs = {}
    <2>1. c.orgs = {}
      BY <1>2 DEF Callers
    <2>2. resolveAdminOrgID(c, "any") = "default"
      BY <1>2 DEF resolveAdminOrgID
    <2> QED BY <2>1, <2>2
  <1>3. ASSUME c.method = "jwt_admin"
        PROVE  c.orgs \in {{Home}, {"other"}, {Home, "other"}}
    BY <1>3 DEF Callers
  <1>4. ASSUME c.method = "jwt_admin", NEW o, c.orgs = {o} PROVE resolveAdminOrgID(c, "any") = o
    <2>1. Cardinality(c.orgs) = 1
      BY <1>4, FS_Singleton
    <2>2. (CHOOSE x \in c.orgs : TRUE) = o
      BY <1>4
    <2> QED BY <1>4, <2>1, <2>2 DEF resolveAdminOrgID
  <1>5. ASSUME c.method = "jwt_admin", c.orgs = {Home, "other"}
        PROVE  resolveAdminOrgID(c, "any") = "none"
    <2>1. Cardinality(c.orgs) # 1
      <3>1. IsFiniteSet({Home}) /\ Cardinality({Home}) = 1
        BY FS_Singleton
      <3>2. "other" \notin {Home} /\ c.orgs = {Home} \cup {"other"}
        BY <1>5 DEF Home
      <3>3. Cardinality({Home} \cup {"other"}) = Cardinality({Home}) + 1
        BY <3>1, <3>2, FS_AddElement
      <3> QED BY <3>1, <3>2, <3>3
    <2> QED BY <1>5, <2>1 DEF resolveAdminOrgID
  <1> QED BY <1>1, <1>2, <1>3, <1>4, <1>5

\* An administrator's lists are the subjects', of the organization the call is about.
LEMMA AdministratorLists == Inv => AdministratorsSee
  <1> SUFFICES ASSUME Inv, NEW all \in {UNION {ListAllDisclosureRequestsForUser(r) : r \in Requests}},
                      NEW c \in Callers, NEW asked \in {"any", Home}
               PROVE  LET f == [NoFilter EXCEPT !.org = asked]
                          sees == /\ c.method = "admin_token" \/ (c.method = "jwt_admin" /\ Home \in c.orgs)
                                  /\ asked = Home \/ (asked = "any" /\ c.orgs = {Home})
                      IN  /\ listDisclosureRequests(c, f) = IF sees THEN all ELSE {}
                          /\ listDisclosureGrants(c, f)
                                = IF sees THEN {g \in Grants : Live(g) /\ grants[g].request \in all} ELSE {}
                          /\ sees => \A r \in Requests : /\ getDisclosureRequest(c, r) = (r \in all)
                                                          /\ checkDisclosureAccess(c, r) = HasAccess(r)
    BY DEF AdministratorsSee
  <1> DEFINE f == [NoFilter EXCEPT !.org = asked]
             org == resolveAdminOrgID(c, asked)
             sees == /\ c.method = "admin_token" \/ (c.method = "jwt_admin" /\ Home \in c.orgs)
                     /\ asked = Home \/ (asked = "any" /\ c.orgs = {Home})
  <1>1. all = {r \in Requests : Stored(r)}
    <2>1. \A r \in Requests : \A q : q \in ListAllDisclosureRequestsForUser(r) <=> q = r /\ Stored(r)
      BY DEF ListAllDisclosureRequestsForUser
    <2>2. \A q : q \in all <=> \E r \in Requests : q \in ListAllDisclosureRequestsForUser(r)
      OBVIOUS
    <2> QED BY <2>1, <2>2
  <1>2. f.org = asked
    BY DEF NoFilter
  <1>3. /\ ListDisclosureRequestsWithFilter([f EXCEPT !.org = org])
              = IF org \in {"any", Home} THEN {r \in Requests : Stored(r)} ELSE {}
        /\ ListDisclosureGrantsWithFilter([f EXCEPT !.org = org])
              = IF org \in {"any", Home} THEN {g \in Grants : Live(g)} ELSE {}
    <2> DEFINE k == [f EXCEPT !.org = org]
    <2> HIDE DEF org
    <2>1. k.status = "any" /\ k.target = "any" /\ k.level = "any" /\ k.org = org
      BY DEF NoFilter
    <2> HIDE DEF k
    <2>2. /\ ListDisclosureRequestsWithFilter(k)
                = IF org \in {"any", Home} THEN {r \in Requests : Stored(r)} ELSE {}
          /\ ListDisclosureGrantsWithFilter(k)
                = IF org \in {"any", Home} THEN {g \in Grants : Live(g)} ELSE {}
      BY <2>1 DEF ListDisclosureRequestsWithFilter, ListDisclosureGrantsWithFilter, Matches, GrantStatus
    <2> QED BY <2>2 DEF k
  <1>4. {g \in Grants : Live(g) /\ grants[g].request \in all} = {g \in Grants : Live(g)}
    BY <1>1 DEF Inv, TypeOK
  <1>5. c.method \in {"admin_token", "operator_token", "jwt_admin"}
    BY DEF Callers
  <1>6. Admitted(c, asked) /\ org \in {"any", Home} <=> sees
    <2>1. CASE asked = Home
      BY <1>5, <2>1, ResolvedOrg DEF Admitted, inScope, Home
    <2>2. CASE asked = "any"
      BY <1>5, <2>2, ResolvedOrg DEF Admitted, inScope, Home
    <2> QED BY <2>1, <2>2
  <1> HIDE DEF org
  <1>7. /\ listDisclosureRequests(c, f) = IF sees THEN all ELSE {}
        /\ listDisclosureGrants(c, f)
              = IF sees THEN {g \in Grants : Live(g) /\ grants[g].request \in all} ELSE {}
    <2> HIDE DEF f, sees
    <2> QED BY <1>1, <1>2, <1>3, <1>4, <1>6 DEF listDisclosureRequests, listDisclosureGrants, org
  <1>8. ASSUME sees, NEW r \in Requests
        PROVE  /\ getDisclosureRequest(c, r) = (r \in all)
               /\ checkDisclosureAccess(c, r) = HasAccess(r)
    <2>1. c.method # "operator_token" /\ inScope(c, Home)
      BY <1>8 DEF inScope
    <2>2. HasAccess(r) \in BOOLEAN /\ Stored(r) \in BOOLEAN
      BY DEF HasAccess, Stored
    <2>3. inScope(c, Home) \in BOOLEAN
      BY DEF inScope
    <2> QED BY <1>1, <2>1, <2>2, <2>3 DEF getDisclosureRequest, checkDisclosureAccess
  <1> QED BY <1>7, <1>8
----------------------------------------------------------------------------
\* Only an approval's last write makes a request approved.
LEMMA OnlyApproval ==
    ASSUME Inv, Endings, [Next]_vars, NEW r \in Requests, "double" \notin load.events,
           requests[r].status \in {"rejected", "revoked"}
    PROVE  requests'[r].status # "approved"
  <1>0. Serial
    BY DEF Endings
  <1>1. CASE UNCHANGED requests
    BY <1>1
  <1>2. ASSUME NEW k \in Requests, Cascade(k) PROVE requests'[r].status # "approved"
    BY <1>2 DEF Cascade, Inv, TypeOK
  <1>3. ASSUME NEW k \in Requests, NEW s, NEW e, CreateRequest(k, s, e)
        PROVE  requests'[r].status # "approved"
    <2>1. requests'[r] = requests[r]
      BY <1>3 DEF CreateRequest, Inv, TypeOK
    <2> QED BY <2>1
  <1>4. ASSUME NEW h \in Handlers, RejectMark(h) \/ RevokeMark(h) PROVE requests'[r].status # "approved"
    <2>1. handlers[h].request \in Requests
      BY <1>4 DEF Inv, HandlerOK, RejectMark, RevokeMark, At
    <2>2. SetStatus(handlers[h].request, "rejected") \/ SetStatus(handlers[h].request, "revoked")
      BY <1>4 DEF RejectMark, RevokeMark
    <2> QED BY <2>1, <2>2, StatusSet
  <1>5. ASSUME NEW h \in Handlers, ApproveMark(h) PROVE requests'[r].status # "approved"
    <2>1. handlers[h].request \in Requests
      BY <1>5 DEF Inv, HandlerOK, ApproveMark, At
    <2>2. requests[handlers[h].request].status \in {"pending", "deleted"}
      BY <1>0, <1>5 DEF Serial, ApproveMark, At
    <2>3. SetStatus(handlers[h].request, "approved")
      BY <1>5 DEF ApproveMark
    <2> QED BY <2>1, <2>2, <2>3, StatusSet
  <1>6. ASSUME NEW h \in Handlers, Decide(h), ~ApproveMark(h), ~RejectMark(h), ~RevokeMark(h)
        PROVE  requests'[r].status # "approved"
    <2>1. ASSUME DeletePending(h) PROVE UNCHANGED requests \/ \E k \in Requests : Cascade(k)
      BY <2>1 DEF DeletePending, Inv, HandlerOK, At
    <2> QED BY <1>1, <1>2, <1>6, <2>1 DEF Decide, ApproveStart, RejectStart, RevokeStart, DeleteStart,
              ApproveInsert, RevokeFind, RevokeUnset, Fails
  <1>7. ASSUME NEW h \in Handlers, Read(h) PROVE UNCHANGED requests
    BY <1>7, Zenon DEF Read, ReadGrant, ReadRequest, ReadMember, Fetch, ListAddresses, Record,
              RecordRefused, RecordUnclear, RecoverTimeout, Recover
  <1>8. CASE Tick \/ LeaveOrg \/ UNCHANGED vars \/ \E g \in Grants : AdminRevokeGrant(g)
    BY <1>1, <1>8 DEF Tick, LeaveOrg, vars, AdminRevokeGrant
  <1>9. ASSUME NEW k \in Requests, EraseSubject(k) PROVE requests'[r].status # "approved"
    BY <1>2, <1>9 DEF EraseSubject
  <1> QED BY <1>1, <1>3, <1>4, <1>5, <1>6, <1>7, <1>8, <1>9 DEF Next

LEMMA FinalStep ==
    Inv /\ Endings /\ [Next]_vars =>
        [\A r \in Requests :
            requests[r].status \in {"rejected", "revoked"} /\ "double" \notin load.events
            => requests'[r].status # "approved"]_vars
  BY OnlyApproval


\* Access ends (explorerGrant, RevokeRequest, UpdateDisclosureRequestStatus and the lists):
\* unless decisions on one request overlap, a read begun after the end is never served and
\* no rejected or revoked request is approved again; unless moreover a statement fails, a
\* revoked request has no grant in force; and the lists of the subject and of the
\* administrators show just what there is.
THEOREM AccessIsEnded == Spec => AccessEnds
  <1>1. Init => Inv /\ Endings
    BY InitInv, InitEndings
  <1>2. Inv /\ Endings /\ [Next]_vars => (Inv /\ Endings)'
    BY NextInv, NextEndings
  <1>3. Inv /\ Endings => /\ EndedNotServed /\ RevokeEndsAccess /\ SubjectSees
                          /\ GrantStatesPartition /\ AdministratorsSee
    BY EndedReads, RevokedReads, SubjectLists, GrantStates, AdministratorLists
  <1> QED BY <1>1, <1>2, <1>3, FinalStep, PTL DEF Spec, AccessEnds, DecisionFinal
=============================================================================
