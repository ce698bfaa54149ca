------------------------------ MODULE Sessions ------------------------------
(***************************************************************************)
(* Logins (internal/server/auth.go and oauth.go), the two session stores   *)
(* they keep (internal/redis, or internal/auth and oauth.go in memory),    *)
(* and the refresh tokens and bans of the database.  Every HTTP request is *)
(* a process that takes one store command or statement at a time.  What a  *)
(* request creates bears its name: the session and the OAuth session of a  *)
(* login, the code of a completion, the refresh token of whoever issues    *)
(* one.  Requests refused without touching a store are not steps.          *)
(***************************************************************************)
EXTENDS Integers, FiniteSets

CONSTANTS
    Calls,    \* requests
    Users,
    Loads     \* [store, max, oauthMax, calls, faults, flush, expire]: the stores and their
              \* capacity, what each request is, how many commands fail, whether Redis
              \* loses its data and whether sessions and codes expire

Ops == {"none", "login", "authorize", "callback", "verify", "demo", "oauthCallback", "silent",
        "mock", "poll", "oauthPoll", "drop", "token", "refresh", "revoke", "update", "bearer",
        "optional", "introspect"}

\* Those that prove with a wallet, and those that complete a login with tokens.
Proving == {"callback", "verify"}
Issuing == Proving \cup {"demo"}

\* of: the request whose session, code or token this one names.  user: who proves, or is
\* updated.  good: the proof verifies, the client is authenticated or first-party, the
\* token introspected is the access token.
\* banned: what an update says of the ban ("keep" when the field is not supplied).
CallType == [op : Ops, of : Calls \cup {"none"}, user : Users \cup {"none"}, good : BOOLEAN,
             banned : {"keep", "yes", "no"}]

VARIABLES
    load,       \* what this behaviour is open to; never changes
    sessions,   \* login sessions: [status, ready, token, by]
    oauths,     \* OAuth sessions: [stored, ttl, initiator, code, user, used]
    codes,      \* code index: the OAuth session of each code
    counts,     \* capacity counters of the two stores
    tokens,     \* refresh_tokens: [state, subject]
    blacklist,  \* revoked_tokens: access tokens, by the request that issued them
    banned,     \* users.banned
    reqs,       \* progress of each request
    faults,     \* commands that have failed
    flushed     \* Redis has lost its data

vars == <<load, sessions, oauths, codes, counts, tokens, blacklist, banned, reqs, faults, flushed>>

NoSession == [status |-> "none", ready |-> FALSE, token |-> "none", by |-> "none"]
NoOAuth == [stored |-> FALSE, ttl |-> TRUE, initiator |-> "none", code |-> "none",
            user |-> "none", used |-> FALSE]
Fresh == [at |-> "start", result |-> "open", made |-> FALSE, session |-> NoSession,
          oauth |-> NoOAuth, user |-> "none", row |-> FALSE, before |-> {}]

Init ==
    /\ load \in Loads
    /\ sessions = [c \in Calls |-> NoSession] /\ oauths = [c \in Calls |-> NoOAuth]
    /\ codes = [c \in Calls |-> "none"] /\ counts = [auth |-> 0, oauth |-> 0]
    /\ tokens = [c \in Calls |-> [state |-> "none", subject |-> "none"]]
    /\ blacklist = {} /\ banned = {}
    /\ reqs = [c \in Calls |-> Fresh] /\ faults = 0 /\ flushed = FALSE
----------------------------------------------------------------------------
Op(c) == load.calls[c].op
Of(c) == load.calls[c].of
User(c) == load.calls[c].user
Good(c) == load.calls[c].good
Redis == load.store = "redis"
Stored(s) == sessions[s].status # "none"
Answered(c) == reqs[c].result # "open"
Ok(c) == reqs[c].result = "ok"

At(c, at) == reqs[c].at = at /\ ~Answered(c)
Goto(c, at) == reqs' = [reqs EXCEPT ![c].at = at]
Finish(c, result) ==
    reqs' = [reqs EXCEPT ![c] = [Fresh EXCEPT !.at = "done", !.result = result,
                                              !.before = reqs[c].before]]

\* A request begins; those on tokens remember which ones were answered before them.
Begin(c, rec) ==
    reqs' = [reqs EXCEPT ![c] =
        [rec EXCEPT !.before = IF Op(c) \in {"token", "refresh", "revoke", "update", "bearer",
                                              "optional", "introspect"}
                               THEN {d \in Calls : Answered(d)} ELSE {}]]
Enter(c, at) == Begin(c, [Fresh EXCEPT !.at = at])
Refuse(c) == Begin(c, [Fresh EXCEPT !.at = "done", !.result = "refused"])

\* Starting c: what it names has been handed out by then.
Starting(c, op) == At(c, "start") /\ Op(c) = op /\ (Of(c) # "none" => Ok(Of(c)))

Fault == faults < load.faults /\ faults' = faults + 1
NoFault == UNCHANGED faults

rows == <<tokens, blacklist, banned>>
stores == <<sessions, oauths, codes, counts>>
Rest == UNCHANGED <<load, flushed>>
----------------------------------------------------------------------------
\* CreateSession: the Redis script counts before it stores; in memory the counter is
\* read, and raised when the session is stored.
Reserve(c) ==
    /\ Op(c) \in {"login", "authorize"} /\ At(c, "start")
    /\ \/ /\ counts.auth < load.max
          /\ counts' = [counts EXCEPT !.auth = IF Redis THEN @ + 1 ELSE @]
          /\ Enter(c, "store") /\ NoFault
       \/ /\ counts.auth >= load.max
          /\ Begin(c, [Fresh EXCEPT !.at = "done", !.result = "full"])
          /\ UNCHANGED counts /\ NoFault
       \/ /\ Redis /\ Fault /\ Refuse(c) /\ UNCHANGED counts
    /\ Rest /\ UNCHANGED <<sessions, oauths, codes, rows>>

Pending(c) == [NoSession EXCEPT !.status = "pending", !.by = c]

StoreSession(c) ==
    /\ At(c, "store")
    /\ \/ /\ sessions' = [sessions EXCEPT ![c] = Pending(c)] /\ NoFault
          /\ counts' = [counts EXCEPT !.auth = IF Redis THEN @ ELSE @ + 1]
          /\ Goto(c, IF Op(c) = "login" THEN "request" ELSE "reserveOAuth")
       \/ /\ Redis /\ Fault
          /\ sessions' \in {sessions, [sessions EXCEPT ![c] = Pending(c)]}
          /\ UNCHANGED counts /\ Goto(c, "decrAuth")
    /\ Rest /\ UNCHANGED <<oauths, codes, rows>>

ReserveOAuth(c) ==
    /\ At(c, "reserveOAuth")
    /\ \/ /\ counts.oauth < load.oauthMax
          /\ counts' = [counts EXCEPT !.oauth = @ + 1] /\ Goto(c, "storeOAuth") /\ NoFault
       \/ /\ counts.oauth >= load.oauthMax
          /\ UNCHANGED counts /\ Goto(c, "deleteAuth") /\ NoFault
       \/ /\ Redis /\ Fault /\ UNCHANGED counts /\ Goto(c, "deleteAuth")
    /\ Rest /\ UNCHANGED <<sessions, oauths, codes, rows>>

NewOAuth(c) == [NoOAuth EXCEPT !.stored = TRUE, !.initiator = User(c)]

StoreOAuth(c) ==
    /\ At(c, "storeOAuth")
    /\ \/ /\ oauths' = [oauths EXCEPT ![c] = NewOAuth(c)] /\ NoFault
          /\ reqs' = [reqs EXCEPT ![c].at = "request", ![c].made = TRUE]
       \/ /\ Redis /\ Fault
          /\ oauths' \in {oauths, [oauths EXCEPT ![c] = NewOAuth(c)]}
          /\ Goto(c, "decrOAuth")
    /\ Rest /\ UNCHANGED <<sessions, codes, counts, rows>>

\* CreateAuthorizationRequest fails, for instance because no verifier is configured.
CreateAuthorizationRequest(c) ==
    /\ \/ NoFault /\ Goto(c, "update")
       \/ Fault /\ Goto(c, "deleteAuth")
    /\ Rest /\ UNCHANGED <<stores, rows>>

handleAuthRequest(c) == Op(c) = "login" /\ At(c, "request") /\ CreateAuthorizationRequest(c)
handleOAuthAuthorize(c) == Op(c) = "authorize" /\ At(c, "request") /\ CreateAuthorizationRequest(c)

\* UpdateSession: read, then a script that replaces what exists.  Nobody else knows the
\* session yet, so only its expiry can come between.
UpdateSession(c) ==
    /\ At(c, "update")
    /\ \/ /\ Stored(c) /\ NoFault
          /\ sessions' = [sessions EXCEPT ![c].ready = TRUE, ![c].by = c] /\ Finish(c, "ok")
       \/ /\ ~Stored(c) /\ NoFault /\ UNCHANGED sessions /\ Goto(c, "deleteAuth")
       \/ /\ Redis /\ Fault /\ UNCHANGED sessions /\ Goto(c, "deleteAuth")
    /\ Rest /\ UNCHANGED <<oauths, codes, counts, rows>>

\* After the login session is gone: the OAuth session, if one was made.
AfterAuth(c) ==
    IF reqs[c].made THEN Goto(c, "deleteOAuth") ELSE Finish(c, IF Op(c) = "drop" THEN "ok" ELSE "error")
AfterOAuth(c) == IF reqs[c].made THEN Finish(c, "error") ELSE Goto(c, "deleteAuth")

\* DeleteSession: the counter goes down only for a key that was there.
DeleteSession(c) ==
    LET s == IF Op(c) = "drop" THEN Of(c) ELSE c
    IN  /\ At(c, "deleteAuth") /\ NoFault
        /\ sessions' = [sessions EXCEPT ![s] = NoSession]
        /\ IF Stored(s) /\ Redis THEN Goto(c, "decrAuth") /\ UNCHANGED counts
           ELSE /\ counts' = [counts EXCEPT !.auth = IF Stored(s) THEN @ - 1 ELSE @]
                /\ AfterAuth(c)
        /\ Rest /\ UNCHANGED <<oauths, codes, rows>>

\* deleteSession of the administration: a session in flight is ended.
DropStart(c) ==
    /\ Starting(c, "drop")
    /\ \/ (IF Stored(Of(c)) THEN Enter(c, "deleteAuth") ELSE Refuse(c)) /\ NoFault
       \/ Redis /\ Fault /\ Refuse(c)
    /\ Rest /\ UNCHANGED <<stores, rows>>

DeleteOAuth(c) ==
    /\ At(c, "deleteOAuth") /\ NoFault
    /\ oauths' = [oauths EXCEPT ![c].stored = FALSE]
    /\ IF oauths[c].stored /\ Redis THEN Goto(c, "decrOAuth") /\ UNCHANGED counts
       ELSE /\ counts' = [counts EXCEPT !.oauth = IF oauths[c].stored THEN @ - 1 ELSE @]
            /\ AfterOAuth(c)
    /\ Rest /\ UNCHANGED <<sessions, codes, rows>>

\* decrCount of Redis: DECR, then SET 0 when the answer is negative.
DecrAuth(c) ==
    /\ At(c, "decrAuth")
    /\ \/ /\ counts' = [counts EXCEPT !.auth = @ - 1] /\ NoFault
          /\ IF counts.auth - 1 < 0 THEN Goto(c, "clampAuth") ELSE AfterAuth(c)
       \/ Fault /\ UNCHANGED counts /\ AfterAuth(c)
    /\ Rest /\ UNCHANGED <<sessions, oauths, codes, rows>>

ClampAuth(c) ==
    /\ At(c, "clampAuth") /\ NoFault
    /\ counts' = [counts EXCEPT !.auth = 0] /\ AfterAuth(c)
    /\ Rest /\ UNCHANGED <<sessions, oauths, codes, rows>>

DecrOAuth(c) ==
    /\ At(c, "decrOAuth")
    /\ \/ /\ counts' = [counts EXCEPT !.oauth = @ - 1] /\ NoFault
          /\ IF counts.oauth - 1 < 0 THEN Goto(c, "clampOAuth") ELSE AfterOAuth(c)
       \/ Fault /\ UNCHANGED counts /\ AfterOAuth(c)
    /\ Rest /\ UNCHANGED <<sessions, oauths, codes, rows>>

ClampOAuth(c) ==
    /\ At(c, "clampOAuth") /\ NoFault
    /\ counts' = [counts EXCEPT !.oauth = 0] /\ AfterOAuth(c)
    /\ Rest /\ UNCHANGED <<sessions, oauths, codes, rows>>
----------------------------------------------------------------------------
\* verifyAndIssueTokens: the proof; a bad one is recorded on the session.
verifyAndIssueTokens(c) == Enter(c, IF Good(c) THEN "ensure" ELSE "fail")

\* handleAuthCallback, of the wallet
CallbackStart(c) ==
    /\ Starting(c, "callback")
    /\ IF ~Stored(Of(c)) THEN Refuse(c) ELSE verifyAndIssueTokens(c)
    /\ Rest /\ NoFault /\ UNCHANGED <<stores, rows>>

\* handleAuthVerify, outside production
VerifyStart(c) ==
    /\ Starting(c, "verify")
    /\ IF ~Stored(Of(c)) THEN Refuse(c) ELSE verifyAndIssueTokens(c)
    /\ Rest /\ NoFault /\ UNCHANGED <<stores, rows>>

\* scheduleDemoAutoAuth, once its delay is over.
DemoStart(c) ==
    /\ Starting(c, "demo")
    /\ IF sessions[Of(c)].status \in {"none", "completed"} THEN Refuse(c) ELSE Enter(c, "ensure")
    /\ Rest /\ NoFault /\ UNCHANGED <<stores, rows>>

\* handleOAuthCallback: an OAuth session and its login session, and the proof.
OAuthCallbackStart(c) ==
    /\ Starting(c, "oauthCallback")
    /\ IF oauths[Of(c)].stored /\ Stored(Of(c)) /\ Good(c) THEN Enter(c, "ensure") ELSE Refuse(c)
    /\ Rest /\ NoFault /\ UNCHANGED <<stores, rows>>

\* handleOAuthSilentComplete, for the initiator and a first-party client.
SilentStart(c) ==
    /\ Starting(c, "silent")
    /\ LET o == oauths[Of(c)]
       IN  IF o.stored /\ o.code = "none" /\ o.initiator = User(c) /\ Good(c)
           THEN Enter(c, "ensure") ELSE Refuse(c)
    /\ Rest /\ NoFault /\ UNCHANGED <<stores, rows>>

\* handleOAuthMockComplete and scheduleOAuthDemoAutoAuth, outside production.
MockStart(c) ==
    /\ Starting(c, "mock")
    /\ IF oauths[Of(c)].stored /\ oauths[Of(c)].code = "none" THEN Enter(c, "ensure") ELSE Refuse(c)
    /\ Rest /\ NoFault /\ UNCHANGED <<stores, rows>>

\* mutant: a refresh does not look at the ban
ChecksBanAtLogin(op) == op \in Proving \cup {"oauthCallback"}

\* Where EnsureUserExists leads: on success, for a banned user, and on an error, which only
\* the wallet callback treats as one.
Onward(op) == CASE op \in Issuing -> "save" [] op = "refresh" -> "rotate"
               [] OTHER -> "setCode"
ChecksBan(op) == op \in Proving \cup {"oauthCallback", "refresh"}

\* The polling browser is told.
failAuthSession(c) == Goto(c, "fail")

EnsureUser(c) ==
    /\ At(c, "ensure")
    /\ LET u == IF Op(c) = "refresh" THEN reqs[c].user ELSE User(c)
       IN  \/ /\ u \in banned /\ ChecksBan(Op(c)) /\ NoFault
              /\ CASE Op(c) \in Proving -> failAuthSession(c)
                   [] Op(c) = "refresh" -> Goto(c, "reject")
                   [] OTHER -> Finish(c, "refused")
           \/ /\ u \notin banned \/ ~ChecksBan(Op(c))
              /\ Goto(c, Onward(Op(c))) /\ NoFault
           \/ /\ Fault
              /\ IF Op(c) \in Proving THEN failAuthSession(c) ELSE Goto(c, Onward(Op(c)))
    /\ Rest /\ UNCHANGED <<stores, rows>>

Subject(c) == IF Op(c) \in {"token", "refresh"} THEN reqs[c].user ELSE User(c)

\* SaveRefreshToken; the answer of a failed statement may be all that was lost.
SaveToken(c) ==
    LET saved == [tokens EXCEPT ![c] = [state |-> "live", subject |-> Subject(c)]]
    IN  /\ At(c, "save")
        /\ \/ /\ tokens' = saved /\ NoFault
              /\ IF Op(c) \in Issuing THEN Goto(c, "complete") ELSE Finish(c, "ok")
           \/ /\ tokens' \in {tokens, saved} /\ Fault
              /\ IF Op(c) \in Proving THEN failAuthSession(c) ELSE Finish(c, "error")
        /\ Rest /\ UNCHANGED <<stores, blacklist, banned>>

\* CompleteSession writes the session it read, completed; an OAuth completion carries no
\* tokens.  Its own failure is only logged.
Completed(rec, c) ==
    [rec EXCEPT !.status = "completed", !.by = c,
                !.token = IF Op(c) \in Issuing THEN c ELSE "none"]

CompleteRead(c) ==
    /\ At(c, "complete")
    /\ \/ /\ ~Stored(Of(c)) /\ NoFault /\ Finish(c, "ok") /\ UNCHANGED sessions
       \/ /\ Stored(Of(c)) /\ Redis /\ NoFault /\ UNCHANGED sessions
          /\ reqs' = [reqs EXCEPT ![c].at = "completeWrite", ![c].session = sessions[Of(c)]]
       \/ /\ Stored(Of(c)) /\ ~Redis /\ NoFault /\ Finish(c, "ok")
          /\ sessions' = [sessions EXCEPT ![Of(c)] = Completed(@, c)]
       \/ /\ Redis /\ Fault /\ Finish(c, "ok") /\ UNCHANGED sessions
    /\ Rest /\ UNCHANGED <<oauths, codes, counts, rows>>

CompleteWrite(c) ==
    LET s == Of(c)
        written == [sessions EXCEPT ![s] = IF Stored(s) THEN Completed(reqs[c].session, c) ELSE @]
    IN  /\ At(c, "completeWrite") /\ Finish(c, "ok")
        /\ \/ sessions' = written /\ NoFault
           \/ sessions' \in {sessions, written} /\ Fault
        /\ Rest /\ UNCHANGED <<oauths, codes, counts, rows>>

\* FailSession: a completed session is left alone; the write happens only on the bytes
\* that were read.
Failed(rec, c) == [rec EXCEPT !.status = "failed", !.by = c]

FailRead(c) ==
    LET s == Of(c)
    IN  /\ At(c, "fail")
        /\ \/ /\ ~Stored(s) \/ sessions[s].status = "completed"
              /\ NoFault /\ Finish(c, "refused") /\ UNCHANGED sessions
           \/ /\ sessions[s].status \in {"pending", "failed"} /\ Redis /\ NoFault
              /\ reqs' = [reqs EXCEPT ![c].at = "failWrite", ![c].session = sessions[s]]
              /\ UNCHANGED sessions
           \/ /\ sessions[s].status \in {"pending", "failed"} /\ ~Redis /\ NoFault
              /\ sessions' = [sessions EXCEPT ![s] = Failed(@, c)] /\ Finish(c, "refused")
           \/ /\ Redis /\ Fault /\ Finish(c, "refused") /\ UNCHANGED sessions
        /\ Rest /\ UNCHANGED <<oauths, codes, counts, rows>>

\* mutant: the script only checks that the session exists
FailWriteAnyway(c) ==
    LET s == Of(c)
    IN  /\ At(c, "failWrite") /\ Finish(c, "refused") /\ NoFault
        /\ sessions' = [sessions EXCEPT ![s] = IF Stored(s) THEN Failed(reqs[c].session, c) ELSE @]
        /\ Rest /\ UNCHANGED <<oauths, codes, counts, rows>>

FailWrite(c) ==
    LET s == Of(c)
        same == Stored(s) /\ sessions[s] = reqs[c].session
        written == [sessions EXCEPT ![s] = IF same THEN Failed(@, c) ELSE @]
    IN  /\ At(c, "failWrite") /\ Finish(c, "refused")
        /\ \/ sessions' = written /\ NoFault
           \/ sessions' \in {sessions, written} /\ Fault
        /\ Rest /\ UNCHANGED <<oauths, codes, counts, rows>>

\* SetCode: the session is read, and replaced with the code in it; the index gets the code.
WithCode(rec, c) == [rec EXCEPT !.code = c, !.user = User(c)]

SetCodeRead(c) ==
    LET o == Of(c)
    IN  /\ At(c, "setCode")
        /\ \/ ~oauths[o].stored /\ NoFault /\ Finish(c, "error") /\ UNCHANGED <<oauths, codes>>
           \/ /\ oauths[o].stored /\ Redis /\ NoFault /\ UNCHANGED <<oauths, codes>>
              /\ reqs' = [reqs EXCEPT ![c].at = "setCodeWrite", ![c].oauth = oauths[o]]
           \/ /\ oauths[o].stored /\ ~Redis /\ NoFault /\ Goto(c, "complete")
              /\ oauths' = [oauths EXCEPT ![o] = WithCode(@, c)]
              /\ codes' = [codes EXCEPT ![c] = o]
           \/ Redis /\ Fault /\ Finish(c, "error") /\ UNCHANGED <<oauths, codes>>
        /\ Rest /\ UNCHANGED <<sessions, counts, rows>>

SetCodeWrite(c) ==
    LET o == Of(c)
        write(x) == /\ oauths' = [oauths EXCEPT ![x] =
                                     [WithCode(reqs[c].oauth, c) EXCEPT !.ttl = oauths[x].ttl]]
                    /\ codes' = [codes EXCEPT ![c] = x]
    IN  /\ At(c, "setCodeWrite")
        /\ \/ ~oauths[o].stored /\ NoFault /\ Finish(c, "error") /\ UNCHANGED <<oauths, codes>>
           \/ oauths[o].stored /\ write(o) /\ NoFault /\ Goto(c, "complete")
           \/ oauths[o].stored /\ write(o) /\ Fault /\ Finish(c, "error")
           \/ Fault /\ Finish(c, "error") /\ UNCHANGED <<oauths, codes>>
        /\ Rest /\ UNCHANGED <<sessions, counts, rows>>
----------------------------------------------------------------------------
\* handleOAuthToken: the session of the code, and the client; a code names the completion
\* that minted it.
TokenStart(c) ==
    LET o == codes[Of(c)]
    IN  /\ Starting(c, "token")
        /\ IF o # "none" /\ Good(c)
           THEN IF oauths[o].stored
                THEN Begin(c, [Fresh EXCEPT !.at = "mark", !.user = oauths[o].user])
                ELSE Refuse(c)
           ELSE Refuse(c)
        /\ Rest /\ NoFault /\ UNCHANGED <<stores, rows>>

\* MarkCodeUsed in memory, under the lock of the session, which the handler goes on reading.
MarkInMemory(c) ==
    LET o == codes[Of(c)]
    IN  /\ At(c, "mark") /\ ~Redis /\ NoFault
        /\ IF o = "none" THEN Finish(c, "refused") /\ UNCHANGED oauths
           ELSE IF ~oauths[o].stored \/ oauths[o].used
           THEN Finish(c, "refused") /\ UNCHANGED oauths
           ELSE /\ oauths' = [oauths EXCEPT ![o].used = TRUE]
                /\ reqs' = [reqs EXCEPT ![c].at = "issue", ![c].user = oauths[o].user]
        /\ Rest /\ UNCHANGED <<sessions, codes, counts, rows>>

\* MarkCodeUsed in Redis: a script reads, a second one writes what was read, marked.
MarkRead(c) ==
    LET o == codes[Of(c)]
    IN  /\ At(c, "mark") /\ Redis
        /\ \/ Fault /\ Finish(c, "refused")
           \/ o = "none" /\ NoFault /\ Finish(c, "refused")
           \/ /\ o # "none" /\ NoFault
              /\ IF ~oauths[o].stored \/ oauths[o].used THEN Finish(c, "refused")
                 ELSE reqs' = [reqs EXCEPT ![c].at = "markWrite", ![c].oauth = oauths[o]]
        /\ Rest /\ UNCHANGED <<stores, rows>>

\* The second script does not ask whether the session still exists: one that expired
\* meanwhile is back, without a time to live.
MarkWrite(c) ==
    LET o == Of(Of(c))
        write(x) == /\ oauths' = [oauths EXCEPT ![x] =
                           [reqs[c].oauth EXCEPT !.used = TRUE, !.ttl = oauths[x].stored /\ oauths[x].ttl]]
                    /\ codes' = [codes EXCEPT ![Of(c)] = "none"]
    IN  /\ At(c, "markWrite")
        /\ \/ write(o) /\ NoFault /\ Goto(c, "issue")
           \/ write(o) /\ Fault /\ Finish(c, "refused")
           \/ Fault /\ Finish(c, "refused") /\ UNCHANGED <<oauths, codes>>
        /\ Rest /\ UNCHANGED <<sessions, counts, rows>>

\* The user is the one of the session as it was first read; in memory, as it is now.
Issue(c) ==
    LET o == Of(Of(c))
    IN  /\ At(c, "issue") /\ NoFault
        /\ reqs' = [reqs EXCEPT ![c].at = "save",
                        ![c].user = IF ~Redis /\ oauths[o].stored THEN oauths[o].user ELSE @]
        /\ Rest /\ UNCHANGED <<stores, rows>>
----------------------------------------------------------------------------
\* handleRefresh: the row of the token; then the user (EnsureUser); then the old token is
\* revoked, which is only logged when it fails, and the new one saved.
RefreshStart(c) ==
    LET t == tokens[Of(c)]
    IN  /\ Starting(c, "refresh") /\ NoFault
        /\ IF t.state = "live"
           THEN Begin(c, [Fresh EXCEPT !.at = "ensure", !.user = t.subject]) ELSE Refuse(c)
        /\ Rest /\ UNCHANGED <<stores, rows>>

RevokeRow(t) ==
    [tokens EXCEPT ![t].state = IF @ = "live" THEN "revoked" ELSE @]

RejectBanned(c) ==
    /\ At(c, "reject") /\ Finish(c, "refused")
    /\ \/ tokens' = RevokeRow(Of(c)) /\ NoFault
       \/ tokens' \in {tokens, RevokeRow(Of(c))} /\ Fault
    /\ Rest /\ UNCHANGED <<stores, blacklist, banned>>

Rotate(c) ==
    /\ At(c, "rotate") /\ Goto(c, "save")
    /\ \/ tokens' = RevokeRow(Of(c)) /\ NoFault
       \/ tokens' \in {tokens, RevokeRow(Of(c))} /\ Fault
    /\ Rest /\ UNCHANGED <<stores, blacklist, banned>>

\* handleRevoke: the access token first; when that fails the refresh token stays.
RevokeStart(c) ==
    /\ Starting(c, "revoke")
    /\ \/ blacklist' = blacklist \cup {Of(c)} /\ Enter(c, "revoke") /\ NoFault
       \/ /\ blacklist' \in {blacklist, blacklist \cup {Of(c)}} /\ Fault
          /\ Begin(c, [Fresh EXCEPT !.at = "done", !.result = "error"])
    /\ Rest /\ UNCHANGED <<stores, tokens, banned>>

RevokeToken(c) ==
    /\ At(c, "revoke")
    /\ \/ tokens' = RevokeRow(Of(c)) /\ NoFault /\ Finish(c, "ok")
       \/ tokens' \in {tokens, RevokeRow(Of(c))} /\ Fault /\ Finish(c, "error")
    /\ Rest /\ UNCHANGED <<stores, blacklist, banned>>

\* updateRBACUser: the row is read, the supplied fields are set in it, and it is written
\* whole; a ban then revokes the refresh tokens of the user, which is only logged when it
\* fails.
UpdateStart(c) ==
    /\ Starting(c, "update") /\ NoFault
    /\ LET given == load.calls[c].banned
       IN  Begin(c, [Fresh EXCEPT !.at = "write",
                         !.row = IF given = "keep" THEN User(c) \in banned ELSE given = "yes"])
    /\ Rest /\ UNCHANGED <<stores, rows>>

WriteUser(c) ==
    LET written == IF reqs[c].row THEN banned \cup {User(c)} ELSE banned \ {User(c)}
    IN  /\ At(c, "write")
        /\ \/ /\ banned' = written /\ NoFault
              /\ IF load.calls[c].banned = "yes" THEN Goto(c, "revokeAll") ELSE Finish(c, "ok")
           \/ banned' \in {banned, written} /\ Fault /\ Finish(c, "error")
        /\ Rest /\ UNCHANGED <<stores, tokens, blacklist>>

RevokeBySubject(c) ==
    LET revoked == [t \in Calls |-> IF tokens[t].subject = User(c) THEN RevokeRow(t)[t]
                                    ELSE tokens[t]]
    IN  /\ At(c, "revokeAll") /\ Finish(c, "ok")
        /\ \/ tokens' = revoked /\ NoFault
           \/ tokens' \in {tokens, revoked} /\ Fault
        /\ Rest /\ UNCHANGED <<stores, blacklist, banned>>
----------------------------------------------------------------------------
\* A read is answered, with what it read.
Told(c, result, session, oauth) ==
    Begin(c, [Fresh EXCEPT !.at = "done", !.result = result, !.session = session, !.oauth = oauth])
Readonly == Rest /\ UNCHANGED <<stores, rows>>

\* The browser polls its login, or its OAuth login for the code; a session that cannot be
\* read counts as none.
handleAuthSessionStatus(c) ==
    LET s == sessions[Of(c)]
    IN  /\ Starting(c, "poll") /\ Readonly
        /\ \/ /\ NoFault
              /\ Told(c, CASE s.status = "none" -> "refused" [] s.status = "completed" -> "ok"
                           [] OTHER -> "waiting", s, NoOAuth)
           \/ Redis /\ Fault /\ Refuse(c)

handleOAuthSessionStatus(c) ==
    LET o == oauths[Of(c)]
    IN  /\ Starting(c, "oauthPoll") /\ Readonly
        /\ \/ /\ NoFault
              /\ Told(c, CASE ~o.stored -> "refused" [] o.stored /\ o.code # "none" -> "ok"
                           [] OTHER -> "waiting", NoSession, o)
           \/ Redis /\ Fault /\ Refuse(c)

IsAccessTokenRevoked(t) == t \in blacklist
IsUserBannedBySubject(u) == u \in banned
GetRefreshToken(t) == tokens[t]

\* A request with an access token, the one that call Of(c) was answered with: the API's
\* middleware asks whether it is revoked, ...
JWTAuthMiddleware(c) ==
    /\ Starting(c, "bearer") /\ Readonly
    /\ \/ NoFault /\ Told(c, IF IsAccessTokenRevoked(Of(c)) THEN "refused" ELSE "ok", NoSession, NoOAuth)
       \/ Fault /\ Told(c, "error", NoSession, NoOAuth)

\* ... that of the node's and the explorer's routes also whether the user is banned.
OptionalJWTAuthMiddleware(c) ==
    /\ Starting(c, "optional") /\ Readonly
    /\ \/ NoFault /\ (IF IsAccessTokenRevoked(Of(c)) THEN Refuse(c) ELSE Enter(c, "banCheck"))
       \/ Fault /\ Told(c, "error", NoSession, NoOAuth)

BanCheck(c) ==
    /\ At(c, "banCheck") /\ Readonly
    /\ \/ NoFault /\ Finish(c, IF IsUserBannedBySubject(tokens[Of(c)].subject) THEN "refused" ELSE "ok")
       \/ Fault /\ Finish(c, "error")

\* Introspection: an access token whose revocation cannot be looked up is called active, a
\* refresh token is not.
handleIntrospect(c) ==
    LET active == IF Good(c) THEN ~IsAccessTokenRevoked(Of(c)) ELSE GetRefreshToken(Of(c)).state = "live"
    IN  /\ Starting(c, "introspect") /\ Readonly
        /\ \/ NoFault /\ Told(c, IF active THEN "ok" ELSE "refused", NoSession, NoOAuth)
           \/ Fault /\ Told(c, IF Good(c) THEN "ok" ELSE "refused", NoSession, NoOAuth)
----------------------------------------------------------------------------
\* A session reaches its time to live; only the memory stores count it down.
ExpireSession(s) ==
    /\ load.expire /\ Stored(s) /\ NoFault
    /\ sessions' = [sessions EXCEPT ![s] = NoSession]
    /\ counts' = [counts EXCEPT !.auth = IF Redis THEN @ ELSE @ - 1]
    /\ Rest /\ UNCHANGED <<oauths, codes, rows, reqs>>

ExpireOAuth(o) ==
    /\ load.expire /\ oauths[o].stored /\ oauths[o].ttl /\ NoFault
    /\ oauths' = [oauths EXCEPT ![o].stored = FALSE]
    /\ counts' = [counts EXCEPT !.oauth = IF Redis THEN @ ELSE @ - 1]
    /\ Rest /\ UNCHANGED <<sessions, codes, rows, reqs>>

ExpireCode(c) ==
    /\ load.expire /\ codes[c] # "none" /\ NoFault
    /\ codes' = [codes EXCEPT ![c] = "none"]
    /\ Rest /\ UNCHANGED <<sessions, oauths, counts, rows, reqs>>

\* Redis restarts without its data.
Flush ==
    /\ load.flush /\ ~flushed /\ Redis /\ flushed' = TRUE /\ NoFault
    /\ sessions' = [s \in Calls |-> NoSession]
    /\ oauths' = [o \in Calls |-> [oauths[o] EXCEPT !.stored = FALSE]]
    /\ codes' = [c \in Calls |-> "none"] /\ counts' = [auth |-> 0, oauth |-> 0]
    /\ UNCHANGED <<load, rows, reqs>>

Next ==
    \/ \E c \in Calls :
          \/ Reserve(c) \/ StoreSession(c) \/ ReserveOAuth(c) \/ StoreOAuth(c)
          \/ handleAuthRequest(c) \/ handleOAuthAuthorize(c) \/ UpdateSession(c)
          \/ DeleteSession(c) \/ DropStart(c) \/ DeleteOAuth(c)
          \/ DecrAuth(c) \/ ClampAuth(c) \/ DecrOAuth(c) \/ ClampOAuth(c)
          \/ CallbackStart(c) \/ VerifyStart(c) \/ DemoStart(c) \/ OAuthCallbackStart(c) \/ SilentStart(c)
          \/ MockStart(c) \/ EnsureUser(c) \/ SaveToken(c) \/ CompleteRead(c)
          \/ CompleteWrite(c) \/ FailRead(c) \/ FailWrite(c) \/ SetCodeRead(c)
          \/ SetCodeWrite(c) \/ TokenStart(c) \/ MarkInMemory(c) \/ MarkRead(c)
          \/ MarkWrite(c) \/ Issue(c) \/ RefreshStart(c) \/ RejectBanned(c) \/ Rotate(c)
          \/ RevokeStart(c) \/ RevokeToken(c) \/ UpdateStart(c) \/ WriteUser(c)
          \/ RevokeBySubject(c)
          \/ handleAuthSessionStatus(c) \/ handleOAuthSessionStatus(c) \/ JWTAuthMiddleware(c)
          \/ OptionalJWTAuthMiddleware(c) \/ BanCheck(c) \/ handleIntrospect(c)
          \/ ExpireSession(c) \/ ExpireOAuth(c) \/ ExpireCode(c)
    \/ Flush

Spec == Init /\ [][Next]_vars
----------------------------------------------------------------------------
Results == {"open", "ok", "waiting", "refused", "full", "error"}
Steps == {"start", "store", "reserveOAuth", "storeOAuth", "request", "update", "deleteAuth",
          "deleteOAuth", "decrAuth", "clampAuth", "decrOAuth", "clampOAuth", "ensure", "fail",
          "failWrite", "save", "complete", "completeWrite", "setCode", "setCodeWrite", "mark",
          "markWrite", "issue", "reject", "rotate", "revoke", "write", "revokeAll", "banCheck", "done"}
SessionType == [status : {"none", "pending", "failed", "completed"}, ready : BOOLEAN,
                token : Calls \cup {"none"}, by : Calls \cup {"none"}]
OAuthType == [stored : BOOLEAN, ttl : BOOLEAN, initiator : Users \cup {"none"},
              code : Calls \cup {"none"}, user : Users \cup {"none"}, used : BOOLEAN]

\* The stores and the tables keep their shapes: a refresh token that was never saved has no
\* state, one that was has a subject; a code in the index is that of an OAuth completion.
TypeOK ==
    /\ sessions \in [Calls -> SessionType] /\ oauths \in [Calls -> OAuthType]
    /\ codes \in [Calls -> Calls \cup {"none"}]
    /\ \A c \in Calls : codes[c] # "none" =>
          Op(c) \in {"oauthCallback", "silent", "mock"} /\ codes[c] = Of(c)
    /\ counts \in [auth : Int, oauth : Int]
    /\ tokens \in [Calls -> [state : {"none", "live", "revoked"}, subject : Users \cup {"none"}]]
    /\ \A c \in Calls : tokens[c].state = "none" <=> tokens[c].subject = "none"
    /\ blacklist \subseteq Calls /\ banned \subseteq Users
    /\ reqs \in [Calls -> [at : Steps, result : Results, made : BOOLEAN, session : SessionType,
                           oauth : OAuthType, user : Users \cup {"none"}, row : BOOLEAN,
                           before : SUBSET Calls]]
    /\ faults \in 0..load.faults /\ flushed \in BOOLEAN

\* "A success always wins over a failure": while a completed session is stored it stays
\* completed, whatever failing or repeated callback of it is still under way.
SuccessWins ==
    [][\A s \in Calls : sessions[s].status = "completed"
                           => sessions'[s].status \in {"completed", "none"}]_vars

\* What the polling browser is handed: the tokens of a callback of that very session,
\* already saved, and never a session completed without tokens outside an OAuth login.
\* A code it is handed is that of a completion of that very OAuth login.
PolledTokensReal ==
    LET real(s, rec) ==
            rec.status = "completed" =>
                IF rec.token = "none" THEN Op(s) = "authorize"
                ELSE /\ Op(rec.token) \in Issuing /\ Of(rec.token) = s
                     /\ tokens[rec.token].subject = User(rec.token)
    IN  /\ \A s \in Calls : real(s, sessions[s])
        /\ \A c \in Calls : Op(c) = "poll" /\ Ok(c) => real(Of(c), reqs[c].session)
        /\ \A c \in Calls : Op(c) = "oauthPoll" /\ Ok(c) => Of(reqs[c].oauth.code) = Of(c)

\* The requests of a kind that were served.
Served(op) == {c \in Calls : Op(c) = op /\ Ok(c)}

\* An authorization code is exchanged once: in memory always, in Redis unless the two
\* exchanges overlapped (MarkCodeUsed reads and writes in two scripts).
CodeUsedOnce ==
    \A c, d \in Served("token") :
        c # d /\ Of(c) = Of(d) => Redis /\ c \notin reqs[d].before /\ d \notin reqs[c].before

\* In memory one OAuth login is exchanged once, however many completions minted codes.
LoginExchangedOnce ==
    ~Redis => \A c, d \in Served("token") : c # d => Of(Of(c)) # Of(Of(d))

\* The Redis store never holds more sessions than its capacity, a session whose SET was
\* carried out but not acknowledged aside; losing the data loses the count with it.
CapacityRespected ==
    Redis /\ ~flushed =>
        /\ Cardinality({s \in Calls : Stored(s) /\ reqs[s].result # "error"
                                        /\ reqs[s].at # "decrAuth"}) <= load.max
        /\ Cardinality({o \in Calls : oauths[o].stored /\ reqs[o].result # "error"
                                        /\ (reqs[o].made \/ reqs[o].result = "ok")})
              <= load.oauthMax

\* The counters: in memory the login counter is the number of sessions; in Redis a counter
\* is negative only while the request that took it there is about to reset it.
CounterRecovers ==
    /\ ~Redis => counts.auth = Cardinality({s \in Calls : Stored(s)})
    /\ counts.auth < 0 => \E c \in Calls : At(c, "clampAuth")
    /\ counts.oauth < 0 => \E c \in Calls : At(c, "clampOAuth")

\* One token is rotated into one successor, unless two refreshes of it overlapped or a
\* statement failed.
RotatedOnce ==
    \A c, d \in Served("refresh") :
        c # d /\ Of(c) = Of(d) => faults > 0 \/ (c \notin reqs[d].before /\ d \notin reqs[c].before)

Family(t) == {t} \cup {c \in Calls : Op(c) = "refresh" /\ Of(c) = t}

\* Logging out with the newest token of a login ends it: its access token is refused and
\* no refresh token of the login is usable, unless a refresh was under way.
LogoutSticks ==
    \A r \in Served("revoke") :
        LET t == Of(r)
            others == Family(t) \ {t}
        IN  /\ t \in blacklist
            /\ (\A c \in others : \/ reqs[c].at = "start"
                                  \/ r \in reqs[c].before
                                  \/ c \in reqs[r].before /\ reqs[c].result = "refused")
               => \A c \in Family(t) : tokens[c].state # "live"
            /\ \A c \in Calls : /\ Op(c) \in {"bearer", "optional", "introspect"} /\ Of(c) = t
                                /\ r \in reqs[c].before /\ Ok(c)
                                => Op(c) = "introspect" /\ faults > 0

\* A ban outlives one failure: after an answered ban a refresh with a token from before it
\* fails unless two statements failed, one with a token that an overlapping request or a
\* code from before the ban yielded fails unless one did; and no access token, revoked or
\* not, opens the node's routes.  Updates of the same user that overlap or follow the ban
\* are out of its scope.
BanHolds ==
    \A b \in Served("update"), c \in Served("refresh") \cup Served("optional") :
        /\ load.calls[b].banned = "yes" /\ b \in reqs[c].before
        /\ tokens[IF Op(c) = "refresh" THEN c ELSE Of(c)].subject = User(b)
        /\ \A e \in Calls \ {b} : Op(e) = "update" /\ User(e) = User(b) /\ reqs[e].at # "start"
                                     => e \in reqs[b].before
        => Op(c) = "refresh" /\ faults >= IF Of(c) \in reqs[b].before THEN 2 ELSE 1

\* A login ends once and rightly, however its requests overlap and whatever commands fail:
\* the polling browser gets real tokens, a code is exchanged once, a success is not
\* overwritten, and the capacity counters stay right.
LoginsSound ==
    /\ [](/\ TypeOK /\ PolledTokensReal /\ CodeUsedOnce /\ LoginExchangedOnce
          /\ CapacityRespected /\ CounterRecovers)
    /\ SuccessWins

\* Tokens end: one is rotated once, a logout ends its login, a ban holds.
TokensEnd == RotatedOnce /\ LogoutSticks /\ BanHolds
=============================================================================
