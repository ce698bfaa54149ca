---------------------------- MODULE MCAccounts ----------------------------
(***************************************************************************)
(* Small instances of what an account holder goes through: login sessions  *)
(* and their tokens (Sessions), and disclosure requests and grants         *)
(* (DisclosureLists).  A behaviour is one of either; the other one rests.  *)
(***************************************************************************)
EXTENDS DisclosureLists, TLC

CONSTANTS r1, r2, g1, g2, h1, h2

Calls == {"a", "b", "c", "d", "e", "f"}
Users == {"u"}

VARIABLES
    logins, sessions, oauths, codes, counts, tokens, blacklist, banned, reqs, faults, flushed

sessionVars == <<logins, sessions, oauths, codes, counts, tokens, blacklist, banned, reqs,
                 faults, flushed>>

ModelTxs == {[parties |-> {"a", "s"}, time |-> 1], [parties |-> {"b", "s"}, time |-> 2],
             [parties |-> {"a", "s"}, time |-> 3]}

Ask(methods, addresses, range, level) ==
    [methods |-> methods, addresses |-> addresses, range |-> range, level |-> level]
Days(from, to) == [start |-> from, end |-> to]

Wide == Ask({"full_disclosure"}, {}, NoRange, "full")
Narrow == Ask({"transaction_history"}, {"a"}, Days(1, 2), "pseudonymous")
Logs == Ask({"activity_logs"}, {}, Days(2, 2), "")
Plain == Ask({}, {}, NoRange, "")

Access(evs, asked, scopes, narrows, routes, time, most) ==
    [events |-> evs, requests |-> asked, scopes |-> scopes, narrows |-> narrows,
     routes |-> routes, time |-> time, starts |-> most]

NoAccess == Access({}, {r1}, {}, {}, {}, 1, 0)

\* Scopes, narrowings and every route; two subjects and a list of both; overlapping
\* decisions; failing statements; what was stored before.
DisclosureLoads == {
    NoAccess,
    Access({"leave"}, {r1}, {Wide, Narrow, Logs},
         {Plain, Narrow, Logs, [Narrow EXCEPT !.range = Days(1, 3)]}, Routes, 3, 2),
    Access({"leave"}, {r1}, {Plain}, {Plain}, {"transactions"}, 3, 4),
    Access({"erase"}, {r1, r2}, {Plain}, {Plain}, {"list", "activity"}, 1, 4),
    Access({"double"}, {r1}, {Narrow}, {Plain, [Narrow EXCEPT !.level = "full"]},
         {"transactions"}, 1, 4),
    Access({"fault"}, {r1}, {Wide}, {Plain}, {"activity"}, 1, 4),
    Access({"legacy", "fault", "erase"}, {r1, r2}, {Plain}, {Plain}, {"list"}, 2, 3),
    Access({"legacy", "erase"}, {r1}, {Plain}, {Plain}, {"transactions"}, 2, 3)}

Call(op, of, user, good, ban) ==
    [op |-> op, of |-> of, user |-> user, good |-> good, banned |-> ban]

\* The requests a, b, ... of a sequence; the rest of Calls is unused.
Names == <<"a", "b", "c", "d", "e", "f">>
Plan(seq) ==
    [x \in Calls |-> IF \E i \in DOMAIN seq : Names[i] = x
                     THEN seq[CHOOSE i \in DOMAIN seq : Names[i] = x]
                     ELSE Call("none", "none", "none", FALSE, "keep")]

Login == Call("login", "none", "none", TRUE, "keep")
Authorize(u) == Call("authorize", "none", u, TRUE, "keep")
Do(op, of, u) == Call(op, of, u, TRUE, "keep")
BadProof(of, u) == Call("callback", of, u, FALSE, "keep")
Update(u, ban) == Call("update", "none", u, TRUE, ban)

Logins(store, max, oauthMax, most, flush, expire, plan) ==
    [store |-> store, max |-> max, oauthMax |-> oauthMax, faults |-> most, flush |-> flush,
     expire |-> expire, calls |-> Plan(plan)]

NoLogins == Logins("memory", 1, 1, 0, FALSE, FALSE, <<>>)

\* A wallet that retries; an OAuth login completed twice and exchanged; rotation and
\* logout; a ban against refreshes, a login and a code; the stores at capacity; polling,
\* a session ended by an administrator; access tokens against a logout and a ban.
SessionLoads ==
    {NoLogins} \cup {Logins(s, 1, 1, m, FALSE, TRUE,
          <<Login, BadProof("a", "u"), Do("callback", "a", "u"), Do("demo", "a", "u")>>) :
              s \in {"redis", "memory"}, m \in {0, 1}}
    \cup {Logins(s[1], 1, 1, 0, FALSE, TRUE,
          <<Authorize("u"), Do("oauthCallback", "a", "u"), Do(s[2], "a", "u"),
            Do("token", "b", "u"), Do("token", s[3], "u")>>) :
              s \in {<<"redis", "silent", "b">>, <<"redis", "mock", "c">>,
                     <<"memory", "silent", "c">>, <<"memory", "mock", "b">>}}
    \cup {Logins("redis", 1, 1, 1, FALSE, FALSE,
          <<Authorize("u"), Do("oauthCallback", "a", "u"), Do("token", "b", "u")>>)}
    \cup {Logins("redis", 2, 1, 1, TRUE, FALSE, <<Authorize("u"), Authorize("none"), Login>>)}
    \cup {Logins(s, 1, 1, 0, FALSE, TRUE, <<Login, Login, Authorize("none")>>) :
              s \in {"redis", "memory"}}
    \cup {Logins("memory", 1, 1, m, FALSE, FALSE,
          <<Login, Do("callback", "a", "u"), Do("refresh", "b", "u"), Do("refresh", "b", "u"),
            Do("revoke", "b", "u"), Do("refresh", "c", "u")>>) : m \in {0, 1}}
    \cup {Logins("memory", 1, 1, 2, FALSE, FALSE,
          <<Login, Do("callback", "a", "u"), Do("refresh", "b", "u"), Do("refresh", "b", "u"),
            Update("u", "yes")>>)}
    \cup {Logins("redis", 1, 1, 1, FALSE, FALSE,
          <<Authorize("u"), Do("oauthCallback", "a", "u"), Do("token", "b", "u"),
            Update("u", "yes"), Do("refresh", "c", "u")>>)}
    \cup {Logins("memory", 1, 1, 0, FALSE, FALSE,
          <<Login, Do("callback", "a", "u"), Do("refresh", "b", "u"), Update("u", "yes"),
            Update("u", w)>>) : w \in {"keep", "no"}}
    \cup {Logins(s, 1, 1, m, FALSE, m = 0,
          <<Login, Do("verify", "a", "u"), Do("poll", "a", "u"), Do("drop", "a", "u")>>) :
              s \in {"redis", "memory"}, m \in {0, 1}}
    \cup {Logins("redis", 1, 1, 1, FALSE, TRUE,
          <<Authorize("u"), Do("oauthCallback", "a", "u"), Do("oauthPoll", "a", "u")>>)}
    \cup {Logins("memory", 1, 1, 1, FALSE, FALSE,
          <<Login, Do("callback", "a", "u"), Do("revoke", "b", "u"), Do("bearer", "b", "u"),
            Do("introspect", "b", "u"), Call("introspect", "b", "u", FALSE, "keep")>>)}
    \cup {Logins("memory", 1, 1, 1, FALSE, FALSE,
          <<Login, Do("callback", "a", "u"), Update("u", "yes"), Do("optional", "b", "u"),
            Do("revoke", "b", "u")>>)}

S == INSTANCE Sessions WITH Loads <- SessionLoads, load <- logins

InitAccounts == Init /\ S!Init /\ (load = NoAccess) # (logins = NoLogins)

NextAccounts ==
    \/ load # NoAccess /\ Next /\ UNCHANGED sessionVars
    \/ logins # NoLogins /\ S!Next /\ UNCHANGED vars

SpecAccounts == InitAccounts /\ [][NextAccounts]_<<vars, sessionVars>>

Interchangeable == Permutations({g1, g2}) \cup Permutations({h1, h2})

\* A login ends once and rightly, however its requests overlap and whatever commands fail:
\* the polling browser gets real tokens, a code is exchanged once, a success is not
\* overwritten, and the capacity counters stay right.
LoginsSound == S!LoginsSound

\* Tokens end: one is rotated once, a logout ends its login, a ban holds.
TokensEnd == S!TokensEnd
=============================================================================
