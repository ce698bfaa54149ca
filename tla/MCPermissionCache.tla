-------------------------- MODULE MCPermissionCache --------------------------
(* Instances of PermissionCache: who resolves, who changes what, and what fails. *)
EXTENDS PermissionCache, Sequences

Names == <<"a", "b", "c">>
Call(op, user, at, g) == [op |-> op, user |-> user, at |-> at, grant |-> g]
Plan(seq) ==
    [x \in Calls |-> IF \E i \in DOMAIN seq : Names[i] = x
                     THEN seq[CHOOSE i \in DOMAIN seq : Names[i] = x]
                     ELSE Call("none", "u", "r", "none")]

Check(u, r) == Call("check", u, r, "none")
Lookup(u) == Call("lookup", u, "r", "none")
Do(op) == Call(op, "u", "r", "none")
Regrant(g) == Call("regrant", "u", "r", g)

Never == MaxTime + 1
Load(redis, who, g, until, ttl, cap, ticks, most, plan) ==
    [redis |-> redis, members |-> who, grant |-> g, until |-> [u |-> until, v |-> Never],
     ttl |-> ttl, cap |-> cap, ticks |-> ticks, faults |-> most, calls |-> Plan(plan)]

Both == {"u", "v"}
Changes == {Do(op) : op \in {"join", "leave", "purge", "unshare", "drop", "dissolve", "disband"}}
           \cup {Regrant("events")}

\* One change, whole, against two requests for the same user at one replica or at two, and
\* against requests for both users of a cache with room for one; two changes against a
\* request; a membership that ends while it is cached; statements that fail.
Instances ==
    {Load(FALSE, IF w.op = "join" THEN {"v"} ELSE Both, "all", Never, 1, 2, 0, 0,
          <<Check("u", "r"), Check("u", "r"), w>>) : w \in Changes}
    \cup {Load(TRUE, Both, "all", Never, 1, 2, 0, 0, <<Check("u", "r"), Check("u", "s"), w>>) :
              w \in {Do("leave"), Do("drop"), Do("dissolve"), Regrant("events")}}
    \cup {Load(FALSE, Both, "events", Never, 1, 1, 0, 0,
          <<Check("v", "r"), Check(y, "r"), w>>) : y \in Both, w \in {Do("drop"), Regrant("all")}}
    \cup {Load(FALSE, Both, "all", Never, 1, 2, 0, 0, <<Lookup("u"), w, x>>) :
              w \in {Do("leave"), Regrant("none")}, x \in {Do("leave"), Do("purge"), Do("dissolve")}}
    \cup {Load(FALSE, {"v"}, "all", Never, 1, 2, 0, 0, <<Lookup("u"), Do("join"), Do("join")>>)}
    \cup {Load(x, Both, "all", 2, 2, 2, 3, 0, <<Check("u", "r"), Check("u", "r")>>) : x \in BOOLEAN}
    \cup {Load(FALSE, Both, "events", Never, 1, 2, 0, 1,
          <<Check("u", "r"), Check("u", "r"), Do("leave")>>)}
    \cup {Load(TRUE, Both, "events", Never, 1, 2, 0, 1, p) :
              p \in {<<Check("u", "r"), Do("unshare"), Check("u", "r")>>, <<Check("u", "r"), Regrant("all")>>}}
=============================================================================
