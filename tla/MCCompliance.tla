---------------------------- MODULE MCCompliance ----------------------------
(***************************************************************************)
(* Small instances of Compliance for TLC.                                  *)
(***************************************************************************)
EXTENDS Compliance, TLC

On == [enabled |-> TRUE, threshold |-> 4, policy |-> "forbidden", mode |-> "enforce", currency |-> "usd"]
Both(u, e) == [usd |-> u, eur |-> e]
System == [by |-> Both(2, 3), fiat |-> 2, at |-> 1, seen |-> 1]
Manually(by) == [exists |-> TRUE, linked |-> FALSE, by |-> by, fiat |-> by.usd]

Instance(ops, cfg, priced) ==
    [ops |-> ops, config |-> cfg, base |-> "usd", sys |-> System, tokens |-> priced, members |-> {"alice"},
     faults |-> FALSE, fetches |-> FALSE, market |-> {Both(2, 3)}, ticks |-> 1, expires |-> FALSE]

Unpriced == [t \in Tokens |-> NoToken]
Priced(by) == [native |-> NoToken, erc |-> Manually(by)]

Check(op, spender, to, token, amount) ==
    [op |-> op, user |-> "alice", spender |-> spender, from |-> "a", to |-> to, token |-> token, amount |-> amount]
Record(user, amount) == [op |-> "record", user |-> user, to |-> "b", token |-> "native", amount |-> amount]
Config(set) == [op |-> "config", set |-> set]
Price(by, linked) == [op |-> "price", token |-> "erc", by |-> by, linked |-> linked]
Edit(op) == [op |-> op, addr |-> "b", limit |-> 9]
Switch(currency, force) == [op |-> "base", currency |-> currency, force |-> force]

\* Two transfers, or a transfer and a preview, compete for one record, which may be
\* deleted, expire or be claimed by a statement whose answer is lost.
Spending == "c1" :> Record("alice", 2) @@ "c2" :> Check("check", "a", "b", "native", 2)
Records ==
    {[Instance(Spending @@ "c3" :> o, On, Unpriced) EXCEPT !.faults = TRUE, !.expires = TRUE] :
        o \in {Check("check", "a", "b", "native", 2), [op |-> "unrecord", rec |-> "c1"]}}
    \cup {[Instance(Spending @@ "c3" :> Check("preview", "a", "b", "native", 2)
                    @@ "c4" :> Check("check", "a", "b", "native", 3), [On EXCEPT !.mode = "monitor"], Unpriced)
            EXCEPT !.expires = TRUE]}
    \cup {Instance("c1" :> Record("bob", 2) @@ "c2" :> [op |-> "unrecord", rec |-> "c1"], On, Unpriced),
          Instance("c1" :> [Record("alice", 2) EXCEPT !.token = "erc"] @@ "c2" :> [op |-> "unprice", token |-> "erc"],
                   On, Unpriced)}

\* Sanctions and overrides come and go around a transfer sent by the owner or by a spender.
Parties3 ==
    {[Instance("c1" :> Edit("sanction") @@ "c2" :> Edit(op) @@ "c3" :> Check("check", s, t, "native", 1)
               @@ "c4" :> Config([enabled |-> TRUE]),
               [On EXCEPT !.mode = "monitor", !.policy = "allowed"], Unpriced)
        EXCEPT !.faults = op = "unsanction"] :
       op \in {"unsanction", "override", "unoverride"}, s \in {"a", "b", "c"}, t \in {"b", "c"}}

\* Prices age while the base currency is switched, from one side or from two, and the
\* market may show no price in one of the currencies.
Switches ==
    {[Instance("c1" :> Switch("eur", FALSE) @@ "c2" :> o, On, Unpriced)
        EXCEPT !.faults = f, !.fetches = TRUE, !.ticks = t, !.market = m] :
       <<o, f, t, m>> \in
          {<<Switch("usd", TRUE), TRUE, 1, {Both(2, 3)}>>,
           <<Check("check", "a", "b", "native", 1), FALSE, 4, {Both(2, 3)}>>,
           <<Check("preview", "a", "b", "native", 1), FALSE, 1, {Both(2, 3), Both(4, 0)}>>}}

\* Two partial edits of the configuration and a third one.
Edits ==
    {Instance("c1" :> Config([threshold |-> 9]) @@ "c2" :> Config([mode |-> "monitor", currency |-> "eur"])
              @@ "c3" :> Config(set) @@ "c4" :> Check("check", "a", "b", "erc", 2), On, Priced(Both(2, 0))) :
       set \in {[enabled |-> FALSE], [threshold |-> 1], [policy |-> "allowed"]}}

\* Manual prices: two edits, a deletion or a transfer, and a switch of the base currency.
Manuals ==
    {[Instance("c1" :> Price(Both(2, 0), FALSE) @@ "c2" :> Price(Both(0, 3), linked) @@ "c3" :> o
               @@ "c4" :> Switch("eur", force), On, Priced(Both(4, 0)))
        EXCEPT !.faults = linked] :
       <<linked, force, o>> \in
          {<<TRUE, TRUE, [op |-> "unprice", token |-> "erc"]>>, <<FALSE, TRUE, [op |-> "unprice", token |-> "erc"]>>,
           <<FALSE, FALSE, Check("check", "a", "b", "erc", 1)>>,
           <<FALSE, TRUE, [Record("alice", 1) EXCEPT !.token = "erc"]>>}}

Instances == Records \cup Parties3 \cup Switches \cup Edits \cup Manuals
=============================================================================
