----------------------------- MODULE Compliance -----------------------------
(***************************************************************************)
(* Travel-rule compliance of one organization: Checker.Check on a value    *)
(* transfer, the administrators who edit configuration, prices, sanctions, *)
(* overrides and travel-rule records, the switch of the base currency, the *)
(* price service and the retention of expired records                      *)
(* (internal/compliance/checker.go, internal/db/compliance_store.go,       *)
(* internal/server/admin_compliance.go, internal/pricing/service.go).      *)
(* Every statement on the database is a step.  Amounts are whole numbers   *)
(* of tokens, a price of 0 is a price that is not there, and one id stands *)
(* for the prices the service fetches.                                     *)
(***************************************************************************)
EXTENDS Integers, Sequences, FiniteSets, FiniteSetsExt, SequencesExt

CONSTANTS
    Calls,        \* requests; a travel-rule record has the name of the call that made it
    Users, Addrs, Currencies,
    Prices,       \* prices a token may have, a finite set of positive numbers
    Staleness,    \* age beyond which a fetched price is not used
    Loads

None == "none"
Tokens == {"native", "erc"}
NoPrices == [c \in Currencies |-> 0]
NoToken == [exists |-> FALSE, linked |-> FALSE, by |-> NoPrices, fiat |-> 0]

VARIABLES
    load,       \* what a behaviour is open to; it never changes
    config,     \* compliance_config
    base,       \* the setting base_currency
    sys,        \* system_token_prices: [by, fiat, at], and seen, when the market had them
    tokens,     \* token_prices
    overrides,  \* address_threshold_overrides: -1 without a row
    sanctions,  \* sanctioned_addresses
    recs,       \* travel_rule_records, oldest first
    logs,       \* compliance_logs
    now,        \* a clock
    service,    \* the price service: [at, row, cur], and refresh, its channel
    calls       \* progress of each call

tables == <<config, base, sys, tokens, overrides, sanctions, recs, logs>>
vars == <<load, tables, now, service, calls>>

\* before: the calls answered when this one began.  age: of the system price it used.
\* broke: one of its statements failed.
Fresh == [at |-> "start", before |-> {}, cfg |-> [none |-> TRUE], todo |-> <<>>, row |-> NoToken,
          rows |-> [none |-> TRUE], age |-> 0, price |-> 0, value |-> 0, limit |-> -1, rec |-> None,
          decision |-> None, answer |-> None, broke |-> FALSE]

Init ==
    /\ load \in Loads
    /\ config = load.config /\ base = load.base /\ sys = load.sys /\ tokens = load.tokens
    /\ overrides = [a \in Addrs |-> -1] /\ sanctions = {} /\ recs = <<>> /\ logs = {}
    /\ now = 1 /\ service = [at |-> "idle", row |-> load.sys, cur |-> load.base, refresh |-> FALSE]
    /\ calls = [c \in Calls |-> Fresh]

Op(c) == load.ops[c]
At(c, p) == c \in DOMAIN load.ops /\ calls[c].at = p
Is(c, kinds) == c \in DOMAIN load.ops /\ Op(c).op \in kinds
Checks == {"check", "preview"}
Go(c, q) == calls' = [calls EXCEPT ![c] = q]
Answered == {c \in Calls : calls[c].at = "done"}
Begun(c) == IF calls[c].at = "start" THEN [calls[c] EXCEPT !.before = Answered] ELSE calls[c]
Finish(c, q, a) == Go(c, [q EXCEPT !.at = "done", !.answer = a])
Others == <<load, now, service>>
-----------------------------------------------------------------------------
(* Checker.Check *)

\* Whoever sends the transaction, when it is not the owner of the tokens, then the
\* recipient and the owner.
Parties(c) ==
    LET o == Op(c) IN
    (IF o.spender # o.from THEN <<o.spender>> ELSE <<>>) \o <<o.to, o.from>>

CheckConfig(c) ==
    /\ Is(c, Checks) /\ At(c, "start")
    /\ IF config.enabled
       THEN Go(c, [Begun(c) EXCEPT !.at = "sanctions", !.cfg = config, !.todo = Parties(c)])
       ELSE Finish(c, [Begun(c) EXCEPT !.cfg = config], "allowed")
    /\ UNCHANGED <<Others, tables>>

IsAddressSanctioned(c) ==
    LET q == calls[c] IN
    /\ At(c, "sanctions")
    /\ Go(c, IF Head(q.todo) \in sanctions THEN [q EXCEPT !.at = "log", !.decision = "sanctioned"]
             ELSE [q EXCEPT !.todo = Tail(@), !.at = IF Len(q.todo) = 1 THEN "token" ELSE @])
    /\ UNCHANGED <<Others, tables>>

\* An unknown price is allowed by policy, monitored or denied.
WithoutPrice(q) ==
    [q EXCEPT !.at = "log", !.decision = IF q.cfg.policy = "allowed" THEN "unpriced"
                                         ELSE IF q.cfg.mode = "monitor" THEN "monitored" ELSE "denied"]

WithPrice(c, q, p) ==
    IF Op(c).op = "record"
    THEN [q EXCEPT !.price = p, !.value = Op(c).amount * p, !.at = "insert"]
    ELSE IF p = 0 THEN WithoutPrice(q)
    ELSE [q EXCEPT !.price = p, !.value = Op(c).amount * p, !.at = "overrides",
                   !.todo = <<Op(c).from, Op(c).to>>]

\* A linked token, and the native one without a row, take the system price; a manual one
\* takes the price of the currency, or price_fiat when it has no prices by currency.
GetTokenPrice(c) ==
    LET q == calls[c]   t == tokens[Op(c).token] IN
    /\ At(c, "token")
    /\ Go(c, IF (t.exists /\ t.linked) \/ (~t.exists /\ Op(c).token = "native")
             THEN [q EXCEPT !.at = "system"]
             ELSE WithPrice(c, q, IF ~t.exists THEN 0
                                  ELSE IF t.by = NoPrices THEN t.fiat ELSE t.by[q.cfg.currency]))
    /\ UNCHANGED <<Others, tables>>

\* A check uses no stale price; a record is valued at whatever price there is.
Stale(c) == Is(c, Checks) /\ now - sys.at > Staleness

GetSystemTokenPrice(c) ==
    LET q == calls[c]   p == sys.by[q.cfg.currency] IN
    /\ At(c, "system")
    /\ Go(c, WithPrice(c, [q EXCEPT !.age = now - sys.seen], IF Stale(c) THEN 0 ELSE IF p > 0 THEN p ELSE sys.fiat))
    /\ UNCHANGED <<Others, tables>>

\* The lower of the two overrides, or the threshold of the organization.
GetAddressThresholdOverride(c) ==
    LET q == calls[c]
        v == overrides[Head(q.todo)]
        low == IF v >= 0 /\ (q.limit < 0 \/ v < q.limit) THEN v ELSE q.limit
        limit == IF Len(q.todo) = 1 /\ low < 0 THEN q.cfg.threshold ELSE low IN
    /\ At(c, "overrides")
    /\ Go(c, [q EXCEPT !.todo = Tail(@), !.limit = limit,
                       !.at = IF Len(q.todo) > 1 THEN @ ELSE IF q.value < limit THEN "log" ELSE "claim",
                       !.decision = IF Len(q.todo) = 1 /\ q.value < limit THEN "below" ELSE @])
    /\ UNCHANGED <<Others, tables>>

Matches(r, c) ==
    /\ r.user = Op(c).user /\ r.to = Op(c).to /\ r.token = Op(c).token
    /\ r.fiat >= calls[c].value /\ ~r.used /\ ~r.expired

\* mutant: the record is found and left unused.
ClaimFinds(c) ==
    LET q == calls[c]
        open == {i \in DOMAIN recs : Matches(recs[i], c)} IN
    /\ At(c, "claim")
    /\ Go(c, IF open = {} THEN [q EXCEPT !.at = "log", !.decision = "denied"]
             ELSE [q EXCEPT !.at = "log", !.decision = "covered", !.rec = recs[Max(open)].id])
    /\ UNCHANGED <<Others, tables>>

\* One UPDATE takes the newest matching record; a preview only finds it.
ClaimUnusedTravelRuleRecord(c) ==
    LET q == calls[c]
        open == {i \in DOMAIN recs : Matches(recs[i], c)}
        i == Max(open) IN
    /\ At(c, "claim")
    /\ IF open = {}
       THEN /\ Go(c, [q EXCEPT !.at = "log", !.decision = IF q.cfg.mode = "monitor" THEN "monitored" ELSE "denied"])
            /\ UNCHANGED recs
       ELSE /\ Go(c, [q EXCEPT !.at = "log", !.decision = "covered", !.rec = recs[i].id])
            /\ recs' = IF Op(c).op = "preview" THEN recs ELSE [recs EXCEPT ![i].used = TRUE]
    /\ UNCHANGED <<Others, config, base, sys, tokens, overrides, sanctions, logs>>

\* The UPDATE was made and its answer lost.
ClaimLost(c) ==
    LET open == {i \in DOMAIN recs : Matches(recs[i], c)} IN
    /\ At(c, "claim") /\ load.faults /\ Op(c).op = "check" /\ open # {}
    /\ recs' = [recs EXCEPT ![Max(open)].used = TRUE]
    /\ Finish(c, [calls[c] EXCEPT !.broke = TRUE, !.rec = recs[Max(open)].id], "error")
    /\ UNCHANGED <<Others, config, base, sys, tokens, overrides, sanctions, logs>>

Refusals == {"sanctioned", "denied"}

\* The decision is logged; without the row nothing is allowed, and a denial for sanctions
\* is an error the sender may retry.
LogDecision(c) ==
    LET q == calls[c]   d == q.decision IN
    /\ At(c, "log")
    /\ \E ok \in {TRUE, Op(c).op = "preview" \/ ~load.faults} :
          /\ logs' = IF ok /\ Op(c).op = "check"
                     THEN logs \cup {[call |-> c, decision |-> IF d \in Refusals THEN "denied" ELSE "allowed",
                                      would |-> d = "monitored", rec |-> q.rec]}
                     ELSE logs
          /\ Finish(c, [q EXCEPT !.broke = ~ok],
                    IF d \in Refusals THEN (IF ok \/ d = "denied" THEN "denied" ELSE "error")
                    ELSE IF ok THEN "allowed" ELSE "denied")
    /\ UNCHANGED <<Others, config, base, sys, tokens, overrides, sanctions, recs>>

\* Any read, or a write that was not made, fails the call.
Fail(c) ==
    /\ load.faults /\ c \in DOMAIN load.ops /\ calls[c].at \notin {"start", "done", "log"}
    /\ Finish(c, [calls[c] EXCEPT !.broke = TRUE], "error")
    /\ UNCHANGED <<Others, tables>>
-----------------------------------------------------------------------------
(* administrators *)

\* getComplianceConfig and updateComplianceConfig: the row is read, the fields of the
\* body replaced, and the whole row written back.
ReadConfig(c) ==
    /\ Is(c, {"config"}) /\ At(c, "start")
    /\ Go(c, [Begun(c) EXCEPT !.at = "write", !.cfg = config])
    /\ UNCHANGED <<Others, tables>>

UpsertComplianceConfig(c) ==
    /\ Is(c, {"config"}) /\ At(c, "write")
    /\ config' = [f \in DOMAIN config |-> IF f \in DOMAIN Op(c).set THEN Op(c).set[f] ELSE calls[c].cfg[f]]
    /\ Finish(c, calls[c], "done")
    /\ UNCHANGED <<Others, base, sys, tokens, overrides, sanctions, recs, logs>>

\* INSERT ... ON CONFLICT: the given prices are merged into those of the row.
Upserted(row, by, linked, cur) ==
    LET merged == [k \in Currencies |-> IF by[k] > 0 THEN by[k] ELSE row.by[k]] IN
    [exists |-> TRUE, linked |-> linked, by |-> merged, fiat |-> merged[cur]]

\* The handlers read the currency of the organization, or the row, before they write.
ReadForWrite(c) ==
    /\ Is(c, {"price", "unprice"}) /\ At(c, "start")
    /\ IF Op(c).op = "unprice" /\ ~tokens[Op(c).token].exists
       THEN Finish(c, Begun(c), "refused")
       ELSE Go(c, [Begun(c) EXCEPT !.at = "write", !.cfg = config])
    /\ UNCHANGED <<Others, tables>>

UpsertTokenPrice(c) ==
    LET o == Op(c) IN
    /\ Is(c, {"price"}) /\ At(c, "write")
    /\ tokens' = [tokens EXCEPT ![o.token] = Upserted(@, o.by, o.linked, calls[c].cfg.currency)]
    /\ Finish(c, calls[c], "done")
    /\ UNCHANGED <<Others, config, base, sys, overrides, sanctions, recs, logs>>

DeleteTokenPrice(c) ==
    /\ Is(c, {"unprice"}) /\ At(c, "write")
    /\ tokens' = [tokens EXCEPT ![Op(c).token] = NoToken]
    /\ Finish(c, calls[c], "done")
    /\ UNCHANGED <<Others, config, base, sys, overrides, sanctions, recs, logs>>

\* Sanctions and overrides are single statements.
EditAddress(c) ==
    LET o == Op(c) IN
    /\ Is(c, {"sanction", "unsanction", "override", "unoverride"}) /\ At(c, "start")
    /\ sanctions' = CASE o.op = "sanction" -> sanctions \cup {o.addr}
                       [] o.op = "unsanction" -> sanctions \ {o.addr}
                       [] OTHER -> sanctions
    /\ overrides' = CASE o.op = "override" -> [overrides EXCEPT ![o.addr] = o.limit]
                       [] o.op = "unoverride" -> [overrides EXCEPT ![o.addr] = -1]
                       [] OTHER -> overrides
    /\ Finish(c, Begun(c), "done")
    /\ UNCHANGED <<Others, config, base, sys, tokens, recs, logs>>

\* createTravelRuleRecord: the originator is a member, the amount is valued in the
\* currency of the organization and the record is inserted.
StartRecord(c) ==
    /\ Is(c, {"record"}) /\ At(c, "start")
    /\ IF Op(c).user \in load.members
       THEN Go(c, [Begun(c) EXCEPT !.at = "token", !.cfg = config])
       ELSE Finish(c, Begun(c), "refused")
    /\ UNCHANGED <<Others, tables>>

CreateTravelRuleRecord(c) ==
    LET o == Op(c)   q == calls[c] IN
    /\ At(c, "insert")
    /\ IF q.value = 0 THEN recs' = recs /\ Finish(c, q, "refused")
       ELSE /\ recs' = Append(recs, [id |-> c, user |-> o.user, to |-> o.to, token |-> o.token,
                                     fiat |-> q.value, currency |-> q.cfg.currency,
                                     used |-> FALSE, expired |-> FALSE])
            /\ Finish(c, q, "done")
    /\ UNCHANGED <<Others, config, base, sys, tokens, overrides, sanctions, logs>>

\* Only an unused record is deleted.
DeleteTravelRuleRecord(c) ==
    LET open == {i \in DOMAIN recs : recs[i].id = Op(c).rec /\ ~recs[i].used} IN
    /\ Is(c, {"unrecord"}) /\ At(c, "start")
    /\ recs' = SelectSeq(recs, LAMBDA r : r.used \/ r.id # Op(c).rec)
    /\ Finish(c, Begun(c), IF open = {} THEN "refused" ELSE "done")
    /\ UNCHANGED <<Others, config, base, sys, tokens, overrides, sanctions, logs>>
-----------------------------------------------------------------------------
(* setBaseCurrency: manual rows are listed, the setting saved, the system row  *)
(* rewritten from its own prices, the listed rows saved again, and the price   *)
(* service woken                                                               *)

Manual == {t \in Tokens : tokens[t].exists /\ ~tokens[t].linked}

ListManual(c) ==
    LET o == Op(c) IN
    /\ Is(c, {"base"}) /\ At(c, "start")
    /\ IF ~o.force /\ \E t \in Manual : tokens[t].by[o.currency] = 0
       THEN Finish(c, Begun(c), "refused")
       ELSE Go(c, [Begun(c) EXCEPT !.at = "setting", !.rows = [t \in Manual |-> tokens[t]],
                                   !.todo = SetToSeq(Manual)])
    /\ UNCHANGED <<Others, tables>>

SetSystemSetting(c) ==
    /\ At(c, "setting")
    /\ base' = Op(c).currency
    /\ Go(c, [calls[c] EXCEPT !.at = "list"])
    /\ UNCHANGED <<Others, config, sys, tokens, overrides, sanctions, recs, logs>>

\* mutant: the rewritten price counts as fetched now.
ListSystemStamped(c) ==
    /\ At(c, "list")
    /\ Go(c, [calls[c] EXCEPT !.at = "rewrite", !.row = [sys EXCEPT !.fiat = sys.by[Op(c).currency], !.at = now]])
    /\ UNCHANGED <<Others, tables>>

\* The price keeps the time it was fetched at.
ListSystem(c) ==
    /\ At(c, "list")
    /\ Go(c, [calls[c] EXCEPT !.at = "rewrite", !.row = [sys EXCEPT !.fiat = sys.by[Op(c).currency]]])
    /\ UNCHANGED <<Others, tables>>

Remaining(todo) == IF todo = <<>> THEN "refresh" ELSE "manual"

RewriteSystem(c) ==
    /\ At(c, "rewrite")
    /\ sys' = calls[c].row
    /\ Go(c, [calls[c] EXCEPT !.at = Remaining(calls[c].todo)])
    /\ UNCHANGED <<Others, config, base, tokens, overrides, sanctions, recs, logs>>

RewriteManual(c) ==
    LET q == calls[c]   t == Head(q.todo)   row == q.rows[t] IN
    /\ At(c, "manual")
    /\ tokens' = [tokens EXCEPT ![t] = Upserted(@, row.by, FALSE, Op(c).currency)]
    /\ Go(c, [q EXCEPT !.todo = Tail(@), !.at = Remaining(Tail(q.todo))])
    /\ UNCHANGED <<Others, config, base, sys, overrides, sanctions, recs, logs>>

RefreshNow(c) ==
    /\ At(c, "refresh")
    /\ service' = [service EXCEPT !.refresh = TRUE]
    /\ Finish(c, calls[c], "done")
    /\ UNCHANGED <<load, now, tables>>
-----------------------------------------------------------------------------
(* the price service: one goroutine, woken by a ticker or by the channel *)

Fetching(wake) ==
    /\ load.fetches /\ service.at = "idle" /\ wake
    /\ service' = [service EXCEPT !.at = "base", !.row = sys, !.refresh = FALSE]
    /\ UNCHANGED <<load, now, tables, calls>>

Ticker == Fetching(TRUE)
Refresh == Fetching(service.refresh)

FetchBase ==
    /\ service.at = "base"
    /\ service' = [service EXCEPT !.at = "fetch", !.cur = base]
    /\ UNCHANGED <<load, now, tables, calls>>

\* A failed fetch keeps the prices there are.
FetchFails ==
    /\ service.at = "fetch" /\ load.faults
    /\ service' = [service EXCEPT !.at = "idle"]
    /\ UNCHANGED <<load, now, tables, calls>>

\* mutant: the price in the base currency is left to the switch.
FetchKeepsFiat ==
    /\ service.at = "fetch"
    /\ \E by \in load.market :
          service' = [service EXCEPT !.at = "write",
                                     !.row = [by |-> by, fiat |-> service.row.fiat, at |-> now, seen |-> now]]
    /\ UNCHANGED <<load, now, tables, calls>>

FetchAll ==
    /\ service.at = "fetch"
    /\ \E by \in load.market :
          service' = [service EXCEPT !.at = "write",
                                     !.row = [by |-> by, fiat |-> by[service.cur], at |-> now, seen |-> now]]
    /\ UNCHANGED <<load, now, tables, calls>>

UpsertSystemTokenPrice ==
    /\ service.at = "write"
    /\ sys' = service.row
    /\ service' = [service EXCEPT !.at = "idle"]
    /\ UNCHANGED <<load, now, config, base, tokens, overrides, sanctions, recs, logs, calls>>

(* time and retention *)
Tick ==
    /\ now < load.ticks
    /\ now' = now + 1
    /\ UNCHANGED <<load, tables, service, calls>>

Expire(i) ==
    /\ load.expires /\ i \in DOMAIN recs /\ ~recs[i].expired
    /\ recs' = [recs EXCEPT ![i].expired = TRUE]
    /\ UNCHANGED <<Others, config, base, sys, tokens, overrides, sanctions, logs, calls>>

CleanupExpiredTravelRuleRecords ==
    /\ \E i \in DOMAIN recs : recs[i].expired /\ ~recs[i].used
    /\ recs' = SelectSeq(recs, LAMBDA r : r.used \/ ~r.expired)
    /\ UNCHANGED <<Others, config, base, sys, tokens, overrides, sanctions, logs, calls>>
-----------------------------------------------------------------------------
Step(c) ==
    \/ CheckConfig(c) \/ IsAddressSanctioned(c) \/ GetTokenPrice(c) \/ GetSystemTokenPrice(c)
    \/ GetAddressThresholdOverride(c) \/ ClaimUnusedTravelRuleRecord(c) \/ ClaimLost(c)
    \/ LogDecision(c) \/ Fail(c)
    \/ ReadConfig(c) \/ UpsertComplianceConfig(c) \/ ReadForWrite(c) \/ UpsertTokenPrice(c)
    \/ DeleteTokenPrice(c) \/ EditAddress(c) \/ StartRecord(c) \/ CreateTravelRuleRecord(c)
    \/ DeleteTravelRuleRecord(c) \/ ListManual(c) \/ SetSystemSetting(c) \/ ListSystem(c)
    \/ RewriteSystem(c) \/ RewriteManual(c) \/ RefreshNow(c)

Service == Ticker \/ Refresh \/ FetchBase \/ FetchFails \/ FetchAll \/ UpsertSystemTokenPrice

Next ==
    \/ \E c \in Calls : Step(c)
    \/ Service
    \/ Tick
    \/ \E i \in DOMAIN recs : Expire(i)
    \/ CleanupExpiredTravelRuleRecords

\* A call that began is carried on with, the ticker never stops, and the price source
\* answers again and again.
Fairness ==
    /\ WF_vars(\E c \in Calls : calls[c].at # "start" /\ Step(c))
    /\ WF_vars(Service)
    /\ SF_vars(FetchAll)

Spec == Init /\ [][Next]_vars /\ Fairness
-----------------------------------------------------------------------------
Row == [exists : BOOLEAN, linked : BOOLEAN, by : [Currencies -> Prices \cup {0}], fiat : Prices \cup {0}]
SystemRow == [by : [Currencies -> Prices \cup {0}], fiat : Prices \cup {0}, at : Nat, seen : Nat]

(* The tables, the service and the calls stay in their types.              *)
TypeOK ==
    /\ DOMAIN config = {"enabled", "threshold", "policy", "mode", "currency"}
    /\ base \in Currencies /\ sys \in SystemRow /\ tokens \in [Tokens -> Row]
    /\ overrides \in [Addrs -> Int] /\ sanctions \subseteq Addrs /\ now \in Nat
    /\ \A i \in DOMAIN recs : /\ recs[i].id \in Calls /\ recs[i].fiat > 0 /\ recs[i].currency \in Currencies
                             /\ \A j \in DOMAIN recs : recs[j].id = recs[i].id => i = j
    /\ \A l \in logs : l.call \in Calls /\ l.decision \in {"allowed", "denied"} /\ l.rec \in Calls \cup {None}
    /\ service.at \in {"idle", "base", "fetch", "write"} /\ service.row \in SystemRow
    /\ \A c \in Calls : /\ calls[c].before \subseteq Calls
                       /\ calls[c].answer \in {None, "allowed", "denied", "error", "refused", "done"}

Sent == {c \in DOMAIN load.ops : Op(c).op = "check"}
Spent(c) == c \in Sent /\ calls[c].rec # None

(* A transfer above the threshold is let through only by a record of its   *)
(* own: no two checks spend the same record, however they interleave, and  *)
(* the record was made for the same user, recipient and token, for at      *)
(* least the value the check computed (the UPDATE in                       *)
(* ClaimUnusedTravelRuleRecord).                                           *)
RecordsCoverTransfers ==
    \A c \in Sent : Spent(c) =>
        /\ \A d \in Sent \ {c} : calls[d].rec # calls[c].rec
        /\ \E i \in DOMAIN recs :
              LET r == recs[i] IN
              /\ r.id = calls[c].rec /\ r.used
              /\ r.user = Op(c).user /\ r.to = Op(c).to /\ r.token = Op(c).token
              /\ r.fiat >= calls[c].value

(* A record is used up only by a check that sends: once all is answered,   *)
(* each used record is named by the log row of an allowed transfer, or the *)
(* check that took it met a failing statement.  Previews, deletions and    *)
(* retention use none up.                                                  *)
UsedRecordsAccounted ==
    \A i \in DOMAIN recs : recs[i].used =>
        \E c \in Sent : /\ calls[c].rec = recs[i].id
                        /\ \/ calls[c].at = "log" \/ calls[c].broke
                           \/ /\ calls[c].answer = "allowed"
                              /\ \E l \in logs : l.call = c /\ l.rec = recs[i].id

(* Evidence stays: a record that was used is never deleted, made open      *)
(* again or changed, by an administrator or by retention.                  *)
UsedRecordsKept ==
    [][\A i \in DOMAIN recs : recs[i].used =>
          \E j \in DOMAIN recs' : recs'[j].id = recs[i].id /\ recs'[j].used /\ recs'[j].fiat = recs[i].fiat]_vars

(* Compliance fails closed: with compliance on, a transfer is let through  *)
(* only with its row in compliance_logs, which says whether it was only    *)
(* monitored, and no row says allowed of a transfer that was refused.      *)
NothingAllowedUnlogged ==
    \A c \in Sent : calls[c].at = "done" /\ calls[c].cfg.enabled =>
        (calls[c].answer = "allowed"
            <=> \E l \in logs : l.call = c /\ l.decision = "allowed"
                                /\ l.would = (calls[c].decision = "monitored"))

\* The party was sanctioned before the check began and no removal has taken effect since.
SanctionedThroughout(a, c) ==
    \E s \in calls[c].before :
        /\ Is(s, {"sanction"}) /\ Op(s).addr = a
        /\ \A u \in DOMAIN load.ops :
              (Op(u).op = "unsanction" /\ Op(u).addr = a) => calls[u].at = "start" \/ u \in calls[s].before

(* Sanctions are absolute: a transfer one of whose parties, the spender    *)
(* included, was sanctioned throughout is never let through while          *)
(* compliance is on, in monitor mode, under any price policy, below any    *)
(* threshold and with any record.                                          *)
SanctionsHold ==
    \A c \in DOMAIN load.ops :
        (Op(c).op \in Checks /\ calls[c].answer = "allowed" /\ calls[c].cfg.enabled) =>
            \A a \in Addrs : SanctionedThroughout(a, c) => a \notin {Op(c).spender, Op(c).to, Op(c).from}

(* A transfer is never valued at a fetched price the market showed longer  *)
(* ago than the staleness bound: a switch of the base currency rewrites    *)
(* prices but does not make them younger.                                  *)
StalePriceNeverUsed ==
    \A c \in DOMAIN load.ops : Op(c).op \in Checks /\ calls[c].price > 0 => calls[c].age <= Staleness

\* o began, but neither ended before e began nor began after e ended.
Overlaps(o, e) == o # e /\ calls[o].at # "start" /\ o \notin calls[e].before /\ e \notin calls[o].before
After(o, e) == e \in calls[o].before

(* A partial update of the configuration changes the fields of its body    *)
(* and no others: an answered edit keeps its fields until a later edit     *)
(* sets them, unless two edits overlap, when the row written last wins.    *)
ConfigEditsSurvive ==
    \A e \in DOMAIN load.ops : \A f \in DOMAIN config :
        (Op(e).op = "config" /\ calls[e].answer = "done" /\ f \in DOMAIN Op(e).set) =>
            \/ config[f] = Op(e).set[f]
            \/ \E o \in DOMAIN load.ops :
                  Op(o).op = "config" /\ (Overlaps(o, e) \/ (After(o, e) /\ f \in DOMAIN Op(o).set)
                                          \/ \E p \in DOMAIN load.ops : Op(p).op = "config" /\ Overlaps(o, p))

(* A price an administrator entered for a currency stays until an          *)
(* administrator replaces it or deletes the row: edits of other currencies *)
(* are merged into it and a switch of the base currency writes it back,    *)
(* unless the switch listed the rows before the edit and saved them after. *)
PriceEditsSurvive ==
    \A e \in DOMAIN load.ops : \A k \in Currencies :
        (Op(e).op = "price" /\ calls[e].answer = "done" /\ Op(e).by[k] > 0) =>
            \/ tokens[Op(e).token].by[k] = Op(e).by[k]
            \/ \E o \in DOMAIN load.ops :
                  /\ Op(o).op \in {"price", "unprice", "base"}
                  /\ \/ Overlaps(o, e)
                     \/ After(o, e) /\ Op(o).op = "unprice" /\ Op(o).token = Op(e).token
                     \/ After(o, e) /\ Op(o).op = "price" /\ Op(o).token = Op(e).token /\ Op(o).by[k] > 0

(* Whatever switches of the base currency interleave or fail half way, and *)
(* with whatever fetch that read the old one, the price in the base        *)
(* currency is in the end the one the market has in that currency.         *)
FiatFollowsBase == load.fetches => <>[](sys.fiat = sys.by[base])

(* Transfers are let through on evidence: a record of their own that is    *)
(* spent once, accounted for and kept, a log row, and no sanctioned party. *)
TransfersEvidenced ==
    /\ [](/\ TypeOK /\ RecordsCoverTransfers /\ UsedRecordsAccounted
          /\ NothingAllowedUnlogged /\ SanctionsHold)
    /\ UsedRecordsKept

(* What administrators entered is in force and stale prices are not.       *)
SettingsInForce == StalePriceNeverUsed /\ ConfigEditsSurvive /\ PriceEditsSurvive
=============================================================================
