-------------------------- MODULE DisclosureScope --------------------------
(***************************************************************************)
(* Disclosure scopes (internal/disclosure): what a request asks for and a  *)
(* grant allows.  A scope has a set of methods, a set of addresses (none:  *)
(* every address), an optional date range and a level.  Lists are sets,    *)
(* and upper and lower case of an address or a level are one value.        *)
(***************************************************************************)
EXTENDS Integers

NoRange == [start |-> 0 - 1, end |-> 0 - 1]
Methods == {"activity_logs", "transaction_history", "full_disclosure"}
Levels == {"redacted", "pseudonymous", "full"}

\* Scopes as they are decoded, before anything is checked; "unknown" is any other name.
AnyLevel == Levels \cup {"", "unknown"}
Scopes == [methods : SUBSET (Methods \cup {"unknown"}), addresses : SUBSET STRING,
           range : [start : Int, end : Int], level : AnyLevel]

\* EffectiveLevel: anything but full and pseudonymous is redacted.
EffectiveLevel(level) ==
    IF level \in {"full", "pseudonymous"} THEN level ELSE "redacted"

\* disclosureRank
DisclosureRank(level) ==
    CASE EffectiveLevel(level) = "full" -> 3
      [] EffectiveLevel(level) = "pseudonymous" -> 2
      [] OTHER -> 1

\* Normalize's refusals; known are the well-formed addresses, and 0 the zero time.
IsValid(s, known) ==
    /\ s.level \in Levels \cup {""}
    /\ s.methods \subseteq Methods
    /\ s.addresses \subseteq known
    /\ s.range # NoRange =>
          s.range.start # 0 /\ s.range.end # 0 /\ s.range.start <= s.range.end

\* Normalize, of a valid scope.
Normalize(s) ==
    [methods |-> s.methods, addresses |-> s.addresses, range |-> s.range,
     level |-> IF s.level = "" THEN "redacted" ELSE s.level]

\* ForRead: a stored level that is unknown is read as redacted, before Normalize.
ForRead(s) ==
    Normalize([methods |-> s.methods, addresses |-> s.addresses, range |-> s.range,
               level |-> EffectiveLevel(s.level)])

\* AllowsTransactionHistory
AllowsTransactionHistory(s) ==
    s.methods = {} \/ s.methods \cap {"transaction_history", "full_disclosure"} # {}

\* AllowsActivityLogs
AllowsActivityLogs(s) == s.methods \cap {"activity_logs", "full_disclosure"} # {}

\* ValidateActivity
ServesActivity(s) == AllowsActivityLogs(s) /\ s.addresses = {}

\* InDateRange: an unknown time is outside every range.
InDateRange(s, time) ==
    s.range = NoRange \/ (time > 0 /\ s.range.start <= time /\ time <= s.range.end)

\* InAddressScope
InAddressScope(s, parties) == s.addresses = {} \/ s.addresses \cap parties # {}

\* CoversTransaction
CoversTransaction(s, parties, time) ==
    AllowsTransactionHistory(s) /\ InDateRange(s, time) /\ InAddressScope(s, parties)

\* mergeNarrowedScope: what the override leaves open is inherited.
MergeNarrowed(base, override) ==
    [methods   |-> IF override.methods = {} THEN base.methods ELSE override.methods,
     addresses |-> IF override.addresses = {} THEN base.addresses ELSE override.addresses,
     range     |-> IF override.range = NoRange THEN base.range ELSE override.range,
     level     |-> IF override.level = "" THEN base.level ELSE override.level]

\* mutant: the end of the range is not compared
IsSubsetOfStart(s, parent) ==
    /\ AllowsTransactionHistory(s) => AllowsTransactionHistory(parent)
    /\ AllowsActivityLogs(s) => AllowsActivityLogs(parent)
    /\ parent.addresses # {} =>
          s.addresses # {} /\ s.addresses \subseteq parent.addresses
    /\ parent.range # NoRange => s.range # NoRange /\ s.range.start >= parent.range.start
    /\ DisclosureRank(s.level) <= DisclosureRank(parent.level)

\* isSubsetOf
IsSubsetOf(s, parent) ==
    /\ AllowsTransactionHistory(s) => AllowsTransactionHistory(parent)
    /\ AllowsActivityLogs(s) => AllowsActivityLogs(parent)
    /\ parent.addresses # {} =>
          s.addresses # {} /\ s.addresses \subseteq parent.addresses
    /\ parent.range # NoRange =>
          /\ s.range # NoRange
          /\ s.range.start >= parent.range.start /\ s.range.end <= parent.range.end
    /\ DisclosureRank(s.level) <= DisclosureRank(parent.level)
=============================================================================
