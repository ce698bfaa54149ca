SPECIFICATION Spec
CONSTANTS
    Calls = {"c1", "c2", "c3", "c4"}
    Users = {"alice", "bob"}
    Addrs = {"a", "b", "c"}
    Currencies = {"usd", "eur"}
    Prices = {2, 3, 4}
    Staleness = 2
    Loads <- Instances
CHECK_DEADLOCK FALSE
INVARIANTS SettingsInForce
PROPERTIES  FiatFollowsBase
