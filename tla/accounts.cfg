SPECIFICATION SpecAccounts
CONSTANTS
    r1 = r1
    r2 = r2
    g1 = g1
    g2 = g2
    h1 = h1
    h2 = h2
    Requests = {r1, r2}
    Grants = {g1, g2}
    Handlers = {h1, h2}
    Addresses = {"a", "b"}
    Duration = 2
    Txs <- ModelTxs
    Loads <- DisclosureLoads
SYMMETRY Interchangeable
CHECK_DEADLOCK FALSE
INVARIANTS ServedWithinConsent ReadsRecorded TokensEnd
PROPERTIES AccessEnds 
