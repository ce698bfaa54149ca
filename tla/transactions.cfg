SPECIFICATION Spec
CONSTANTS
    Requests = {r1, r2}
    Users = {u1, u2}
    Orgs = {o1, o2}
    Addrs = {a1, a2}
    Txs = {t1, t2}
    Keys = {k1}
    Workers = {w1, w2}
    r1 = r1
    r2 = r2
    u1 = u1
    u2 = u2
    o1 = o1
    o2 = o2
    a1 = a1
    a2 = a2
    k1 = k1
    t1 = t1
    t2 = t2
    MaxConcurrent = 1
    MaxPolls = 2
    BatchSize = 1
    MaxAttempts = 2
    Loads <- Instances
CHECK_DEADLOCK FALSE
INVARIANTS SubmissionsAccounted 
PROPERTIES EventuallySettled
