SPECIFICATION Spec
CONSTANTS
    Calls = {"a", "b", "c"}
    Users = {"u", "v"}
    Replicas = {"r", "s"}
    Redis = "redis"
    MaxTime = 3
    Loads <- Instances
CHECK_DEADLOCK FALSE
INVARIANTS RowFresh 
PROPERTIES EveryCallAnswered
