SPECIFICATION Spec
CONSTANTS
    Aliases <- MCAliases
    Passthrough <- MCPassthrough
    UnionLimit <- MCUnionLimit
    Calls <- MCCalls
    Callers <- MCCallers
    RpcWorlds <- MCRpcWorlds
    Traces <- MCTraces
    Tracers <- MCTracers
    TraceWorlds <- MCTraceWorlds
    Submissions <- MCSubmissions
    Senders <- MCSenders
    Settings <- MCSettings
    Policies <- MCPolicies
    Transactions <- MCTransactions
    Viewers <- MCViewers
    Views <- MCViews
    Chains <- MCChains
    Watchers <- MCWatchers
    Requests <- MCRequests
    Overrides <- MCOverrides
    Bounds <- MCBounds
INVARIANTS RightsRespected  SurfacesAgree HiddenStaysHidden ConsentExact
