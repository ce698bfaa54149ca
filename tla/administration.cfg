SPECIFICATION Spec
CONSTANTS
    Nil = Nil
    Self = Self
    DefaultOrg = DefaultOrg
    DefaultGroup = DefaultGroup
    AnonymousGroup = AnonymousGroup
    CacheTTL = 3
    Calls = {c1, c2}
    Loads <- Workloads
    BadSlug = "BAD"
    BadTopic = "bad"
    CatalogMethods <- Catalog
    Passthrough = {"admin_peers"}
    MethodClaim <- Claims
    MaxCustomRules = 1
    TicketTTL = 2
    o1 = o1
    o2 = o2
    oAnon = oAnon
    gAdm1 = gAdm1
    gRo1 = gRo1
    gReg1 = gReg1
    gAuto1 = gAuto1
    gAdm2 = gAdm2
    gReg2 = gReg2
    uA = uA
    uR = uR
    uM = uM
    uB = uB
    uZ = uZ
    k1 = k1
    k2 = k2
    x1 = x1
    x2 = x2
    x3 = x3
    a1 = a1
    c1 = c1
    c2 = c2
INVARIANTS
    ReferencesSound
    
    ReadsScoped
    

    
CHECK_DEADLOCK FALSE
