SPECIFICATION ServicesSpec
CHECK_DEADLOCK FALSE
CONSTANTS
    Visitors = {v1, v2}
    Addresses = {a}
    Tokens = {t1}
    MaxFailures = 2
    Window = 2
    Lifetime = 1
    Importers = {i1, i2}
    Urls = {"u1"}
    Uploads = {"f1"}
    Digests = {"d1", "d2"}
    MaxImports = 2
    MaxSourceFaults = 2
    Commands = {p1, p2}
    MaxPairs = 2
    MaxCuts = 1
    Documents <- SampleDocuments
    Settings <- SampleSettings
    Facts <- SampleFacts
    LanAddresses = {"ip1", "ip2"}
    ToUpper <- SampleToUpper
    HasPrefix <- SampleHasPrefix
    Native = {"DIRECT", "REJECT", "REJECT-DROP"}
    NoUDP = {"upstream", "direct"}
    Strangers = {"ip3"}
    MaxSelections = 1
    Pollers = {q1, q2}
    Connections = {c1, c2}
    Lan = {"lan", "guest"}
    Leased = {"lan"}
    Foreign = {"far"}
    Origins <- SampleOrigins
    MaxBytes = 1
    MaxClock = 3
    MaxPolls = 3
    MaxGap = 1
    Targets = {h1, h2}
    Workers = {k1, k2}
    Rounds = 2
    Routes <- SampleRoutes
    Chains = {"proxy", "direct"}
    MaxStrangers = 1
    MaxChanges = 2
    MaxStreams = 2
INVARIANTS
    ServicesTypeOK
    SetupOnce
    FailuresBounded
    AddressNeverLost
    CatalogueIsWhole
    ServiceCanServe
    RoutesAsDeclared
    NamesResolve
    UnchangedRoutesAlike
    ResponseAddsUp
    BytesCountedOnce
    AnswerIsComplete
    RouteIsItsOwn
PROPERTIES
    DeadStaysDead
    LockoutEnds
    FailureChangesNothing
    SelectionMovesOneDevice
    RequestIsAnswered
    EventsCatchUp
