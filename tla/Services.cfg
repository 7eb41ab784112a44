SPECIFICATION Spec
CONSTANTS
    Foci = {"feedhandler", "pyfeeds", "provisioning", "cloud", "query", "exports", "webhook", "identity", "gateway", "backtest", "connectors", "rows"}
    Tapes <- MCTapes
    DedupWindow = 2
    SnapshotFrom = 2
    MaxBatch = 2
    FhCases <- MCFhCases
    Letters = 5
    PfCases <- MCPfCases
    PfBuiltin <- MCPfBuiltin
    PfShardCount = 2
    PfChunk = 1
    PfBatch = 1
    PfFrames <- MCPfFrames
    PfMaxFrames = 2
    PfMaxBreaks = 2
    PvSpecs <- MCPvSpecs
    PvCounts = {1, 2}
    PvBackends = {"helm", "compose"}
    PvMaxCmds = 2
    PvMaxFails = 1
    CrRequests <- MCCrRequests
    CrMaxFails = 2
    QwThreads = {t1, t2}
    QwTenants = {"x"}
    QwBodies <- MCQwBodies
    QwShardCount = 2
    QwSymbols <- MCQwSymbols
    QwRows <- MCQwRows
    QwMaxRows = 2
    QwBudget = 1
    QwMaxCost = 1
    QwMaxEvents = 1
    ExJobs = {"j1", "j2"}
    ExCases <- MCExCases
    ExMaxFails = 2
    WhThreads = {w1, w2}
    WhPuts <- MCWhPuts
    WhAlerts <- MCWhAlerts
    WhQtyCap = 2
    WhMaxRequests = 5
    IdThreads = {i1, i2}
    IdTenants = {"x", "y"}
    IdPeople <- MCIdPeople
    IdConfigs <- MCIdConfigs
    IdDomain <- MCIdDomain
    IdSeed <- MCIdSeed
    IdMaxRequests = 4
    GwShardCount = 2
    GwNumbers <- MCGwNumbers
    GwMortal <- MCGwMortal
    GwMaxEvents = 2
    BtTapes <- MCBtTapes
    BtRequests <- MCBtRequests
    BtMaxRows = 5
    BtBarLen = 1
    CnConnectors = {"bpipe-sim", "coinbase-feed"}
    CnScoped = {"bpipe-sim"}
    CnScopes <- MCScopes
    CnThreads = {c1, c2}
    CnMaxRequests = 4
    CnMaxFaults = 1
    FrThreads = {f1, f2}
    FrTenants = {"x", "y"}
    FrBodies <- MCHandlers
    FrMaxRequests = 4
INVARIANTS
    SequenceIsKept
    TradesArrive
    FeedsDeliver
    ProvisioningIsHonest
    CloudRunsTell
    QueryAnswers
    BudgetHolds
    ExportsTell
    WebhookObeys
    IdentityHolds
    GatewayAnswers
    BacktestIsTheBots
    ConnectorsTell
    HandlerRowsAreSound
CHECK_DEADLOCK FALSE
