SPECIFICATION ServicesSpec
CONSTANTS
  SyncFiles = {f1, f2}
  SyncVersions = {v1}
  SyncCalls = {s1, s2}
  Missing = Missing
  SyncBudget <- SyncSteps
  ProvRuns = {r1, r2}
  NoRun = NoRun
  LogLines = 1
  LogCap = 1
  MaxReconnects = 1
  MaxPollFails = 1
  ProvDrops = 1
  Senders = {u1, u2}
  PairCalls = {p1, p2}
  MaxPending = 1
  PairBudget <- PairSteps
  Clients = {x1, x2, x3}
  NoClient = NoClient
  PoolCalls = {g1, g2}
  Browsers = {b1, b2}
  PoolDrops = 2
  AuthIds = {a1, a2, a3}
  NoSession = NoSession
  MaxQrRefreshes = 2
  AuthOps = 4
  LastDay = 3
  SyncDays = 2
  MaxUsage = 2
  Collectors = {c1, c2}
  CostBudget <- CostSteps
  Tasks = {t1}
  MaxChunks = 2
  TaskFaults = 2
  Deploys = {d1, d2}
  bot = bot
  botTwo = botTwo
  BotNames = {bot, botTwo}
  Longer <- LongerNames
  Wanted = {w1}
  NoDeploy = NoDeploy
  LastPort = 1
  ObFaults = 1
  Inbound = {i1, i2}
  Outbound = {o1}
  Middlewares = 2
INVARIANTS
  RestoresOnlyConfirmed JoinedSeesEachLineOnce RowsMatchGateway
  NoLeakedConnection PairedInBoth ChargedOnce SyncedDaysAreComplete OneFinalAnswer TraceAgrees
  OwnTokenAndPort DeployedIsWhole PassedFramesArrive
PROPERTIES
  BackupLeavesWhatItRead ProgressForgotten NoLostListUpdate TasksAreResolved HalvesCloseTogether
CHECK_DEADLOCK FALSE
