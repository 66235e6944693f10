SPECIFICATION Spec
CONSTANTS
  BinSeconds = 2
  MaxGap = 2
  GPUs = 2
  EnergyScale = 4
  QueryKeys = {"queries"}
  HitKeys = {"hits"}
  CounterKeys = {"queries", "hits"}
  NoId = 0
  Workloads = {"openclaw", "minisweagent"}
  StartupCost = 1
  SmokeWindow = 1
  PackNodes = 5
  PackWalltime = 6
  Symbols = {"a", "b", "c", "x", "/"}
  Separator = "/"
  Hosts = {"h1", "h2", "h3", "h4", "h5"}
  Windows <- MCWindows
  Values <- MCValues
  Logs <- MCLogs
  Samplings <- MCSamplings
  Ticks <- MCTicks
  Sessions <- MCSessions
  Graphs <- MCGraphs
  Texts <- MCTexts
  Configs <- MCConfigs
  Allocations <- MCAllocations
  Packs <- MCPacks
INVARIANTS WindowIsExact LogAccountsAgree SamplesAreBacked TracesAreSound RewriteIsExact LayoutIsSound
CHECK_DEADLOCK FALSE
