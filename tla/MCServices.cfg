\* Every component that is a world of its own, each in a small instance.
SPECIFICATION ServicesFairSpec
CONSTANTS
  a1 = a1 a2 = a2 a3 = a3 b1 = b1 b2 = b2
  Parts = {"breaker", "stream", "load", "session", "catalogue", "bootstrap", "hook"}
  Calls = {a1, a2, a3} FailureThreshold = 2 HalfOpenMax = 2
  Orders = {a1} Workers = {b1, b2} MaxAttempts = 2 Count = 2 MaxLen = 2 MaxUpsets = 1
  LoadRunIds = {a1, a2} Replicas = {b1, b2} NoReplica = NoReplica
  Clients = {a1, a2, a3} AuthThreads = {b1} MaxJobs = 3 Nobody = Nobody
  CatalogIds = {a1, a2} Skus = {b1, b2} Contents = {a3} Handlers = {a1, a2} MaxChanges = 4
  NoProduct = NoProduct
  ShopReplicas = {a1, a2} CrmReplicas = {b1, b2} MaxRestarts = 1
  Threads = {a1, a2} PoolSize = 3
CHECK_DEADLOCK FALSE
INVARIANTS ServicesTypeOK ClosedCountsStreak SlotsAccounted OutageLogsNobodyOut OneDemoSet
PROPERTIES ProbeDecidesUnlessLost OpenProbesAgain EveryOrderSettles OverIsOver RunsComeToRest
  LogoutTakesHold CatalogArrives StartsSettle EveryStatementEnds
