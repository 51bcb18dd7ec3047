CONSTANTS
  Callers = {u, w}
  Ui = u
  PoolSize = 2
  SessionIds <- SessionIdsDef
  AskedIds <- AskedIdsDef
  Existing <- ExistingDef
  Cwds = {"there"}
  UiCwd = "here"
  ListLimit = 2
  MemoryIds = {m}
  Scopes <- ScopesDef
  Instants <- InstantsDef
  Given <- GivenDef
  NoDate = NoDate
  NoRow = NoRow
  MaxCalls = 3
SPECIFICATION StoresSpec
INVARIANTS PickerShowsTable MemoriesKept
PROPERTY EveryCallReturns
CHECK_DEADLOCK FALSE
