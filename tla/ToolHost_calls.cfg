CONSTANTS
  Workspace <- WorkspaceDef
  TempDir <- TempDirDef
  DeniedNames <- DeniedNamesDef
  Allowlist = {"ls"}
  Actors = {h1, h2, server}
  Hosts = {h1, h2}
  Server = server
  Requests <- RequestsDef
  Oversized = {"one"}
  Present <- PresentDef
  Dirs0 <- Dirs0Def
  Binary = {"blob"}
  MaxMatches = 2
  MaxInodes = 3
  Empty = "empty"
  None = None
  HostTools = {"read_file", "write_file", "list_dir", "grep"}
  ServerTools = {"write_file", "bash"}
  Rooms <- RoomsDef
  MaxCalls = 3
  MaxCancels = 1
SPECIFICATION Spec
INVARIANTS PublishedIsAcked OutsideUntouched GrepTellsAll AnswerIsForRequest JamNeedsCancel
PROPERTY EveryCallEnds
CHECK_DEADLOCK FALSE
