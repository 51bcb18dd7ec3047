CONSTANTS
  Adapters = {"anthropic"}
  Texts <- TextsDef
  Wide = {"w"}
  Frags <- FragsDef
  Statuses = {401}
  NoId = NoId
  NoRequest = NoRequest
  Requests <- RequestsDef
  MaxEvents = 3
  MaxCalls = 1
  MaxWire = 8
SPECIFICATION StreamSpec
INVARIANT CutCharactersKept
CHECK_DEADLOCK FALSE
