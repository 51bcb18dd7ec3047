CONSTANTS
  Adapters = {"anthropic", "openai", "ollama"}
  Texts <- TextsDef
  Wide = {"w"}
  Frags <- FragsDef
  Statuses = {401, 429, 503, 404}
  NoId = NoId
  NoRequest = NoRequest
  Requests <- RequestsDef
  MaxEvents = 4
  MaxCalls = 2
  MaxWire = 8
SPECIFICATION StreamSpec
INVARIANTS FinalIsWhatWasSaid BodyKeepsText
CHECK_DEADLOCK FALSE
