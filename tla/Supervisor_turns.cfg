CONSTANTS
  Labels = {a, b}
  Inputs = {x}
  Registered = {a}
  Pid = pid
  NoPid = NoPid
  Outputs = {v}
  Null = Null
  MaxSlots = 9
  MaxAdds = 9
  MaxReflections = 2
  MaxSteps = 2
  MaxHostCalls = 1
  MaxTurns = 2
SPECIFICATION FairSpec
INVARIANTS ResultsMatchGraph RunningAccounted ReflectionsCapped
PROPERTIES TurnEnds
CHECK_DEADLOCK FALSE
