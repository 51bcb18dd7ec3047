CONSTANTS
  Pids = {p1, p2}
  NoPid = NoPid
  Outputs = {v1}
  Null = Null
  MaxSlots = 3
  MaxAdds = 4
SPECIFICATION Spec
SYMMETRY Symmetry
INVARIANTS TypeOK RecordConsistent NoDanglingEdge NoStuckPlan
PROPERTIES NodeHistory
CHECK_DEADLOCK FALSE
