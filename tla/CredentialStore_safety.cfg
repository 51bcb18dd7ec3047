CONSTANTS
  Procs = {p1, p2}
  Backends = {"os", "file"}
  Shared = {"os"}
  Providers = {openai, zai}
  Labels = {1, 2}
  NoRow = NoRow
  NoTime = NoTime
  NoFile = NoFile
  MaxAdds = 3
  MaxTime = 1
SPECIFICATION Spec
SYMMETRY Symmetry
INVARIANTS TypeOK OneDefault EveryRowHasItsSecret SecretsAccounted ChosenKeyLoads
PROPERTIES ImplementsAccountStore
