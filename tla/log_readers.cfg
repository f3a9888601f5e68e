CONSTANTS
  Handles = {h1, h2}
  Requests = {"materialise", "rollup", "follow"}
  Targets = {"dormant"}
  Faulty = FALSE
  Garbage = FALSE
  MaxOps = 4
  Retries = 2
SPECIFICATION Spec
SYMMETRY Symmetry
INVARIANTS
  IInv
  CompactionInvisible
  ReadsExact
