CONSTANTS
  Handles = {h1, h2}
  Requests = {"rollup"}
  Targets = {}
  Faulty = FALSE
  Garbage = FALSE
  MaxOps = 4
  Retries = 2
SPECIFICATION Spec
INVARIANT
  NothingLost
