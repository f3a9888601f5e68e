CONSTANTS
  Handles = {h1, h2}
  Scenarios <- OneByOne
  Faulty = TRUE
  MaxOps = 6
  MaxObjects = 2
  Retries = 2
SPECIFICATION Spec
SYMMETRY Symmetry
INVARIANTS
  IInv
  TicketsHonoured
  BytesKept
  NoLitter
PROPERTY
  ColdOnlyGrows
