CONSTANTS
  ann = ann
  Personas = {ann}
  Operators = {}
  None = None
  Sessions = {s1}
  Readers = {r1}
  Legacy = {}
  Scenarios <- Watching
  MaxKeys = 2
  MaxWrites = 2
SPECIFICATION Spec
INVARIANT
  BothErasVerify
