CONSTANTS
  ann = ann
  bot = bot
  Personas = {ann, bot}
  Operators = {ann}
  None = None
  Sessions = {s1, s2}
  Readers = {r1}
  Legacy = {ann}
  Scenarios <- OneByOne
  MaxKeys = 3
  MaxWrites = 3
SPECIFICATION Spec
SYMMETRY Symmetry
INVARIANTS
  IInv
  NobodyDistrusted
  VouchesStand
  SeedHeld
PROPERTIES
  ChainsGrow
  EnsureOnlyAddsTheKey
