CONSTANTS
  Personas = {ann}
  Posters = {t1}
  Provisioners = {v1}
  Old = Old
  Window = 2
  Tapped = {ann}
  Residue = 3
  Scenarios <- Quiet
  MaxTries = 1
  MaxRuns = 2
SPECIFICATION Spec
CHECK_DEADLOCK FALSE
INVARIANTS
  Converges
