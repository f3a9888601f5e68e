CONSTANTS
  Personas = {ann, bob}
  Posters = {t1}
  Provisioners = {v1, v2}
  Old = Old
  Window = 2
  Tapped = {ann}
  Residue = 3
  Scenarios <- Trouble
  MaxTries = 2
  MaxRuns = 2
SPECIFICATION Spec
SYMMETRY Symmetry
CHECK_DEADLOCK FALSE
INVARIANTS
  IInv
  NoNoteVanishes
  NotesAndTurnsAgree
  OneTurn
  OneIdentity
  NewestKept
