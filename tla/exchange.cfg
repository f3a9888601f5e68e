CONSTANTS
  Topics = {1, 2}
  Responders = {b, c}
  Boards = {b}
  Persona <- Same
  Limit = 1
  MaxAnswers = 2
  Scenarios <- Life
  Me = c
  Alike <- Twins
SPECIFICATION Spec
CHECK_DEADLOCK FALSE
INVARIANTS
  OneVoiceEach
  FetchBest
  SameGrade
  FreshOrDirty
PROPERTIES
  NeverRepeats
  ActsOnFresh
