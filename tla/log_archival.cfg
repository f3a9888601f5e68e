CONSTANTS
  Handles = {h1, h2}
  Requests = {"close", "archive"}
  Targets = {}
  Faulty = TRUE
  Garbage = FALSE
  MaxOps = 4
  Retries = 2
SPECIFICATION Spec
SYMMETRY Symmetry
INVARIANTS
  ArchiveSeesArchived
  ParentsAcrossSeams
PROPERTIES
  ArchivedIsTerminal
  RefusalSticks
  KeepsPromise
