CONSTANTS
  Handles = {h1, h2}
  Requests = {"archive", "follow"}
  Targets = {}
  Faulty = FALSE
  Garbage = TRUE
  MaxOps = 3
  Retries = 2
SPECIFICATION FairSpec
PROPERTIES
  CallsReturn
  FollowersCatchUp
