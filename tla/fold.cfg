CONSTANTS
  Authors = {ann, ben}
  Families = {
    {"comment.add", "edit", "comment.resolve"},
    {"turn.post", "edit", "comment.resolve"},
    {"work.open", "work.claim", "work.done", "work.abandon"},
    {"comment.add", "work.open", "work.claim"},
    {"attachment.add", "attachment.remove"},
    {"grant.issue", "grant.revoke", "ignored"},
    {"turn.post", "life.transition"}
  }
  Stale = {"life.transition"}
  MaxOps = 4
  MaxRollups = 2
SPECIFICATION Spec
SYMMETRY Symmetry
INVARIANTS
  TidyingInvisible
  FollowerAgrees
  OwnWordsNewestWins
  FirstClaimWins
  GrantsStand
  LifecycleAsWritten
  PartsStayAnchors
CHECK_DEADLOCK FALSE
