SPECIFICATION Spec
CONSTANTS
  r1 = r1
  r2 = r2
  u1 = u1
  u2 = u2
  NoReply = NoReply
  Steers = {u1, u2}
  Dms = {}
  Held = {}
  Replies <- MCReplies
  SteerCap = 2
  Requests = {r1, r2}
  Steerable = {r1, r2}
  MaxRuns = 1
  MaxSteps = 2
  MaxPromotions = 1
  MayStop = TRUE
  MayThrow = FALSE
  LockMayLapse = FALSE
  CleanupIsShort = FALSE
PROPERTIES ClearSparesLiveTurn
CHECK_DEADLOCK FALSE
