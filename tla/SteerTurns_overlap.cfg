SPECIFICATION Spec
CONSTANTS
  r1 = r1
  r2 = r2
  u1 = u1
  d1 = d1
  NoReply = NoReply
  Steers = {u1, d1}
  Dms = {d1}
  Held = {}
  Replies <- MCReplies
  SteerCap = 2
  Requests = {r1, r2}
  Steerable = {r1, r2}
  MaxRuns = 1
  MaxSteps = 2
  MaxPromotions = 1
  MayStop = TRUE
  MayThrow = TRUE
  LockMayLapse = FALSE
  CleanupIsShort = TRUE
INVARIANTS OnlyReadSteersDropped
PROPERTIES ClearSparesLiveTurn
CHECK_DEADLOCK FALSE
