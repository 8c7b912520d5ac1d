SPECIFICATION Spec
CONSTANTS
  r1 = r1
  u1 = u1
  NoReply = NoReply
  Steers = {u1}
  Dms = {}
  Held = {}
  Replies <- MCReplies
  SteerCap = 2
  Requests = {r1}
  Steerable = {r1}
  MaxRuns = 2
  MaxSteps = 2
  MaxPromotions = 1
  MayStop = TRUE
  MayThrow = TRUE
  LockMayLapse = FALSE
  CleanupIsShort = TRUE
INVARIANTS NoSteerDropped
CHECK_DEADLOCK FALSE
