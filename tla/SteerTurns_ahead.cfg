SPECIFICATION Spec
CONSTANTS
  r1 = r1
  u1 = u1
  NoReply = NoReply
  Steers = {u1}
  Dms = {}
  Held = {}
  Replies <- MCReplies
  SteerCap = 2
  Requests = {r1}
  Steerable = {r1}
  MaxRuns = 1
  MaxSteps = 2
  MaxPromotions = 1
  MayStop = FALSE
  MayThrow = FALSE
  LockMayLapse = FALSE
  CleanupIsShort = TRUE
INVARIANTS MarkAtItsBoundary
CHECK_DEADLOCK FALSE
