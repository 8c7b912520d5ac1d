SPECIFICATION FairSpec
CONSTANTS
  r1 = r1
  u1 = u1
  u2 = u2
  d1 = d1
  NoReply = NoReply
  Steers = {u1, u2, d1}
  Dms = {d1}
  Held = {u2}
  Replies <- MCReplies
  SteerCap = 2
  Requests = {r1}
  Steerable = {r1}
  MaxRuns = 3
  MaxSteps = 2
  MaxPromotions = 1
  MayStop = TRUE
  MayThrow = FALSE
  LockMayLapse = TRUE
  CleanupIsShort = TRUE
INVARIANTS TypeOK FiledWithItsReply MarkIsNeverLate DmStampHonest
PROPERTIES KeepsPromise EverySteerSettles
CHECK_DEADLOCK FALSE
