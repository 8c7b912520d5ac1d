SPECIFICATION ServicesSpec
CONSTANTS
  k1 = k1
  k2 = k2
  t1 = t1
  t2 = t2
  w1 = w1
  w2 = w2
  g1 = g1
  e1 = e1
  e2 = e2
  s1 = s1
  s2 = s2
  r1 = r1
  r2 = r2
  d1 = d1
  d2 = d2
  q1 = q1
  q2 = q2
  h1 = h1
  z1 = z1
  z2 = z2
  p1 = p1
  c1 = c1
  c2 = c2
  c3 = c3
  Nobody = Nobody
  NoWake = NoWake
  None = None
  NoFolder = NoFolder
  NoCompact = NoCompact
  NoWriter = NoWriter
  Deleter = Deleter
  Calls = {k1, k2}
  Turns = {t1, t2}
  TurnOf <- MCTurnOf
  Wakes = {w1, w2}
  AgentOf <- MCAgentOf
  ChatOf <- MCChatOf
  AgentCap = 1
  RunCap = 1
  AgentHour = 1
  HourCap = 2
  Schedules = {e1, e2}
  BadZone = {e2}
  Periods = {1, 2}
  LateGrace = 0
  CacheBound = 2
  MaxTime = 2
  MaxEdits = 2
  MayCrash = TRUE
  Sends = {s1, s2}
  MaxResubscribes = 1
  MaxFaults = 2
  Runs = {r1, r2}
  Deletes = {d1, d2}
  Compacts = {q1, q2}
  CompactTurns = {t1}
  ZipChats = {h1}
  ZipWriters = {z1, z2}
  Replies = {p1}
  Resumes = {c1, c2, c3}
  CardOf <- MCCardOf
  MaxCards = 2
  Hold = Hold
  u1 = u1
  u2 = u2
  u3 = u3
  OldFiles = {u1, u2}
  NewFiles = {u2, u3}
  OldKeys = {u1, u2}
  NewKeys = {u2, u3}
  MaxMishaps = 3
  MaxTheirs = 1
  MarkMayBeLost = FALSE
  Extracted = Extracted
INVARIANTS ServicesTypeOK CapsHold CacheHidesNothing NoAnswerMissed FailsOnlyWhenLost NothingRunsOnDeleted CompactsGiveWay UsersWordStands NoHoldOutlivesItsAgent RunHasOneKeeper SweepsFindNoRun ToldNotRunNeverRuns RestoreIsWhole
PROPERTIES OnlyLaterSweepsTake SweepsSpareTheLiveTurn SlotFiresOnce WokenTurnsEnd WaitsEnd FoldersAreKept Reopens
CHECK_DEADLOCK FALSE
