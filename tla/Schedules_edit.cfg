SPECIFICATION ScheduleSpec
CONSTANTS
  None = None
  Schedules = {e1, e2}
  BadZone = {e2}
  Periods = {1, 2}
  LateGrace = 0
  CacheBound = 2
  MaxTime = 2
  MaxEdits = 2
  MayCrash = FALSE
INVARIANT EditGoverns
CHECK_DEADLOCK FALSE
