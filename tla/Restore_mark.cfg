SPECIFICATION RestoreSpec
CONSTANTS
  OldFiles = {u1, u2}
  NewFiles = {u2, u3}
  OldKeys = {u1, u2}
  NewKeys = {u2, u3}
  MaxMishaps = 2
  MaxTheirs = 0
  MarkMayBeLost = TRUE
  Extracted = Extracted
  NoFolder = NoFolder
INVARIANT RestoreIsWhole
CHECK_DEADLOCK FALSE
