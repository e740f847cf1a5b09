CONSTANTS
  j1 = j1
  j2 = j2
  d1 = d1
  d2 = d2
  NoJob = NoJob
  Nobody = Nobody
  Jobs = {j1, j2}
  Dispatchers = {d1, d2}
  MaxOutstanding = 2
  Tampered = {j2}
  Gated = TRUE
  MaxFaults = 2
  MaxRooms = 7
  MaxRestarts = 1
  Roles <- MCRoles
  Settings <- MCBackends
SPECIFICATION MCSpec
PROPERTY EveryJobSettles
CHECK_DEADLOCK FALSE
