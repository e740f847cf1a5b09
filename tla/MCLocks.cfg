CONSTANTS
  a1 = a1
  a2 = a2
  k1 = k1
  k2 = k2
  r1 = r1
  r2 = r2
  leader = leader
  worker = worker
  NoRequest = NoRequest
  NoOwner = NoOwner
  Actions <- MCActions
  Keys <- MCKeys
  Configs <- MCConfigs
  LabUrl = "lab"
  Minutes <- MCMinutes
  MaxTime = 1
SPECIFICATION MCSpec
PROPERTIES
  LockReleased
  ThreadsEnd
