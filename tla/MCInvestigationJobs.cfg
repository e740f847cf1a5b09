CONSTANTS
  j1 = j1
  j2 = j2
  d1 = d1
  d2 = d2
  NoJob = NoJob
  Nobody = Nobody
  Jobs = {j1, j2}
  Dispatchers = {d1, d2}
  MaxOutstanding = 2
  Tampered = {j2}
  Gated = TRUE
  MaxFaults = 2
  MaxRooms = 7
  MaxRestarts = 2
  Roles <- MCRoles
  Settings <- MCSettings
SPECIFICATION MCSpec
INVARIANTS
  OneAssignmentPerAttempt
  CompletedIsAccepted
  AskedOnce
  AnswerNotSkipped
PROPERTIES
  EndedStaysEnded
  CheckpointsOnlyAdvance
CHECK_DEADLOCK FALSE
