SPECIFICATION OverlapSpec
CONSTANTS
  x1 = x1
  x2 = x2
  y1 = y1
  y2 = y2
  z1 = z1
  z2 = z2
  p1 = p1
  p2 = p2
  k1 = k1
  r1 = r1
  q1 = q1
  q2 = q2
  e1 = e1
  e2 = e2
  e3 = e3
  ws = ws
  Models <- MCModels
  NoModel = NoModel
  Roles <- MCRoles
  MaxRun = 3
  Handler = Handler
  Provisioners <- MCTwoProvisioners
  Users <- MCUsers
  Sids <- MCSids
  ApiKeys <- MCApiKeys
  Logins <- MCLogins
  Changes <- MCChanges
  Threshold = 2
  Window = 1
  IdleTime = 1
  Lifetime = 2
  KeyTime = 1
  MaxClock = 3
  Callers <- MCCallers
  InvRuns <- MCRuns
  InvReports <- MCReports
  Contents <- MCContents
  Limits = {1, 2}
  Attempts <- MCAttempts
  Ledgers <- MCLedgers
  Bills <- MCBills
  Replies <- MCReplies
  TokenLimit = 3
  MaxRounds = 2
  Adapters <- MCAdapters
  Movers <- MCAdapters
  Sensed <- MCSensed
  ClassOf <- MCClassOf
  Exports <- MCExports
  Sessions <- MCSessions
  IngestSession = ws
  TheGateway = TheGateway
  MaxEvents = 5
  MaxPieces = 2
  LastStage = 2
  MaxRequests = 2
  MaxTasks = 2
  MaxDenials = 1
  MaxStarts = 2
SYMMETRY Symmetry
CHECK_DEADLOCK FALSE
INVARIANT OneProvisioner
