CONSTANTS
  a1 = a1
  a2 = a2
  k1 = k1
  k2 = k2
  r1 = r1
  r2 = r2
  g1 = g1
  x1 = x1
  c1 = c1
  p1 = p1
  p2 = p2
  NoKey = NoKey
  Actions <- MCActions
  Keys <- MCKeys
  Configs <- MCModes
  LabUrl = "lab"
  Minutes <- MCMinutes
  MaxTime = 1
  Movers <- MCMovers
  Sessions <- MCSessions
  MaxEvents = 6
  Decidable <- MCDecidable
  OperatorMoves <- MCOperatorMoves
  AgentMoves <- MCAgentMoves
  Requests <- MCRequests
  Agents <- MCAgents
  ReplayKeys <- MCReplayKeys
  Collectors <- MCCollectors
  Pairs <- MCPairs
  PairOf <- MCPairOf
  Runs <- MCRuns
  RunOf <- MCRunOf
  Required <- MCPairs
  Observations <- MCObservations
  MaxEvidence = 2
SYMMETRY MCSymmetry
CHECK_DEADLOCK FALSE
SPECIFICATION MCSpec
INVARIANT JournalIsChain
