CONSTANTS
  a1 = a1
  a2 = a2
  k1 = k1
  k2 = k2
  NoOwner = NoOwner
  Actions <- MCActions
  Keys <- MCKeys
  Configs <- MCConfigs
  LabUrl = "lab"
  Minutes <- MCMinutes
  MaxTime = 2
SYMMETRY MCSymmetry
SPECIFICATION Spec
INVARIANTS
  ApprovedBeforeEffect
  PostedAtMostOnce
  ActiveIsInForce
  OutcomesHaveReceipts
PROPERTIES
  ClosedStaysClosed
  ImplementsContract
