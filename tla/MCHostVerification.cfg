CONSTANTS
  a1 = a1
  a2 = a2
  k1 = k1
  k2 = k2
  Actions <- MCActions
  Keys <- MCKeys
  Configs <- MCConfigs
  LabUrl = "host"
  Minutes <- MCMinutes
  MaxTime = 1
  MaxEnv = 2
  MaxProcess = 3
SYMMETRY MCSymmetry
SPECIFICATION MCSpec
INVARIANTS
  ApprovedBeforeEffect
  OneEffectOnTheTarget
  OutcomesAreTrue
  HalfDoneStaysOpen
  VerdictsAreTrue
  RunShowsRecovery
