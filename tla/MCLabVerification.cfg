CONSTANTS
  a1 = a1
  a2 = a2
  k1 = k1
  k2 = k2
  NoOwner = NoOwner
  Actions <- MCActions
  Keys <- MCKeys
  Configs <- LabConfigs
  LabUrl = "lab"
  Minutes <- MCMinutes
  MaxTime = 1
SYMMETRY MCSymmetry
SPECIFICATION VerifySpec
INVARIANT VerdictIsAboutAction
