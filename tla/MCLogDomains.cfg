SPECIFICATION Spec
CONSTANTS
  Names <- MCNames
  Inputs <- MCInputs
  Domains <- MCDomains
  DEBUG = 1
  WARNING = 0
  Bad = Bad
  Unset = Unset
  None = None
CHECK_DEADLOCK FALSE
INVARIANTS
  TypeOK
  LongestPrefixWins
  LowestLevelBounds
  FirstSettingHolds
  SplitIsStable
