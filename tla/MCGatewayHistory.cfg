SPECIFICATION HistorySpec
CONSTANTS
  limited = limited
  other = other
  third = third
  Provider = {limited, other, third}
  Limited = {limited}
  QuotaLimit <- MCQuotaLimit
  QuotaWindow <- MCQuotaWindow
  FailureThreshold = 2
  Cooldown = 2
  Slot = {s1, s2}
  Profile <- MCProfile
  MaxAttempts = 2
  NoProvider = NoProvider
SYMMETRY Symmetry
INVARIANTS
  TypeOK
  WindowMatchesAttempts
  OpenCircuitHasStreak
  QuotaOvershootBounded
  RequestInv
  QuotaHeld
  OpenCallsBounded
  PromiseKept
PROPERTIES
  FailoverContract
  DropIsExplained
