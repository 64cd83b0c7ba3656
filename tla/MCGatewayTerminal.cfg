SPECIFICATION Spec
CONSTANTS
  limited = limited
  other = other
  third = other  \* two providers
  Provider = {limited, other}
  Limited = {limited}
  QuotaLimit <- MCQuotaLimit
  QuotaWindow <- MCQuotaWindow
  FailureThreshold = 2
  Cooldown = 2
  Slot = {s1, s2}
  Profile <- MCProfile
  MaxAttempts = 2
  NoProvider = NoProvider
PROPERTIES
  TerminalErrorLeavesCircuit
