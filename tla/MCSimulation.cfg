SPECIFICATION Spec
CONSTANTS
  local = local
  cloud = cloud
  backup = backup
  native = native
  NoProvider = NoProvider
  Provider = {local, cloud, backup, native}
  FailureThreshold = 10
  Cooldown = 0
  Limited = {local, cloud}
  QuotaLimit <- MCQuotaLimit
  QuotaWindow <- MCQuotaWindow
  LatencyWindow = 2
  Adapter <- MCAdapter
  Explicit = {backup}
  Declared <- MCDeclared
  Position <- MCPosition
  Models <- MCModels
  CostHint <- MCCostHint
  QualityHint <- MCQualityHint
  Weight <- MCWeight
  InputPrice <- MCInputPrice
  OutputPrice <- MCOutputPrice
  Profile <- MCProfile
  Bonus <- MCBonus
  Outcome <- MCOutcome
  Simulations <- MCSimulations
  MaxGap = 2
\* A simulation returns, or raises.
CHECK_DEADLOCK FALSE
INVARIANTS
  SimulationTypeOK
  QuotaNeverOverrun
  BurstBounded
  Reproducible
  SummaryAgreesWithStore
  RecentPercentiles
  AverageWithinLatencies
  LearnsFromChosen
PROPERTIES
  NeverDominated
