SPECIFICATION DecisionSpec
CONSTANTS
  tqqq = tqqq
  qqq = qqq
  up = up
  down = down
  flat = flat
  silent = silent
  unknown = unknown
  AssetOrder <- MCAssetOrder
  DailyReset = {tqqq}
  Index <- MCIndex
  ForecastHorizons <- MCSizedHorizons
  Scale = 100
  Neutral = silent
  Missing = unknown
  Grids <- MCGrids
  Calibrated <- MCCalibrated
  Risk <- MCRisk
  Covariance <- MCCovariance
  Policy <- MCPolicy
  Limits <- MCLimits
  Approvals = {40, 90}
  Volume <- MCVolume
  QuoteSets <- MCQuoteSets
  OpeningCash = 100
  Credit = 5
  MaxRuns = 2
  Horizons = {1, 2}
  Resources = {1, 2}
  ClaimAsks = {{1}}
  CritiqueAsks = {{}, {2}}
  MaxResources = 1
  MaxRevisions = 2
  Forecasts = {f1}
  Allocations = {p1}
  Contents = {c1, c2}
  Issues = {i1}
  MaxDeferrals = 1
  f1 = f1
  p1 = p1
  c1 = c1
  c2 = c2
  i1 = i1
SYMMETRY ContentSymmetry
CHECK_DEADLOCK FALSE
INVARIANTS
  AskedOnce
  AcceptedIsFinal
  FactsReachDecision
  PlannedRiskHeld
  BoughtWithinDecision
  NeverOverdrawn
  NoBuyAgainstAHorizon
