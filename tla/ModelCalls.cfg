SPECIFICATION CallsSpec
CONSTANTS
  TurnAttempts = 2
  MaxOutput = 4
  MaxTools = 2
  MaxBatch = 2
  Results = {r1, r2}
  TurnFaults = 2
  decide = decide
  outcome = outcome
  Task <- MCTask
  Stage = {"T0", "T5"}
  StageOf <- MCStageOf
  After <- MCAfter
  Decision = "T0"
  MaxAttempts <- MCMaxAttempts
  MaxFaults = 2
SYMMETRY ResultSymmetry
INVARIANTS
  AllowanceHolds
  NoCallAfterUnknown
  OneConversation
  ResultFrozen
  NothingLost
  DoubtIsKept
  CompleteIsComplete
PROPERTIES
  NoBlindReplay
CHECK_DEADLOCK FALSE
