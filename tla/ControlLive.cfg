SPECIFICATION FairSpec
CONSTANTS
  Null = Null
  KneeBaseline = 2000
  FullSoc = 100
  FullResetSoc = 98
  FullResetVoltage = 540
  HighCellStop = 3620
  HighCellSoft = 3550
  HighDeltaStop = 150
  LowTempStop = 0
  LowTempRecover = 2
  MinFactor = 5
  MaxFactor = 100
  DefaultFactor = 50
  Factors <- OneFactor
  Batteries <- MCBatteries
  HoldTicks = 2
  MaxAmps <- MCMaxAmps
  Reserve = 0
  FeedbackTolerance = 10
  WriteDelta = 1
  Deadband = 2
  Quantum = 3
  SleepTicks = 1
  Inputs <- LiveInputs
  ManualLimits <- None
  OperatorSwitches <- None
  OperatorLimits <- None
  OperatorPauses <- None
  MaxPending = 0
  ReplyLoss = FALSE
PROPERTIES
  CoilStopEnforced
  ReleaseRestoresCharging
  LimitsSettle
