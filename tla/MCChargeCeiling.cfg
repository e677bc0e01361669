SPECIFICATION CeilingSpec
CONSTANTS
  Null = Null
  KneeBaseline = 2000
  FullSoc = 100
  FullResetSoc = 98
  FullResetVoltage = 540
  HighCellStop = 3620
  HighCellSoft = 3550
  HighDeltaStop = 150
  LowTempStop = 0
  LowTempRecover = 2
  MinFactor = 5
  MaxFactor = 100
  DefaultFactor = 50
  Factors <- MCFactors
  Batteries <- MCBatteries
PROPERTIES
  LowTempHolds
  CellHolds
  FullHolds
