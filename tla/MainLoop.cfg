\* The boot helper with a short wait for the Classic, then the loop over a few
\* seconds with two midnights, one write of the relay failing.
CONSTANTS
  NtpWait = 1
  ClassicWait = 4
  Confirm = 2
  Tolerance = 2
  MaxStep = 40
  ReadTimeout = 2
  PersistedSkews <- ModelSkews
  Lags <- ModelLags
  Misreads <- ModelMisreads
  MaxTime = 8
  Day = 5
  Window = 1
  Qualify = 2
  Snapshots <- ModelSnapshots
  MaxFaults = 1
SPECIFICATION LoopSpec
INVARIANTS
  HotPackStopsFan
  TotalsWithinDay
PROPERTIES
  FanOnlyAfterSteadySun
  StepsOnlyToSteadyClock
CHECK_DEADLOCK FALSE
