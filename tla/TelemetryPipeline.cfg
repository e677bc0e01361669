SPECIFICATION StoreSpec
CONSTANTS
  Loop = loop
  Callers = {web}
  Polls = {1}
  Limit = 2
  MaxTicks = 1
  MaxFaults = 1
INVARIANT QuietOkMeansDrained
PROPERTIES GapsAccounted OwnMarksHonest RowsReachBucket
