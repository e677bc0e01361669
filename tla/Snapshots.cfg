SPECIFICATION SnapshotsSpec
CONSTANTS
  Chargers = {"classic"}
  Troubles = {"OK", "ERROR"}
  MaxAge = 1
  Skew = 0
  StaleAfter = 1
  ExpireAfter = 2
  LanThreshold = 2
INVARIANTS HiddenIsExplained LoadNeverMixesCycles
PROPERTY OutageReported
