SPECIFICATION SettingsSpec
CONSTANTS
  Threads = {t1, t2}
  NoOne = NoOne
  Requests <- MCRequests
  Blocks <- MCBlocks
  Limits = {0, 560, 565}
  Default = 50
  MaxDelta = 10
SYMMETRY MCSymmetry
INVARIANT BlockSound
INVARIANT AnswerHonest
INVARIANT NudgeFromFresh
INVARIANT FileMatchesMemory
PROPERTY RaisedWithinLimit
