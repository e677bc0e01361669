SPECIFICATION FairSpec
CONSTANTS
  a = a
  b = b
  Callers <- Two
  Askers <- One
  Togglers <- Other
  MaxQueue = 2
  Nobody = Nobody
  Refresh = Refresh
INVARIANTS
  DisabledPublishesNothing
PROPERTIES
  CommandsHonest
  OnlyActorEnters
  CommandsTaken
  TelemetryReturns
