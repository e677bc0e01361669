SPECIFICATION EscalationSpec
CONSTANTS
  Transports = {classic, battery}
  Quorum = 2
  BlindAfter = 2
  Cooldown = 4
  DegradedAfter = 1
  MaxFaults = 1
PROPERTIES RebootSustained WedgeRebooted ChannelFollowsHealth
