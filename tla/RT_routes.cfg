SPECIFICATION FairSpec
CHECK_DEADLOCK FALSE
CONSTANTS
  b1 = b1
  b2 = b2
  s1 = s1
  s2 = s2
  NoBuilder = NoBuilder
  Builder = {b1, b2}
  Sender = {s1, s2}
  Modes = {"EventBuilding", "RequestBasedEventBuilding"}
  MaxSeq = 2
  MaxTokens = 1
  CacheSize = 1
  MaxPackets = 1
  MaxStops = 1
INVARIANT OneDestination
INVARIANT TokensHonoured
PROPERTY EventsRouted
