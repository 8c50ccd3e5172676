SPECIFICATION DSpec
CONSTANTS
  Kinds = {"BoardReader", "EventBuilder", "DataLogger", "Dispatcher", "RoutingManager"}
  AutoKinds = {"BoardReader", "EventBuilder", "RoutingManager"}
  MaxGen = 1
  Labels = {l1}
  NoLabel = NoLabel
  MaxArt = 2
  MaxJobs = 2
CHECK_DEADLOCK FALSE
INVARIANT StateTruthful
INVARIANT MonitorHasArt
PROPERTY NothingLeftUndone
