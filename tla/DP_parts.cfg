SPECIFICATION PathSpec
CONSTANTS
  HeadSize = 2
  MaxPayload = 8
  per_write_max_bytes = 3
  MaxFrag = 2
  MaxConn = 2
  Children = 2
  MaxCommands = 4
  LinkDests = 2
  LinkFrags = 2
  LinkRetries = 1
  MaxManagers = 2
  MaxFailures = 1
  MulticastFrags = 3
  num_subfragments = 3
  subfragments_per_send_ = 2
  BundleFrags = 4
  ShmemFrags = 4
  buffer_count_ = 2
  MaxSegments = 2
  Policies = {"RoundRobin", "PreferSameHost", "CapacityTest"}
  Minimums <- MCMinimums
  Percent = 50
  Receivers = {1, 2}
  Requesters = {3, 4}
  my_rank = 0
  Host <- MCHost
  RouteSeqs = 2
  ReceiverTokens = 2
  MaxSent <- MCMaxSent
  MaxResets = 1
  MaxConnects = 2
  Capacity = 2
  Crashes = TRUE
  InputEvents = 2
  MaxRestarts = 1
  Registered <- MCRegistered
  OutEvents = 2
  OutSubruns = 2
  MonitorRuns = 2
  MonitorWire = 2
  MonitorData = 2
  maxEventsBeforeInit_ = 1
  send_retry_count_ = 1
  InputFiles <- MCInputFiles
  MaxOutputs = 4
CHECK_DEADLOCK FALSE
INVARIANT FragmentsIntact
INVARIANT NothingLeftBehind
INVARIANT ChildrenFollow
INVARIANT TokensAccounted
INVARIANT ArtSeesEvents
INVARIANT LoggerFollows
INVARIANT MonitorsFollow
INVARIANT FilesExact
PROPERTY FragmentsDelivered
PROPERTY RequestsRouted
PROPERTY ThreadsEnd
PROPERTY StopEnds
