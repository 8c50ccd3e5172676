SPECIFICATION DSpec
CONSTANTS
  Kinds = {"BoardReader"}
  AutoKinds = {}
  MaxGen = 1
  Labels = {l1}
  NoLabel = NoLabel
  MaxArt = 2
  MaxJobs = 2
PROPERTY CommandsEnd
CHECK_DEADLOCK FALSE
