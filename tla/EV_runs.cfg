SPECIFICATION RunSpec
CONSTANTS
  Sources = {s1, s2}
  MaxSeqID = 5
  MaxSubrun = 4
  MaxResumes = 2
  MaxSubrunRuns = 1
  max_subrun_event_map_length_ = 2
  queue_size_ = 2
  MaxEvents = 3
  MaxThreads = 3
  num_art_processes_ = 1
  ArtThreads = {1, 2}
  InitSources = {i1}
  broadcast_buffer_count = 3
  MaxArtRuns = 2
  MaxArtEnds = 1
INVARIANT EventsInSubrun
INVARIANT NoOvercommit
PROPERTY EventsKeepComing
PROPERTY StoppedMeansNoArt
PROPERTY ArtInitialised
CHECK_DEADLOCK FALSE
