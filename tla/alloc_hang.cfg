\* One thread: a merged block is freed and its start reused by a smaller one.
SPECIFICATION FairSpec
CONSTANTS
  t1 = t1
  t2 = t2
  Threads = {t1}
  CallSites = {site}
  Agent = agent
  Blocks <- ShrinkBlocks
  Header = 1
  FailSizes = {}
  Calls = {"malloc", "free"}
  MaxEntries <- UpToThree
  MaxUntracked = 1
PROPERTY TrackNewReturns
CHECK_DEADLOCK FALSE
