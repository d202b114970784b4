\* One thread: the start of a freed block is reused by a smaller one.
SPECIFICATION Spec
CONSTANTS
  t1 = t1
  t2 = t2
  Threads = {t1}
  CallSites = {site}
  Agent = agent
  Blocks <- ShrinkBlocks
  Header = 1
  FailSizes = {}
  Calls = {"malloc", "free"}
  MaxEntries <- UpToThree
  MaxUntracked = 1
INVARIANT IteratorSurvivesInsert
CHECK_DEADLOCK FALSE
