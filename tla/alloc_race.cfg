\* Two threads and one block.
SPECIFICATION Spec
CONSTANTS
  t1 = t1
  t2 = t2
  Threads = {t1, t2}
  CallSites = {site}
  Agent = agent
  Blocks <- OneBlock
  Header = 1
  FailSizes = {}
  Calls = {"malloc", "free"}
  MaxEntries <- UpToThree
  MaxUntracked = 1
INVARIANT LiveNotReported
CHECK_DEADLOCK FALSE
