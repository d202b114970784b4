\* Two threads, all three functions, refused requests, and a heap that splits and
\* merges blocks.
SPECIFICATION Spec
CONSTANTS
  t1 = t1
  t2 = t2
  Threads = {t1, t2}
  CallSites = {site}
  Agent = agent
  Blocks <- SplitBlocks
  Header = 1
  FailSizes = {2}
  Calls = {"malloc", "free", "realloc"}
  MaxEntries <- Narrowing
  MaxUntracked = 1
INVARIANTS
  TypeOK
  LiveBlocksTracked
  EntriesDisjoint
  FreeRecorded
  AssertHolds
  LiveBlockHasEntry
PROPERTIES
  LoopAdvances
  FollowsShadow
SYMMETRY Symmetry
CHECK_DEADLOCK FALSE
