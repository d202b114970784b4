\* Two threads, two calls, one change of the heap.  A run ends when the agent is detached.
SPECIFICATION Spec
CONSTANTS
  Threads = {t1, t2}
  Images <- MCImages
  Allocations <- MCAllocations
  Words <- MCWords
  Registers <- MCRegisters
  Callers <- MCCallers
  Called <- MCCalled
  MaxHits = 2
  MaxWrites = 1
INVARIANTS
  TypeOK
  FunctionsApart
  TypesExact
  RecordsTrue
  LogComplete
CHECK_DEADLOCK FALSE
