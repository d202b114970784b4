\* The images of monitor: the last table of one ends with .rdata.
SPECIFICATION Spec
CONSTANTS
  Threads = {t1, t2}
  Images <- MCImages
  Allocations <- MCAllocations
  Words <- MCWords
  Registers <- MCRegisters
  Callers <- MCCallers
  Called <- MCCalled
  MaxHits = 2
  MaxWrites = 1
INVARIANT TablesComplete
CHECK_DEADLOCK FALSE
