\* Started suspended: two threads, two functions on one page, one on a data page.
SPECIFICATION FairSpec
CONSTANTS
  t1 = t1
  t2 = t2
  s1 = s1
  s2 = s2
  s3 = s3
  text = text
  data = data
  Threads = {t1, t2}
  Agent = agent
  Sites = {s1, s2, s3}
  NoSite = NoSite
  Pages = {text, data}
  PageOf <- SamePage
  InitProt <- Prots
  Dynamic = FALSE
  OwnTraps = TRUE
  MaxCalls = 2
INVARIANTS
  TypeOK
  NoDanglingUse
  EveryFunctionArmed
  ObservedOnce
  ProtectionRestored
  WriteAllowed
PROPERTIES
  HandlerAdvances
  HandlerReturns
  TargetResumed
CHECK_DEADLOCK FALSE
