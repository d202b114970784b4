\* Attached to a running process: a thread searches the vector while it grows.
SPECIFICATION Spec
CONSTANTS
  t1 = t1
  t2 = t2
  s1 = s1
  s2 = s2
  s3 = s3
  text = text
  data = data
  Threads = {t1, t2}
  Agent = agent
  Sites = {s1, s2}
  NoSite = NoSite
  Pages = {text, data}
  PageOf <- SamePage
  InitProt <- Prots
  Dynamic = TRUE
  OwnTraps = FALSE
  MaxCalls = 1
INVARIANT AgentTrapsHandled
CHECK_DEADLOCK FALSE
