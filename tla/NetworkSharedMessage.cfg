SPECIFICATION FairSpec
CONSTANTS
  t1 = t1
  t2 = t2
  m1 = m1
  m2 = m2
  NoThread = NoThread
  Threads = {t1, t2}
  Machines = {m1, m2}
  Target <- OnePerClient
  Sharings = {"shared"}
  Timed = {t1, t2}
  RaceOutcomes = {}
  MaxCopies = 1
  LateReads = FALSE
  IdModulus = 3
  MaxId = 3
CHECK_DEADLOCK FALSE
PROPERTY
  TimedCallReturns
