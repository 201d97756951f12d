SPECIFICATION FairSpec
CONSTANTS
  t1 = t1
  t2 = t2
  m1 = m1
  m2 = m2
  NoThread = NoThread
  Threads = {t1, t2}
  Machines = {m1}
  Target <- SameClient
  Sharings = {"own", "saferef"}
  Timed = {t1}
  RaceOutcomes = {"lost", "crash"}
  MaxCopies = 2
  LateReads = TRUE
  IdModulus = 3
  MaxId = 3
CHECK_DEADLOCK FALSE
INVARIANTS
  TypeOK
  AnswerIntegrity
  ResponseNamesRequest
  NoDanglingCallback
  SharedMessageIsStable
  RegisteredCallIsInFlight
PROPERTIES
  OnlyRacesLoseCallbacks
  RegisteredCallReturns
  ImplementsRemoteCall
