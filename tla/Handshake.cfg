SPECIFICATION Spec
CONSTANTS
  Self = 0
  NoId = NoId
  ConfigFiles <- Files
  StrayIds = {4, 7}
  IdSpan = 4
  Clients = {1, 2}
  ConfStr <- Strings
  StepWidth = 2
  Retries = 2
  MaxRounds = 2
  Surprises = {"slowAcceptor", "slowCallback", "slowInfo", "slowReceiver", "stranger", "portTaken"}
CHECK_DEADLOCK FALSE
INVARIANTS
  TypeOK
  IdsHaveSockets
  EveryMachineIsTried
  NobodyTalksToItself
  VerdictsAgree
