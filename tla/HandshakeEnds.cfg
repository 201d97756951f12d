SPECIFICATION FairSpec
CONSTANTS
  Self = 0
  NoId = NoId
  ConfigFiles <- Complete
  StrayIds = {4, 7}
  IdSpan = 4
  Clients = {1, 2}
  ConfStr <- Strings
  StepWidth = 2
  Retries = 2
  MaxRounds = 1
  Surprises = {"slowAcceptor", "slowCallback", "slowInfo", "stranger"}
CHECK_DEADLOCK FALSE
PROPERTY
  HandshakeEnds
