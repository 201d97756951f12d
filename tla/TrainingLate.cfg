SPECIFICATION FairSpec
CONSTANTS
  Clients = {1, 2}
  EarlyClients = {}
  DataKinds <- PredictorsResponses
  Batches <- TwoBatches
  LoadOutcomes = {"ok", "failed"}
  PromptHandlers = FALSE
  MaxTrains = 1
  MaxEvaluations = 2
  MaxShuffles = 1
CHECK_DEADLOCK FALSE
INVARIANTS
  BatchCountedOnce
  PhasesDoNotOverlap
PROPERTY
  OnlyLostCallsKeepTrain
