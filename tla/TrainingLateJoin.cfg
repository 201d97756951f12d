SPECIFICATION Spec
CONSTANTS
  Clients = {1, 2}
  EarlyClients = {1}
  DataKinds <- PredictorsResponses
  Batches <- OneBatch
  LoadOutcomes = {"ok"}
  PromptHandlers = TRUE
  MaxTrains = 1
  MaxEvaluations = 1
  MaxShuffles = 0
CHECK_DEADLOCK FALSE
INVARIANT
  EvaluatedOnCurrentModel
