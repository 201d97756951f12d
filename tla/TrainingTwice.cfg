SPECIFICATION Spec
CONSTANTS
  Clients = {1, 2}
  EarlyClients = {1, 2}
  DataKinds <- AllKinds
  Batches <- TwoBatches
  LoadOutcomes = {"ok"}
  PromptHandlers = TRUE
  MaxTrains = 2
  MaxEvaluations = 2
  MaxShuffles = 2
CHECK_DEADLOCK FALSE
INVARIANTS
  TypeOK
  EvaluatedOnCurrentModel
  ShuffleAgreement
