\* Requests, replies, timeouts, disconnections, reconnections.
CONSTANTS
  Requests <- AllTypes
  Pipelines <- MixedPipelines
  MaxSent = 3
  MaxLines = 2
  Epochs = 2
SPECIFICATION FairSpec
INVARIANTS TypeOK AnswersMatch Drained ClosedIsClean InOrder NeverQueuedUnaware
PROPERTIES CallReturns
