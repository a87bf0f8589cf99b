\* transaction_mode_ after connect() on a live connection.
CONSTANTS
  Requests <- OpenTxnCommands
  Pipelines <- NoPipelines
  MaxSent = 3
  MaxLines = 3
  Epochs = 2
SPECIFICATION Spec
INVARIANT ModeMeansQueueing
