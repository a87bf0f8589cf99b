\* exec_pipeline against "write all and read all".
CONSTANTS
  Requests <- PlainCommands
  Pipelines <- PlainPipelines
  MaxSent = 3
  MaxLines = 3
  Epochs = 2
SPECIFICATION Spec
INVARIANT WriteAllReadAll
