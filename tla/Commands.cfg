CONSTANT MaxSize = 2
SPECIFICATION Spec
INVARIANTS TypeOK ArgsAccepted Understood TrueMeansRun
PROPERTIES TransactionSurvives
