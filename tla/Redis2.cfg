\* Two databases, transactions of up to two commands.
CONSTANTS
  Databases = {0, 1}
  UserCommands <- TwoCommands
  MaxCommands = 2
SPECIFICATION Spec
INVARIANTS TypeOK SelectedDb QueueIsSuffix BlockingAsAsked
PROPERTIES ExecPairs
