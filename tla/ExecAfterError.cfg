\* One database, a transaction of two reads.
CONSTANTS
  Databases = {0}
  UserCommands <- TwoReads
  MaxCommands = 2
SPECIFICATION Spec
PROPERTIES ExecReturnsItsOwn
