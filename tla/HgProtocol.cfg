CONSTANTS
  Radix = 2
  Hellos <- MCHellos
  Commands <- MCCommands
  Answers <- MCAnswers
  MaxCommands = 3
  MaxResets = 1
SPECIFICATION Spec
INVARIANTS ResultsMatch NothingWithheld CommandsArrive
CHECK_DEADLOCK FALSE
