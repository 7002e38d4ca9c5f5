SPECIFICATION Spec
CHECK_DEADLOCK FALSE
CONSTANTS
  Commands <- MCCommands
  Variables <- MCVariables
  TypedWords <- MCTypedWords
  MaxWords = 3
  MaxInstalled = 3
INVARIANTS
  FullSpelling
  NoGuess
  CompletionKeeps
