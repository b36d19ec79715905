\* Tool-call deltas that a chunk boundary splits are not seen by the gate.
SPECIFICATION Spec
CONSTANTS
  NoCall = NoCall
  ChoiceIds = {0, 1}
  MaxEvents = 3
  MaxPending = 5
  Denied = {"drop"}
  Answers <- ToolAnswers
  Entries <- MCEntries
  Atoms <- MCAtoms
  Dictionary <- MCDictionary
  ValidArgs <- MCValidArgs
INVARIANT DeniedCallNeverSent
CHECK_DEADLOCK FALSE
