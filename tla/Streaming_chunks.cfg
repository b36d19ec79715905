\* Every way of cutting answers of up to three events into chunks.
SPECIFICATION Spec
CONSTANTS
  NoCall = NoCall
  ChoiceIds = {0, 1}
  MaxEvents = 3
  MaxPending = 5
  Denied = {"drop"}
  Answers <- MCAnswers
  Entries <- MCEntries
  Atoms <- MCAtoms
  Dictionary <- MCDictionary
  ValidArgs <- MCValidArgs
INVARIANTS
  TypeOK
  FramingKept
  DeniedCallWithheld
  TextAsIfWhole
  UsageRecorded
CHECK_DEADLOCK FALSE
