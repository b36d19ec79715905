\* Prompts of two texts through every stage, under ten configurations.
SPECIFICATION Spec
CONSTANTS
  Inputs <- MCInputs
  Rules <- MCRules
  Numerals <- MCNumerals
  BlockWords = {"bad"}
  BlockRegex <- MCBlockRegex
  Untrusted = {"tool"}
  Phrases <- MCPhrases
  Frames <- MCFrames
  CallSets <- MCCallSets
  DeniedNames = {"drop"}
  Conforming <- MCConforming
  Atoms <- MCAtoms
  Dictionary <- MCDictionary
INVARIANTS
  TypeOK
  VaultSound
  OffsetsValid
  NothingPersonalSent
  EchoRestored
  
  BlockExplained
CHECK_DEADLOCK FALSE
