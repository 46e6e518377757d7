\* One argument, every mode the comments name.
CONSTANTS
  Arguments <- MCArguments
  MaxArgs = 1
  Tokens <- MCTokens
  Keywords <- MCKeywords
  MaskPaths <- MCMaskPaths
  Properties <- MCProperties
  MaxChanges = 0
SPECIFICATION Spec
INVARIANTS
  DocumentedModesCapture
CHECK_DEADLOCK FALSE
