\* Up to two arguments: a mode repeated, a mode with a path, unusable ones.
CONSTANTS
  Arguments <- MCArguments
  MaxArgs = 2
  Tokens <- MCTokens
  Keywords <- MCKeywords
  MaskPaths <- MCMaskPaths
  Properties <- MCProperties
  MaxChanges = 1
SPECIFICATION Spec
INVARIANTS
  SizeFitsNames
  LastModeCounts
  OwnFiles
  OneConfiguration
CHECK_DEADLOCK FALSE
