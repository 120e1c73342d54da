SPECIFICATION Spec
CONSTANTS
  Base = 3
  Word = 128
  MaxDigits = 8
  MaxPow = 12
  Pow <- MCPow
  LoDigits = 3
  ChunkDigits = 2
  BufSize = 12
  IntWord = 32
  Inputs <- MCAllInputs
  Scales <- MCScales
INVARIANT OutMaximumDigit
CHECK_DEADLOCK FALSE
