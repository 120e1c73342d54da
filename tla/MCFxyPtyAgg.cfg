SPECIFICATION Spec
CONSTANTS
  Base = 2
  Word = 4
  MaxDigits = 3
  MaxPow = 4
  Pow <- MCPow
  Rows = {1, 2, 3, 4}
  Scale = 1
  Values <- MCValues
CHECK_DEADLOCK FALSE
INVARIANTS TypeOK ExtremeRight SumRight ErrorDeserved
