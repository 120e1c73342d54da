SPECIFICATION Spec
CONSTANTS
  Base = 2
  Word = 4
  MaxDigits = 3
  MaxPow = 4
  Pow <- MCPow
  Regs = {r1}
  Cells = {c1, c2}
  Scales = {1, 2}
  ColumnScale = 1
  Literals <- MCOneLiteral
SYMMETRY MCSymmetry
PROPERTY RowKept
