SPECIFICATION CastFirstSpec
CONSTANTS
  Base = 2
  Word = 4
  MaxDigits = 3
  MaxPow = 4
  Pow <- MCPow
  Regs = {r1, r2}
  Cells = {c1, c2, c3}
  Scales = {1, 2}
  ColumnScale = 1
  Literals <- MCLiterals
SYMMETRY MCSymmetry
PROPERTY AddIsSum
