SPECIFICATION TableSpec
CONSTANTS
  Half = 8
  MaximumDigit = 4
  Requests <- MCRequests
  Base = 2
  Word = 8
  MaxDigits = 4
  MaxPow = 6
  Pow <- MCPow
  TypeBytes = 6
  Printable <- MCPrintable
  Texts <- MCTexts
INVARIANTS TypeOK TableTypeOK Represented RowRight
PROPERTY LoadedAsDumped
CHECK_DEADLOCK FALSE
