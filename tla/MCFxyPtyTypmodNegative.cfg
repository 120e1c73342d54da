SPECIFICATION Spec
CONSTANTS
  Half = 16
  MaximumDigit = 6
  Requests <- MCRequests
INVARIANT AcceptedRepresented
CHECK_DEADLOCK FALSE
