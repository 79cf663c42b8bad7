SPECIFICATION Spec
CONSTANTS
  Positions <- MCPositions
  Pad <- MCPad
  Code <- MCCode
  T = 1
  None = None
INVARIANTS TypeOK AcceptedIsClose CloseIsAccepted
