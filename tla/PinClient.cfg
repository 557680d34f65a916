SPECIFICATION Spec
CONSTANTS
  p1 = p1
  p2 = p2
  Pins <- MCPins
  Oracles = {"blockstream", "own"}
  Default = "blockstream"
  UINT32_MAX = 3
  MaxUnits = 2
  MaxRequests = 3
  None = None
SYMMETRY PinSymmetry
 
PROPERTIES  UnlockAsksServer
