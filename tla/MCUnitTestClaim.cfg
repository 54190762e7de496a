SPECIFICATION Spec
CONSTANTS
  U64Max = 4000
  U128Max = 16004000
  VirtualSols = {3000}
  VirtualTokens = {1073}
  RealSols = {0}
  RealTokens = {800}
  MaxTrade = 100
CHECK_DEADLOCK FALSE
INVARIANTS UnitTestRoundTrip
