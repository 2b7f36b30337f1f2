SPECIFICATION Spec
CONSTANTS
  Pairs <- MCPairs
  MaxFaults = 2
  MaxCalls = 2
  MaxCrashes = 1
INVARIANTS
  DivergenceIsReported
PROPERTIES
  ThresholdsStayOrdered
  OnlyGrantedCallsWrite
  OperationsEnd
