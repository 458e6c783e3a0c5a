SPECIFICATION Spec
CONSTANTS
  MaxDial = 1
  MaxHandlers = 1
  MaxFault = 0
CHECK_DEADLOCK FALSE
PROPERTIES
  RunYReturns
