CONSTANTS
  b1 = b1
  Scanner = Scanner
  PinCount = 1
  IoCount <- OnePin
  Options = {0, 2, 3, 4}
  PIN_DISABLED = 0
  PIN_SWITCH = 2
  PIN_TOGGLE = 3
  PIN_PULSE = 4
  Browsers = {b1}
  Stored = {0, 2}
  Written = {}
  Garbage = {}
  BusFails = FALSE
SPECIFICATION Spec
CHECK_DEADLOCK FALSE
INVARIANTS PageShowsFunctions
