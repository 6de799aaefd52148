CONSTANTS
  b1 = b1
  Scanner = Scanner
  PinCount = 1
  IoCount <- OnePin
  Options = {0, 3, 4}
  PIN_DISABLED = 0
  PIN_SWITCH = 2
  PIN_TOGGLE = 3
  PIN_PULSE = 4
  Browsers = {b1}
  Stored = {65535}
  Written = {2}
  Garbage = {0, 255}
  BusFails = TRUE
SPECIFICATION Spec
CHECK_DEADLOCK FALSE
INVARIANTS TypeOK
PROPERTIES FunctionsChangeOnRequest SwitchesAsChecked UntouchedSwitchesKeep MappingRecovers
