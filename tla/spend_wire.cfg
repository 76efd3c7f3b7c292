SPECIFICATION Spec
CONSTANTS
  Base = 3
  HeadBytes = 2
  FrameByte = {0, 1, 2}
  ScriptByte = {0, 1, 2, 76, 77, 78, 80}
  MaxFrame = 8
  MaxScript = 6
INVARIANTS OneWireForm SuccessIsCode TreeOpens
CHECK_DEADLOCK FALSE
