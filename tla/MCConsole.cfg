CONSTANTS
  Plugged <- MCPlugged
  Keys <- MCKeys
  KEYBUF_SIZE = 3
  MaxEvents = 4
  MaxEarly = 1
  MaxFaults = 2
  VGA_WIDTH = 3
  VGA_HEIGHT = 2
  MAX_BUF = 4
  BootScreens <- MCBootScreens
  Printable <- MCPrintable
SPECIFICATION Spec
CHECK_DEADLOCK FALSE
INVARIANTS
  KeysInOrder
  SleepsOnlyWhenEmpty
  LineIsOnScreen
PROPERTIES
  CommandsComplete
