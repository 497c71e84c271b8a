SPECIFICATION ToolSpec
CONSTANTS
  Block = 4
  Size = 5
  Slips = 1
INVARIANT
  RunsProtect
