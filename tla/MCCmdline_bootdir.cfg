CONSTANTS
  CmdLines <- MCCmdLines
  Parts <- MCParts
  DataPtn <- MCDataPtn
  BootDir <- MCBootDir
  Width = 5
SPECIFICATION Spec
INVARIANT BootPathFromCmdline
CHECK_DEADLOCK FALSE
