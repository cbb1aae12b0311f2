CONSTANTS
  CmdLines <- MCCmdLines
  Parts <- MCParts
  DataPtn <- MCDataPtn
  BootDir <- MCBootDir
  Width = 5
SPECIFICATION Spec
INVARIANT TypeOK
INVARIANT IntParamsFromCmdline
INVARIANT BootAfterDelay
CHECK_DEADLOCK FALSE
