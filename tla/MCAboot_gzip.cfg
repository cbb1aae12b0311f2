CONSTANTS
  Parts <- MCParts
  LinuxParts <- MCLinuxParts
  Names <- MCNames
  Payloads <- MCPayloads
  ByteVals <- MCByteVals
  MaxCmds = 2

SPECIFICATION Spec

INVARIANT GzipRoutedByHeader

CHECK_DEADLOCK FALSE
