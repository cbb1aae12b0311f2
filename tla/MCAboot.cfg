CONSTANTS
  Parts <- MCParts
  LinuxParts <- MCLinuxParts
  Names <- MCNames
  Payloads <- MCPayloads
  ByteVals <- MCByteVals
  MaxCmds = 2

SPECIFICATION Spec

INVARIANT TypeOK
INVARIANT ReplyOnce
INVARIANT FlashOkayComplete

CHECK_DEADLOCK FALSE
PROPERTY ProtocolRefined
