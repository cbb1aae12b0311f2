------------------------------ MODULE MCAboot ------------------------------
(* A disk_layout.conf with a Linux partition (cache) and another (boot),  *)
(* flash:/erase: arguments naming them, the disk, an OSIP slot and an     *)
(* unknown name, and payloads that start like a gzip stream in every way  *)
(* the test at aboot.c:172 tells apart.                                   *)
EXTENDS Aboot

MCParts      == {"cache", "boot"}
MCLinuxParts == {"cache"}
MCNames      == MCParts \cup {"disk", "osip0", "bogus"}
MCByteVals   == {0, 8, 31, 139}
MCPayloads   ==
  {<<>>, <<31, 139>>, <<0, 0, 0, 0>>}
    \cup {<<31, 139, b>> : b \in MCByteVals}
    \cup {<<31, 139, b, c>> : b \in MCByteVals, c \in MCByteVals}
=============================================================================
