CONSTANTS
  Delay = 2
  NoDevice = NoDevice
  Devices <- MCDevices
  CacheDevice <- MCCacheDevice
  DataDevice <- MCDataDevice
  VolDevice <- MCVolDevice
  VolDevice2 <- MCVolDevice2

SPECIFICATION FairSpec

INVARIANT TypeOK
INVARIANT CountdownContract
INVARIANT UpdatePackagePreserved
PROPERTY StartupCompletes

CHECK_DEADLOCK FALSE
