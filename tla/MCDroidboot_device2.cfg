CONSTANTS
  Delay = 2
  NoDevice = NoDevice
  Devices <- MCDevices
  CacheDevice <- MCCacheDevice
  DataDevice <- MCDataDevice
  VolDevice <- MCVolDeviceCard
  VolDevice2 <- MCVolDevice2OnData
SPECIFICATION FairSpec
CHECK_DEADLOCK FALSE
INVARIANT UpdatePackagePreserved
