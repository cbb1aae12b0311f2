CONSTANTS
  Delay = 2
  NoDevice = NoDevice
  Devices <- MCDevices
  CacheDevice <- MCCacheDevice
  DataDevice <- MCDataDevice
  VolDevice <- MCVolDevice
  VolDevice2 <- MCVolDevice2
SPECIFICATION FairSpec
CHECK_DEADLOCK FALSE
INVARIANT DeferredUpdateApplied
