SPECIFICATION FairStoreSpec
CONSTANTS
  Keys = {k1, k2}
  Values = {v1}
  NoValue = NoValue
  TTLs = {1, 2}
  MaxEntries = 3
  Horizon = 1
INVARIANTS
  StoreTypeOK
  NoOrphanTimer
PROPERTIES
  ImplementsBackend
  EvictionGuaranteed
