\* Announcements of two ticks, deleted one tick after their end.
SPECIFICATION SpecDiscovery
CONSTANTS
  Messages <- MCMessages
  Keys <- MCKeys
  Claims <- MCClaims
  NoRow = NoRow
  Swept = {"eth0"}
  MaxRows = 2
  MaxAddresses = 1
  MaxRecords = 3
  MaxTtl = 2
  Retention = 1
  Grace = 0
  MinAge = 1
  MaxAge = 2
  FallbackAge = 1
  MaxLag = 1
  AgeCap = 3
PROPERTIES
  ServiceNotHandedOver
  SameResponseKept
  FlushedIsGone
  PruneSpares
