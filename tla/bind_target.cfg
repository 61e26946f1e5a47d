\* Two clients, one after the other, one failing call, and recoveries that race the unpublishing.
CONSTANTS
  MaxClients = 2
  MaxFaults = 1
  MaxRaces = 2
SPECIFICATION FairSpec
INVARIANT TypeOK
INVARIANT UnpublishedIsClean
INVARIANT PublishedIsMounted
PROPERTY TargetHeals
PROPERTY UnpublishEnds
