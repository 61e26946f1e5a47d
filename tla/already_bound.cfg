\* Two clients; no call fails.
CONSTANTS
  MaxClients = 2
  MaxFaults = 0
  MaxRaces = 0
SPECIFICATION Spec
PROPERTY AlreadyBound
