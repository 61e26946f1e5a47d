\* A volume and its snapshot, sizes that change between attempts, up to two faults.
CONSTANTS
  v1 = v1
  v2 = v2
  v3 = v3
  s1 = s1
  s2 = s2
  c1 = c1
  c2 = c2
  Vols = {v1}
  Snaps = {s1}
  SnapOf <- OneSnapOf1
  Source <- OneVol
  NoSource = NoSource
  SharedPath = SharedPath
  Slots = {c1, c2}
  Sizes = {1, 2}
  ShareMount = FALSE
  IsCe = FALSE
  Faults = {"error", "late", "cli", "plugin"}
  MaxFaults = 2
  MaxMounts = 3
SPECIFICATION FairSpec
INVARIANT DeletedStaysGone
PROPERTY QuotaAsAsked
PROPERTY Provisioned
PROPERTY Reclaimed
INVARIANT HandlersInv
INVARIANT BoundIsThere
PROPERTY ImplementsVolumeStore
