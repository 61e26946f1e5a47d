\* Two snapshots of a volume and a volume made of one; one mount path for the StorageClass, community edition.
CONSTANTS
  v1 = v1
  v2 = v2
  v3 = v3
  s1 = s1
  s2 = s2
  c1 = c1
  c2 = c2
  Vols = {v1, v2}
  Snaps = {s1, s2}
  SnapOf <- TwoSnapsOf1
  Source <- FromSnap
  NoSource = NoSource
  SharedPath = SharedPath
  Slots = {c1, c2}
  Sizes = {0}
  ShareMount = TRUE
  IsCe = TRUE
  Faults = {"error", "late"}
  MaxFaults = 1
  MaxMounts = 3
SYMMETRY Symmetry
SPECIFICATION Spec
INVARIANT BoundIsIntact
