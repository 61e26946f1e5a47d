\* Three volumes of a StorageClass with one mount path, no fault.
CONSTANTS
  v1 = v1
  v2 = v2
  v3 = v3
  s1 = s1
  s2 = s2
  c1 = c1
  c2 = c2
  Vols = {v1, v2, v3}
  Snaps = {}
  SnapOf <- NoSnaps
  Source <- ThreeVols
  NoSource = NoSource
  SharedPath = SharedPath
  Slots = {c1, c2}
  Sizes = {0}
  ShareMount = TRUE
  IsCe = FALSE
  Faults = {}
  MaxFaults = 0
  MaxMounts = 3
SYMMETRY Symmetry
SPECIFICATION Spec
INVARIANT DeletedStaysGone
