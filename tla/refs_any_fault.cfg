\* Two application pods, a shared mount, a delete delay, resource requests, any one fault.
CONSTANTS
  t1 = t1
  t2 = t2
  Targets = {t1, t2}
  Delayed = {TRUE}
  HasResources = TRUE
  ShareMount = TRUE
  Churn = TRUE
  Faults = {"api", "client", "plugin", "kubelet", "late", "force", "slow", "resources", "umount"}
  MaxFaults = 1
SYMMETRY Symmetry
SPECIFICATION Spec
INVARIANT RefsInv
INVARIANT AddRefSeesAllRefs
PROPERTY LiveRefsKept
PROPERTY WritesKeepRecords
PROPERTY RefsAddedByPublish
PROPERTY ImplementsRefSet
PROPERTY PublishLeavesRef
PROPERTY RunDeletesUnused
