\* One application pod, with a delete delay or not, any one fault but a lack of resources.
CONSTANTS
  t1 = t1
  Targets = {t1}
  Delayed = {TRUE, FALSE}
  HasResources = FALSE
  ShareMount = FALSE
  Churn = TRUE
  Faults = {"api", "client", "plugin", "kubelet", "late", "force", "slow", "umount"}
  MaxFaults = 1
SPECIFICATION FairSpec
INVARIANT PublishedIsRecorded
PROPERTY PublishSucceeds
PROPERTY Recovers
PROPERTY MountPodReclaimed
