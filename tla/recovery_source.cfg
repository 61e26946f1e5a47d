\* One mount pod per StorageClass, as the manifests deploy it; the client dies once.
CONSTANTS
  t1 = t1
  Targets = {t1}
  Delayed = {FALSE}
  HasResources = FALSE
  ShareMount = TRUE
  Churn = TRUE
  Faults = {"client"}
  MaxFaults = 1
SPECIFICATION Spec
INVARIANT ShowsOwnVolume
