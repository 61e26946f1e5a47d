\* Two targets one after the other or together, a delay of two ticks, one failing call.
CONSTANTS
  Targets = {t1, t2}
  Delay = 2
  Zone = 1
  None = None
  MaxFaults = 1
SPECIFICATION FairSpec
INVARIANT TypeOK
PROPERTY DeletedAfterDelay
PROPERTY UnusedIsDeleted
PROPERTY DelayIsCancelled
PROPERTY ImplementsRefSet
INVARIANT RoundIsSound
