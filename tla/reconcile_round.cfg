\* Two mount pods whose runs may fail and recover at any time, back-offs of up to four periods.
CONSTANTS
  Pods = {p1, p2}
  MaxRetryPeriod = 4
  MaxLag = 2
  MaxFaults = 1
SPECIFICATION FairSpec
INVARIANT TypeOK
INVARIANT RoundsApart
PROPERTY RunAgain
PROPERTY WorkIsDone
