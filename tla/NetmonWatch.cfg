SPECIFICATION FairSpec
CONSTANTS
  Devices = {d1}
  Pollers = {p1}
  Staff = {s1}
  Alerts = {n1, n2}
  Threshold = 2
  MaxCrashes = 1
INVARIANT DownHasAlert
PROPERTIES OutageReported RecoveryRecorded
