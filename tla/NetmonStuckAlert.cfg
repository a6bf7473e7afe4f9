SPECIFICATION FairSpec
CONSTANTS
  Devices = {d1}
  Pollers = {p1}
  Staff = {}
  Alerts = {n1, n2}
  Threshold = 2
  MaxCrashes = 0
PROPERTY RecoveryClearsAlert
