SPECIFICATION MCSpec
CONSTANTS
  g1 = g1
  g2 = g2
  c1 = c1
  c2 = c2
  timer = timer
  Alerts = {n1}
  Recipients = {r1}
  Ticks = {k1, k2}
  MaxAttempts = 2
  MaxFaults = 1
  Horizon = 2
  Near = 1
  WarningDays = {}
  Seats = 2
  Grants = {g1, g2}
  Quantity <- Asked
  Clerks = {c1, c2}
  Timers = {}
  MaxRenewals = 2
INVARIANTS SeatsWithinTotal RepeatsNeedFaults
PROPERTIES RenewsWhatIsThere DueIsAlerted AlertsGoOut
CHECK_DEADLOCK FALSE
