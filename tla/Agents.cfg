SPECIFICATION MCSpec
CONSTANTS
  d1 = d1
  d2 = d2
  p1 = p1
  p2 = p2
  t1 = t1
  t2 = t2
  a1 = a1
  a2 = a2
  i1 = i1
  i2 = i2
  None = None
  Devices = {d1, d2}
  Identified = {d1}
  Assets = {a1, a2}
  Operators = {o1, o2}
  Stock <- Stocks
  Processes = {p1, p2}
  HostOf <- Hosts
  Tokens = {t1, t2}
  Maximum <- Budgets
INVARIANT OneAgentPerAsset
PROPERTIES BudgetKept ITDecides ReportsArrive InboxHeals LeaversGo
CHECK_DEADLOCK FALSE
