SPECIFICATION MCSpec
CONSTANTS
  Assets = {a1}
  People = {p1, p2}
  Warehouses = {w1}
  Locations = {l1}
  LocationOf <- MCLocationOf
  Docs = {d1, d2}
  Handlers = {h1, h2}
  Corrections = {"BROKEN"}
  None = None
  Cases = {c1, c2}
  Users = {it, boss}
  Admins = {boss}
  Sensitive = {}
  Types = {"OTHER"}
  Evidence = {"PHOTO"}
  Results = {}
  Clerks = {k1, k2}
  Purges = {"DRAFT", "SUBMITTED", "COMPLETED"}
  w1 = w1
  l1 = l1
  p1 = p1
  d1 = d1
SYMMETRY Symmetric
INVARIANTS HolderSigned HandedOutIsDocumented OneOpenDocument CustodyExcludesWarehouse
INVARIANTS ApprovalSegregated NothingOpenOnDisposed
PROPERTY CustodyKept
CHECK_DEADLOCK FALSE
