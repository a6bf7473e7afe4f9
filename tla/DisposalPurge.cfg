SPECIFICATION SerialSpec
CONSTANTS
  Assets = {a1}
  People = {p1}
  Warehouses = {w1}
  Locations = {l1}
  LocationOf <- MCLocationOf
  Docs = {d1}
  Handlers = {h1}
  Corrections = {}
  None = None
  Cases = {c1, c2}
  Users = {it, boss}
  Admins = {boss}
  Sensitive = {a1}
  Types = {"OTHER"}
  Evidence = {"DATA_ERASURE_CERTIFICATE"}
  Results = {"VERIFIED", "FAILED"}
  Clerks = {k1}
  Purges = {"DRAFT", "SUBMITTED", "APPROVED", "REJECTED", "IN_EXECUTION", "COMPLETED", "CANCELLED"}
  w1 = w1
  l1 = l1
SYMMETRY Symmetric
INVARIANT ActiveCaseReserves
CHECK_DEADLOCK FALSE
