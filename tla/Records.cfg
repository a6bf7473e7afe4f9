SPECIFICATION MCSpec
CONSTANTS
  b1 = b1
  b2 = b2
  t1 = t1
  t2 = t2
  d1 = d1
  d2 = d2
  f1 = f1
  f2 = f2
  v1 = v1
  v2 = v2
  v3 = v3
  c1 = c1
  u1 = u1
  u2 = u2
  root = root
  ann = ann
  dora = dora
  s1 = s1
  s2 = s2
  k1 = k1
  k2 = k2
  None = None
  Absent = Absent
  Assets = {a1, a2}
  Scope = {a1}
  Locations = {l1}
  People = {p1}
  Clerks = {k1, k2}
  Serial = {k1}
  Batches = {b1, b2}
  Tags = {t1, t2}
  RowsOf <- Listed
  Faulty = {}
  Operators = {u1, u2}
  Admins = {u1}
  Versions = {v1, v2, v3}
  Controls = {c1}
  Docs = {d1, d2}
  Files = {f1, f2}
  Grid = {1, 5}
  First = {1}
  Strategies = {"ACCEPT"}
  Fields = {"likelihood", "impact"}
  Treatments = {t1}
  Outcomes = {"text"}
  Moves = {"IN_PROGRESS", "COMPLETED"}
  Assignees = {u2}
  Users = {root, ann, dora}
  Directory = {dora}
  Root = root
  Sessions = {s1, s2}
  MaxSecret = 2
INVARIANTS EachItemCountedOnce BatchIsWhole
INVARIANTS IncidentsKept ComplianceKept LevelsMatch AdminRemains SessionsFollowPassword
PROPERTY RollbackSparesWork
CHECK_DEADLOCK FALSE
