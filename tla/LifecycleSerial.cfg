SPECIFICATION SerialSpec
CONSTANTS
  Assets = {a1, a2}
  People = {p1}
  Warehouses = {w1}
  Locations = {l1}
  LocationOf <- MCLocationOf
  Docs = {d1, d2}
  Handlers = {h1}
  Corrections = {"LOST"}
  None = None
  w1 = w1
  l1 = l1
SYMMETRY Symmetric
INVARIANTS HandedOutIsDocumented OnlyHandedOutIsOpen DeletedIsSettled
CHECK_DEADLOCK FALSE
