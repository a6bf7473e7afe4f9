SPECIFICATION Spec
CONSTANTS
  Grid = {5}
  First = {5}
  Strategies = {"ACCEPT"}
  Fields = {"status"}
  Treatments = {t1}
  Outcomes = {"text"}
  Moves = {"IN_PROGRESS", "COMPLETED"}
  Assignees = {u2}
  Operators = {u1, u2}
  Admins = {u1}
  Requests = {k1}
  None = None
INVARIANT AcceptedIsAcceptable
CHECK_DEADLOCK FALSE
