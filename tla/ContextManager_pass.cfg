SPECIFICATION Spec
CONSTANTS
  p1 = p1
  p2 = p2
  s = s
  none = none
  Proc = {p1, p2}
  Main = p1
  Scope = {s}
  NoScope = none
  ScopeOf <- MCScopeOf
  NodeId = {a}
  Value = {"cuttext", "longobject"}
  Output = {"longtext", "longobject", "opaque"}
  Absent = Absent
  Free = Free
  Run = {r1, r2}
  Branch = {b1}
  MaxSessions = 2
  MaxOps = 2
  MaxCrashes = 1
INVARIANTS
  SerialUpdatesDurable
  UndisturbedSeesOwn
CHECK_DEADLOCK FALSE
