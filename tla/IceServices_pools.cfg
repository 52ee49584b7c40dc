SPECIFICATION Spec
CONSTANTS
  Parts <- MCParts
  Keys = {k1, k2, k3}
  Probe = Probe
  MaxEntries = 2
  TTL = 1
  ListLimit = 1
  Facts = {f1, f2}
  General = general
  Domains = {general, shop}
  Entities = {e1}
  Types = {near}
  MaxListed = 2
  Procedures = {p1, p2}
  Composite = composite
  Categories = {composite, sales}
  Contexts = {x1}
  MaxUses = 1
  MaxStores = 2
  Agents = {a1, a2}
  PoolNames = {n1, n2}
  PoolKeys = {c1, c2}
  MaxPools = 2
  MaxContent = 3
  PoolListLimit = 1
  Callers = {r1, r2, r3}
  Networks = {w1, w2}
  NoTask = NoTask
  Clients = {s1, s2}
  MaxMessages = 2
  Patience = 1
  MaxLock = 2
  Collections = {l1, l2}
  Workflows = {f1w}
  Users = {u1}
  Revisions = {v1, v2}
  Writers = {q1, q2, q3}
  CanvasIds = {d1, d2, d3}
  FirstNode = d1
  SecondNode = d2
  ThirdNode = d3
  Planned <- MCPlanned
  Models = {"unknown"}
  Preferred <- MCPreferred
  Capable = {"big"}
  MaxCanvas = 3
  MaxRanked = 2
PROPERTY DeletedWithData
CHECK_DEADLOCK FALSE
