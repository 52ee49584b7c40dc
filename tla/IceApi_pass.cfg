CONSTANTS
  Requests = {r1, r2, r3}
  t1 = t1
  t2 = t2
  ag = ag
  wf = wf
  cd = cd
  Components = {t1, t2, ag, wf, cd}
  TypeOf <- MCTypeOf
  Defs <- MCDefs
  Manifest <- MCManifest
  NoLock = NoLock
  Docs = {d1}
  Users = {u1, u2}
  Texts = {x, y}
  Areas = {"components", "documents", "runs", "studio"}
  Load <- MCLoad
  Offered <- MCOffered
SPECIFICATION Spec
SYMMETRY Symmetry
INVARIANTS RegisteredSurvives SoloEditsKept StudioConsistent
PROPERTY ToolsNeverReplaced
CHECK_DEADLOCK FALSE
