SPECIFICATION Spec
CONSTANTS
  r1 = r1
  r2 = r2
  r3 = r3
  k1 = k1
  k2 = k2
  w1 = w1
  p1 = p1
  p2 = p2
  c1 = c1
  c2 = c2
  Runs = {r1, r2, r3}
  Scenarios = {k1, k2}
  Workspaces = {w1}
  Paths = {p1, p2}
  ScenarioOf <- ScenarioOfRun
  WorkspaceOf <- WorkspaceOfRun
  NoWorkspace = NoWorkspace
  NoPath = NoPath
  Keep = 1
  Main = Main
  Hook = Hook
  Closers = {c1, c2}
  MaxStops = 2
  Fragments <- Ascii
  Budgets <- Each
INVARIANT AckedIsThere
PROPERTY KeepsPromise
CHECK_DEADLOCK FALSE
