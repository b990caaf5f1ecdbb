SPECIFICATION Spec
CONSTANTS
  bus = bus
  handler = handler
  a1 = a1
  a2 = a2
  n1 = n1
  n2 = n2
  jumble = jumble
  Packages = {bus, handler}
  Stoppers = {handler}
  Admins = {a1, a2}
  Procs = {bus, handler, a1, a2}
  Names = {n1, n2}
  Deployed = jumble
  Dbs = {n1, n2, jumble}
  MaxTries = 3
  NoProc = NoProc
  NoDb = NoDb
CHECK_DEADLOCK FALSE
SYMMETRY MCSymmetry
INVARIANTS TypeOK MigratedMeansReady ScriptRunsOnce OwnDatabase LostOnlyToStop
