CONSTANTS
  t1 = t1
  a1 = a1
  a2 = a2
  b1 = b1
  b2 = b2
  Main = Main
  NoAnn = NoAnn
  NoPod = NoPod
  NoError = NoError
  NoCap = NoCap
  Targets = {t1}
  Pods = {a1, a2, b1, b2}
  Orig <- MCOrig
  Scope <- MCScope
  RestoreScope <- MCRestoreScope
  Caps = {0, 4, 20}
  Grants = {0, 3}
  Guarantee = 0
  MinPerPod = 1
  MinQuota = 1
  MaxQuota = 4
  Period = 4
  Fractions = TRUE
  Faults = {"crash", "api", "cgroup"}
  MaxFaults = 3
  Modes = {"rules", "law"}
  Errors <- MCErrors
  KP = 3
  KI = 2
  CapBase = 40
  CapMin = 4
  Quantum = 8
  Leave = 6
SPECIFICATION IsoFairSpec
INVARIANTS
  WrittenIsRecorded
  RecordIsOriginal
  RestoreReleases
  IntegralBounded
  CapIsWritten
PROPERTIES
  ReconcileCompletes
  NoFlap
  CapSettles
