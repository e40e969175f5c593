CONSTANTS
  t1 = t1
  t2 = t2
  a1 = a1
  a2 = a2
  b1 = b1
  b2 = b2
  Main = Main
  NoAnn = NoAnn
  NoPod = NoPod
  Targets = {t1, t2}
  Pods = {a1}
  Orig <- MCOrig
  Scope <- MCScope
  RestoreScope <- MCRestoreScope
  Caps = {0, 4, 20}
  Grants = {}
  Guarantee = 0
  MinPerPod = 1
  MinQuota = 1
  MaxQuota = 4
  Period = 4
  Fractions = TRUE
  Faults = {}
  MaxFaults = 0
SPECIFICATION Spec
INVARIANT
  RecordIsOriginal
