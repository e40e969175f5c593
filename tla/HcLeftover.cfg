CONSTANTS
  t1 = t1
  v1 = v1
  v2 = v2
  a1 = a1
  a2 = a2
  NoTarget = NoTarget
  NoAnn = NoAnn
  NoPod = NoPod
  Targets = {t1}
  Victims = {v1, v2}
  Aggs = {a1, a2}
  TargetOf <- MCTargetOf
  Online <- MCOnline
  VictimCPUs <- MCVictimCPUs
  SecondaryCPUs <- MCSecondary
  Orig <- MCOrig
  Faults = {"listener"}
  MaxFaults = 1
SPECIFICATION Spec
INVARIANT
  RecordedAreRegistered
