CONSTANTS
  t1 = t1
  v1 = v1
  v2 = v2
  a1 = a1
  a2 = a2
  NoTarget = NoTarget
  NoAnn = NoAnn
  NoPod = NoPod
  Targets = {t1}
  Victims = {v1, v2}
  Aggs = {a1, a2}
  TargetOf <- MCTargetOf
  Online <- MCOnline
  VictimCPUs <- MCVictimCPUs
  SecondaryCPUs <- MCSecondary
  Orig <- MCOrig
  Faults = {"crash", "api", "cgroup", "host", "balancer", "static", "aggressors"}
  MaxFaults = 1
SPECIFICATION FairSpec
INVARIANTS
  HostStateInv
PROPERTY
  CallReturns
