CONSTANTS
  t1 = t1
  v1 = v1
  v2 = v2
  a1 = a1
  a2 = a2
  NoTarget = NoTarget
  NoAnn = NoAnn
  NoPod = NoPod
  Targets = {t1}
  Victims = {v1, v2}
  Aggs = {a1}
  TargetOf <- MCTargetOf
  Online <- MCOnline
  VictimCPUs <- MCVictimCPUs
  SecondaryCPUs <- MCSecondary
  Orig <- MCOrig
  Faults = {"listener", "cgroup", "systemd", "balancer", "victims", "aggressors"}
  MaxFaults = 1
  UpWindows = 2
  DownWindows = 1
SPECIFICATION TickFairSpec
PROPERTIES
  HighRegistersAll
  HighKeepsBalancer
