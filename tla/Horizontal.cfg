CONSTANTS
  n1 = n1
  n2 = n2
  NoCall = NoCall
  NoCount = NoCount
  Nodes = {n1, n2}
  Resets = TRUE
  Original = 1
  Calls <- MCCalls
  RuleCalls <- MCRuleCalls
  MaxFaults = 1
  NMax = 1
  Baseline = 1
  MinReplicas = 1
  UpWindows = 2
  DownWindows = 1
  MaxReplicas = 3
  Modes = {"formula", "rules"}
SPECIFICATION TickFairSpec
INVARIANTS
  BaselineIsOriginal
PROPERTIES
  EnsureMinNeverLowers
  ScalesOncePerCooldown
  CounterConverges
