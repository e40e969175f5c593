CONSTANTS
  n1 = n1
  n2 = n2
  NoCall = NoCall
  NoCount = NoCount
  Nodes = {n1, n2}
  Resets = FALSE
  Original = 1
  Calls <- MCCalls
  RuleCalls <- MCRuleCalls
  MaxFaults = 0
  NMax = 2
  Baseline = 1
  MinReplicas = 1
  UpWindows = 1
  DownWindows = 1
  MaxReplicas = 3
  Modes = {"formula"}
SPECIFICATION TickSpec
PROPERTIES
  CooldownIsCrossNode
