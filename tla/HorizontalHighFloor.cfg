CONSTANTS
  n1 = n1
  n2 = n2
  NoCall = NoCall
  NoCount = NoCount
  Nodes = {n1, n2}
  Resets = FALSE
  Original = 1
  Calls <- MCHighFloor
  RuleCalls <- MCHighFloor
  MaxFaults = 0
  NMax = 1
  Baseline = 1
  MinReplicas = 1
  UpWindows = 2
  DownWindows = 1
  MaxReplicas = 3
  Modes = {"rules"}
SPECIFICATION TickSpec
PROPERTIES
  EnsureMinNeverLowers
